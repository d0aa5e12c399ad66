------------------------- MODULE WalletAdapterProofs -------------------------
(***************************************************************************)
(* Theorems about WalletAdapter for any bounds and any number of savers:   *)
(* its types; that m_file is open only under m_mutex, that a save in       *)
(* progress has both to itself, and that no backup is left under an old    *)
(* password, which need the wallet to be closed only when nothing is       *)
(* pending ("idle_close") and nothing about timing; and, with what is      *)
(* assumed of the callbacks, that the backup flag is right, that           *)
(* renameFile() finds its file, and that the protocol implements           *)
(* WalletFile.                                                             *)
(***************************************************************************)
EXTENDS WalletAdapter, TLAPS

(* A load that can succeed has a version to load.                          *)
LoadData == init.ok => init.data \in Data

TInv == TypeOK /\ LoadData

(* A load runs on a wallet that is loading, and has decided what the       *)
(* wallet is when its callback has begun.                                  *)
Loading ==
  /\ init.pc = "run" => wallet = "loading"
  /\ init.pc = "emit" => wallet = IF init.ok THEN "ready" ELSE "blank"

(* A transaction being sent has the lock, and no file.                     *)
Sending ==
  /\ send.pc # "none" => wallet = "ready"
  /\ send.pc = "run" => mutex /\ handle = "closed"

(* A queued signal tells of the wallet there is.                           *)
Tells(e) ==
  /\ e.ok => wallet = "ready"
  /\ e.ev = "initDone" /\ ~e.ok => wallet = "blank"
Signals == \A i \in DOMAIN queue : Tells(queue[i])

(* A load is told of once.                                                 *)
Once ==
  /\ \A i, j \in DOMAIN queue : queue[i].ev = "initDone" /\ queue[j].ev = "initDone" => i = j
  /\ init.pc # "none" => \A i \in DOMAIN queue : queue[i].ev # "initDone"

(* What the handler of the GUI thread may count on where it is.            *)
Handling ==
  /\ gui.pc \in {"open", "start", "return", "remove", "sendLock"} /\ gui.op \notin EndOps
       => wallet = "ready"
  /\ gui.pc \in {"remove", "sendLock"} => gui.op \notin EndOps
  /\ gui.pc \in {"lock", "events", "delete"} => gui.op \in EndOps
  /\ gui.pc # "self"
  /\ gui.pc = "start" => mutex /\ handle # "closed" /\ Writing = {}
  /\ gui.pc \in {"events", "delete"} => handle = "closed"
  /\ gui.op \in EndOps => init.pc = "none" /\ send.pc = "none" /\ queue = <<>>

(* Only a wallet that is ready is being saved.                             *)
Saving == SaveOwnsFile /\ (Writing # {} => wallet = "ready")

LInv == LockCoversFile /\ Loading /\ Sending /\ Signals /\ Once /\ Handling /\ Saving
-----------------------------------------------------------------------------
(* Values of the sets that the types are made of.                          *)
LEMMA DataFacts ==
  /\ Absent \in Data /\ 1 \in Data /\ Data \subseteq Contents /\ Partial \in Contents
  /\ \A v \in Data : v < MaxVersion => v + 1 \in Data
  /\ \A v \in Versions : v \in Data
  BY WalletAssumption DEF WalletAssumption, Data, Contents, Versions, Absent, Partial

LEMMA RecordFacts ==
  /\ IdleSaver \in Saver /\ NoInit \in Load /\ Quiet \in Sent /\ Loop \in Handler
  /\ \A v \in Data : /\ [pc |-> "write", data |-> v] \in Saver
                      /\ [pc |-> "remove", data |-> v] \in Saver
  /\ \A b \in BOOLEAN, v \in Contents : [pc |-> "run", ok |-> b, data |-> v] \in Load
  /\ \A b \in BOOLEAN : [pc |-> "run", ok |-> b] \in Sent
  /\ \A op \in Handlers, pc \in Steps : At(op, pc) \in Handler
  BY DataFacts DEF IdleSaver, NoInit, Quiet, Loop, At, Saver, Load, Sent, Handler, Handlers, Steps

LEMMA PathFacts ==
  /\ {"wallet", "temp", "backup", "copy"} = Paths
  /\ \A op : Target(op) \in Paths
  BY DEF Target, Paths

LEMMA NameFacts ==
  /\ {"backup", "autoBackup", "passwordBackup", "close", "reset", "none", "restart", "firstSave",
      "sendSave", "password", "passwordSave", "send"} \subseteq Handlers
  /\ {"loop", "reopen", "open", "start", "return", "remove", "sendLock", "lock", "events",
      "delete", "self"} \subseteq Steps
  /\ EndOps \subseteq Handlers
  BY DEF Handlers, Steps, BackupOps, EndOps

(* What follows a save is a handler.                                       *)
LEMMA AfterSaveType == \A op \in Handlers : AfterSave(op) \in Handler
  BY DEF AfterSave, At, Loop, Handler, Handlers, Steps, BackupOps, EndOps

(* The initial state is typed.                                             *)
LEMMA InitType == Init => TInv
<1> SUFFICES ASSUME Init PROVE TInv
  OBVIOUS
<1>1. disk \in [Paths -> Contents] /\ last \in Data
  BY DataFacts, PathFacts DEF Init
<1>2. queue \in Seq(Signal)
  BY DEF Init
<1>3. /\ savers \in [Savers -> Saver] /\ init \in Load /\ send \in Sent
      /\ gui \in Handler /\ mem \in Data /\ passwordAt \in Data
      /\ init.data = Absent
  BY DataFacts, RecordFacts DEF Init, NoInit
<1>4. /\ handle = "closed" /\ mutex = FALSE /\ backing = FALSE /\ wallet = "null"
      /\ up = TRUE /\ ops = 0 /\ crashes = 0
  BY DEF Init
<1> QED
  BY <1>1, <1>2, <1>3, <1>4, DataFacts DEF TInv, TypeOK, LoadData

(* A process that ends leaves its variables typed.                         *)
LEMMA VolatileType ==
  ASSUME Volatile
  PROVE  /\ handle' = "closed" /\ mutex' = FALSE /\ backing' = FALSE /\ up' = FALSE
         /\ wallet' = "null" /\ mem' \in Data /\ gui' \in Handler
         /\ savers' \in [Savers -> Saver] /\ init' \in Load /\ send' \in Sent
         /\ LoadData'
  BY DataFacts, RecordFacts DEF Volatile, LoadData, NoInit

(* Every step keeps the types.                                             *)
LEMMA NextType == TInv /\ [Next]_vars => TInv'
<1> SUFFICES ASSUME TInv, [Next]_vars PROVE TInv'
  OBVIOUS
<1> USE DataFacts, RecordFacts, PathFacts, NameFacts, AfterSaveType
    DEF TInv, TypeOK, LoadData, file, data, library, bounds
<1>h. gui.op \in Handlers /\ gui.pc \in Steps
  BY DEF Handler
<1>q. queue # <<>> => Tail(queue) \in Seq(Signal)
  OBVIOUS
<1>c. ASSUME NEW op \in Handlers, CallSave(op) PROVE gui' \in Handler
  BY <1>c, <1>h DEF CallSave
<1>o. ASSUME OpenWallet, ops' \in Nat PROVE TInv'
  <2>1. gui' \in Handler
    BY <1>o DEF OpenWallet
  <2>2. /\ handle' \in Paths \cup {"unlinked", "closed"} /\ mutex' \in BOOLEAN
        /\ wallet' \in {"null", "blank", "loading", "ready"}
    BY <1>o DEF OpenWallet
  <2>3. init' \in Load /\ LoadData'
    <3>1. Complete("wallet") \in BOOLEAN /\ disk["wallet"] \in Contents
          /\ (Complete("wallet") => disk["wallet"] \in Data)
      BY DEF Complete
    <3>2. CASE init' = init
      BY <3>2
    <3>3. CASE init' = [pc |-> "run", ok |-> Complete("wallet"), data |-> disk["wallet"]]
      BY <3>1, <3>3
    <3> QED
      BY <1>o, <3>2, <3>3 DEF OpenWallet
  <2>4. UNCHANGED <<disk, backing, mem, last, passwordAt, savers, send, queue, up, crashes>>
    BY <1>o DEF OpenWallet
  <2> QED
    BY <1>o, <2>1, <2>2, <2>3, <2>4
<1>1. CASE Reopen
  BY <1>1, <1>o DEF Reopen
<1>2. CASE OpenFile
  <2>1. gui' \in Handler
    BY <1>2, <1>h DEF OpenFile
  <2>2. disk' \in [Paths -> Contents] /\ handle' \in Paths \cup {"unlinked", "closed"}
        /\ mutex' \in BOOLEAN
    <3>1. CASE UNCHANGED file
      BY <3>1
    <3>2. CASE /\ mutex' = TRUE /\ handle' = Target(gui.op)
               /\ disk' = [disk EXCEPT ![Target(gui.op)] = Partial]
      BY <3>2
    <3> QED
      BY <1>2, <3>1, <3>2 DEF OpenFile
  <2>3. UNCHANGED <<backing, wallet, data, library, queue, bounds>>
    BY <1>2 DEF OpenFile
  <2> QED
    BY <2>1, <2>2, <2>3
<1>3. CASE StartSave
  <2>1. gui' \in Handler
    BY <1>3, <1>h DEF StartSave
  <2>2. handle' \in Paths \cup {"unlinked", "closed"} /\ mutex' \in BOOLEAN
    BY <1>3 DEF StartSave
  <2>3. savers' \in [Savers -> Saver]
    BY <1>3 DEF StartSave
  <2>4. UNCHANGED <<disk, backing, wallet, data, init, send, queue, bounds>>
    BY <1>3 DEF StartSave
  <2> QED
    BY <2>1, <2>2, <2>3, <2>4
<1>4. CASE SaveReturned
  BY <1>4, <1>h, <1>q DEF SaveReturned
<1>5. CASE RemoveBackup
  <2>1. disk' \in [Paths -> Contents] /\ handle' \in Paths \cup {"unlinked", "closed"}
    BY <1>5 DEF RemoveBackup
  <2>2. gui' \in Handler
    BY <1>5 DEF RemoveBackup
  <2> QED
    BY <1>5, <2>1, <2>2 DEF RemoveBackup
<1>6. CASE SendLocked
  <2>1. send' \in Sent /\ mutex' \in BOOLEAN /\ gui' \in Handler
    BY <1>6 DEF SendLocked
  <2> QED
    BY <1>6, <2>1 DEF SendLocked
<1>7. CASE CloseLock
  <2>1. savers' \in [Savers -> Saver]
    BY <1>7 DEF CloseLock
  <2>2. init' \in Load /\ LoadData' /\ send' \in Sent
    BY <1>7 DEF CloseLock, NoInit
  <2>3. gui' \in Handler /\ mutex' \in BOOLEAN
    BY <1>7, <1>h DEF CloseLock
  <2> QED
    BY <1>7, <2>1, <2>2, <2>3 DEF CloseLock
<1>8. CASE CloseEvents
  BY <1>8, <1>h, <1>q DEF CloseEvents
<1>9. CASE CloseDelete
  BY <1>9, <1>h, <1>q DEF CloseDelete
<1>10. CASE OnInitDone
  <2>1. queue' \in Seq(Signal)
    BY <1>10, <1>q DEF OnInitDone, Delivers
  <2>2. UNCHANGED <<disk, last, passwordAt, ops, crashes>>
    BY <1>10 DEF OnInitDone
  <2>3. CASE wallet = "null"
    <3>1. Volatile
      BY <1>10, <2>3 DEF OnInitDone
    <3> QED
      BY <2>1, <2>2, <3>1, VolatileType
  <2>4. CASE wallet # "null"
    <3>1. /\ UNCHANGED <<handle, mutex, backing, wallet, mem, library, up>>
          /\ gui' = gui \/ CallSave("firstSave")
      BY <1>10, <2>4 DEF OnInitDone
    <3>2. gui' \in Handler
      BY <3>1, <1>c
    <3> QED
      BY <2>1, <2>2, <3>1, <3>2
  <2> QED
    BY <2>3, <2>4
<1>11. CASE OnOpened
  <2>1. queue' \in Seq(Signal)
    BY <1>11, <1>q DEF OnOpened, Delivers
  <2>2. UNCHANGED <<disk, last, passwordAt, ops, crashes>>
    BY <1>11 DEF OnOpened
  <2>3. CASE wallet = "null"
    <3>1. Volatile
      BY <1>11, <2>3 DEF OnOpened
    <3> QED
      BY <2>1, <2>2, <3>1, VolatileType
  <2>4. CASE wallet # "null"
    <3>1. /\ UNCHANGED <<handle, mutex, backing, wallet, mem, library, up>>
          /\ gui' = gui \/ CallSave("autoBackup")
      BY <1>11, <2>4 DEF OnOpened
    <3>2. gui' \in Handler
      BY <3>1, <1>c
    <3> QED
      BY <2>1, <2>2, <3>1, <3>2
  <2> QED
    BY <2>3, <2>4
<1>12. CASE OnSendDone
  <2>1. queue' \in Seq(Signal)
    BY <1>12, <1>q DEF OnSendDone, Delivers
  <2>2. UNCHANGED <<disk, last, passwordAt, ops, crashes>>
    BY <1>12 DEF OnSendDone
  <2>3. CASE wallet = "null"
    <3>1. Volatile
      BY <1>12, <2>3 DEF OnSendDone
    <3> QED
      BY <2>1, <2>2, <3>1, VolatileType
  <2>4. CASE wallet # "null"
    <3>1. /\ UNCHANGED <<handle, mutex, backing, wallet, mem, library, up>>
          /\ gui' = gui \/ CallSave("sendSave")
      BY <1>12, <2>4 DEF OnSendDone
    <3>2. gui' \in Handler
      BY <3>1, <1>c
    <3> QED
      BY <2>1, <2>2, <3>1, <3>2
  <2> QED
    BY <2>3, <2>4
<1>13. CASE OnInitFailed
  BY <1>13, <1>h, <1>q DEF OnInitFailed, Delivers
<1>14. CASE OnOpenFailed
  BY <1>14, <1>h, <1>q DEF OnOpenFailed, Delivers
<1>15. CASE OnSendFailed
  BY <1>15, <1>h, <1>q DEF OnSendFailed, Delivers
<1>16. CASE Open
  BY <1>16, <1>o DEF Open, Starts
<1>17. CASE Create
  <2>1. last' \in Data /\ init' \in Load /\ LoadData'
    BY <1>17 DEF Create
  <2> QED
    BY <1>17, <2>1 DEF Create, Starts
<1>18. CASE Backup
  <2>1. gui' \in Handler
    BY <1>18 DEF Backup
  <2> QED
    BY <1>18, <2>1 DEF Backup, Starts
<1>19. CASE SendTransaction
  <2>1. gui' \in Handler
    BY <1>19 DEF SendTransaction
  <2> QED
    BY <1>19, <2>1 DEF SendTransaction, Starts
<1>20. CASE ChangePassword
  <2>1. gui' \in Handler
    BY <1>20 DEF ChangePassword
  <2> QED
    BY <1>20, <2>1 DEF ChangePassword, Starts
<1>21. CASE Close
  <2>1. gui' \in Handler
    BY <1>21 DEF Close
  <2> QED
    BY <1>21, <2>1 DEF Close, Starts
<1>22. CASE InitCompleted
  <2>1. PICK ok \in {FALSE, init.ok} :
          /\ init' = [init EXCEPT !.pc = "emit", !.ok = ok]
          /\ IF ~ok THEN wallet' = "blank" /\ UNCHANGED data
             ELSE /\ wallet' = "ready" /\ mem' = init.data
                  /\ passwordAt' = IF mem' < passwordAt THEN Absent ELSE passwordAt
                  /\ UNCHANGED last
    BY <1>22 DEF InitCompleted
  <2>2. init' \in Load /\ init'.ok = ok /\ init'.data = init.data
    BY <2>1 DEF Load
  <2>3. ok => init.data \in Data
    BY <2>1
  <2>4. mem' \in Data /\ last' \in Data /\ passwordAt' \in Data
        /\ wallet' \in {"null", "blank", "loading", "ready"}
    BY <2>1, <2>3
  <2>5. handle' \in Paths \cup {"unlinked", "closed"} /\ mutex' \in BOOLEAN
    BY <1>22 DEF InitCompleted
  <2>6. UNCHANGED <<disk, backing, gui, savers, send, queue, bounds>>
    BY <1>22 DEF InitCompleted
  <2> QED
    BY <2>2, <2>3, <2>4, <2>5, <2>6
<1>23. CASE InitEmit
  <2>1. init' \in Load /\ LoadData'
    BY <1>23 DEF InitEmit, NoInit
  <2>2. queue' \in Seq(Signal)
    BY <1>23 DEF InitEmit, Load, Signal
  <2> QED
    BY <1>23, <2>1, <2>2 DEF InitEmit
<1>24. CASE SendCompleted
  <2>1. send' \in Sent
    BY <1>24 DEF SendCompleted, Sent
  <2>2. mem' \in Data /\ last' \in Data
    BY <1>24 DEF SendCompleted
  <2> QED
    BY <1>24, <2>1, <2>2 DEF SendCompleted
<1>25. CASE SendEmit
  <2>1. queue' \in Seq(Signal)
    BY <1>25 DEF SendEmit, Sent, Signal
  <2> QED
    BY <1>25, <2>1 DEF SendEmit
<1>26. CASE Crash
  <2>1. UNCHANGED <<disk, last, passwordAt, ops>> /\ queue' = <<>> /\ crashes' = crashes + 1
    BY <1>26 DEF Crash
  <2>2. Volatile
    BY <1>26 DEF Crash
  <2> QED
    BY <2>1, <2>2, VolatileType
<1>27. CASE Restart
  <2>1. queue' \in Seq(Signal)
    <3>1. queue' = <<>>
      BY <1>27 DEF Restart
    <3> QED
      BY <3>1
  <2>2. gui' \in Handler /\ up' = TRUE
    BY <1>27 DEF Restart
  <2> QED
    BY <1>27, <2>1, <2>2 DEF Restart
<1>28. ASSUME NEW s \in Savers, SaveCompleted(s)
      PROVE  TInv'
  <2>1. savers[s].data \in Data
    BY DEF Saver
  <2>2. PICK ok \in BOOLEAN, v \in {savers[s].data, mem} :
          /\ disk' = IF ok /\ handle \in Paths THEN [disk EXCEPT ![handle] = v] ELSE disk
          /\ savers' = [savers EXCEPT ![s] =
               IF ok /\ ~backing THEN [pc |-> "remove", data |-> v] ELSE IdleSaver]
    BY <1>28 DEF SaveCompleted
  <2>3. v \in Data /\ v \in Contents
    BY <2>1, <2>2
  <2>4. disk' \in [Paths -> Contents]
    BY <2>2, <2>3
  <2>5. savers' \in [Savers -> Saver]
    BY <2>2, <2>3
  <2>6. /\ backing' = FALSE /\ handle' = "closed" /\ mutex' = FALSE
        /\ UNCHANGED <<wallet, data, gui, init, send, queue, bounds>>
    BY <1>28 DEF SaveCompleted
  <2> QED
    BY <2>4, <2>5, <2>6
<1>29. ASSUME NEW s \in Savers, RemoveWallet(s)
      PROVE  TInv'
  BY <1>29 DEF RemoveWallet, Saver
<1>30. ASSUME NEW s \in Savers, RenameTemp(s)
      PROVE  TInv'
  BY <1>30 DEF RenameTemp, Saver
<1>31. CASE UNCHANGED vars
  BY <1>31 DEF vars
<1> QED
  BY <1>1, <1>2, <1>3, <1>4, <1>5, <1>6, <1>7, <1>8, <1>9, <1>10, <1>11, <1>12, <1>13,
     <1>14, <1>15, <1>16, <1>17, <1>18, <1>19, <1>20, <1>21, <1>22, <1>23, <1>24, <1>25,
     <1>26, <1>27, <1>28, <1>29, <1>30, <1>31
     DEF Next, GuiStep, UserStep, LibraryStep, SaverStep
(* The initial state satisfies the invariant.                              *)
LEMMA InitLock == Init => LInv
<1> SUFFICES ASSUME Init PROVE LInv
  OBVIOUS
<1>1. /\ handle = "closed" /\ init.pc = "none" /\ send.pc = "none" /\ queue = <<>>
      /\ gui.op = "none" /\ gui.pc = "loop"
  BY DEF Init, NoInit, Quiet, Loop
<1>2. Writing = {}
  BY DEF Init, Writing, IdleSaver
<1> QED
  BY <1>1, <1>2 DEF LInv, LockCoversFile, Loading, Sending, Signals, Once, Handling,
     Saving, SaveOwnsFile, EndOps

(* What a handler does after its save is over depends on which it is.      *)
LEMMA AfterSaveStep ==
  ASSUME NEW op \in Handlers
  PROVE  /\ AfterSave(op).pc \in {"open", "lock", "loop"}
         /\ op \in EndOps => AfterSave(op).op = op /\ AfterSave(op).pc = "lock"
         /\ op \notin EndOps => AfterSave(op).op \notin EndOps /\ AfterSave(op).pc # "lock"
         /\ AfterSave(op).pc = "open" => op = "passwordBackup"
  BY DEF AfterSave, At, Loop, EndOps, Handlers, BackupOps

(* No load is told of while there is no wallet.                            *)
LEMMA NullQuiet ==
  ASSUME TInv, Signals, wallet = "null"
  PROVE  \A i \in DOMAIN queue : queue[i].ev # "initDone"
<1> SUFFICES ASSUME NEW i \in DOMAIN queue PROVE queue[i].ev # "initDone"
  OBVIOUS
<1>1. queue[i] \in Signal
  BY DEF TInv, TypeOK
<1> QED
  BY <1>1 DEF Signals, Tells, Signal

(* Every step keeps the invariant when the wallet is closed only while     *)
(* nothing is pending.                                                     *)
LEMMA NextLock ==
  ASSUME "idle_close" \in Discipline, TInv, TInv', LInv, [Next]_vars
  PROVE  LInv'
<1> USE DEF LInv, Once, LockCoversFile, Loading, Sending, Handling, Saving, SaveOwnsFile, Writing,
            file, data, library, bounds
<1>h. gui.op \in Handlers /\ gui.pc \in Steps
  BY DEF TInv, TypeOK, Handler
<1>q. ASSUME queue # <<>>
      PROVE  /\ Tells(Head(queue))
             /\ \A i \in DOMAIN Tail(queue) : Tells(Tail(queue)[i])
  BY <1>q DEF TInv, TypeOK, Signals
<1>d. ASSUME NEW ev, NEW ok, Delivers(ev, ok)
      PROVE  /\ ok = TRUE => wallet = "ready"
             /\ ev = "initDone" /\ ok = FALSE => wallet = "blank"
             /\ gui.op \notin EndOps /\ gui.pc = "loop"
             /\ \A i \in DOMAIN queue' : Tells(queue'[i])
             /\ init' = init => Once'
             /\ ev = "initDone" => \A i \in DOMAIN queue' : queue'[i].ev # "initDone"
  <2>1. queue # <<>> /\ Head(queue) = [ev |-> ev, ok |-> ok] /\ queue' = Tail(queue)
        /\ gui.pc \in {"loop", "events"}
    BY <1>d DEF Delivers
  <2>0. Head(queue).ok = ok /\ Head(queue).ev = ev
    BY <2>1
  <2>2. ok = TRUE => wallet = "ready"
    BY <2>0, <2>1, <1>q DEF Tells
  <2>3. ev = "initDone" /\ ok = FALSE => wallet = "blank"
    BY <2>1, <1>q DEF Tells
  <2>4. \A i \in DOMAIN queue' : Tells(queue'[i])
    BY <2>1, <1>q
  <2>5. \A i \in DOMAIN queue' : i + 1 \in DOMAIN queue /\ queue'[i] = queue[i + 1] /\ i \in Nat \ {0}
    BY <2>1 DEF TInv, TypeOK
  <2>6. init' = init => Once'
    BY <2>5 DEF Once
  <2>7. 1 \in DOMAIN queue /\ queue[1].ev = ev
    BY <2>0, <2>1 DEF TInv, TypeOK
  <2>8. ev = "initDone" => \A i \in DOMAIN queue' : queue'[i].ev # "initDone"
    BY <2>5, <2>7 DEF Once
  <2> QED
    BY <2>1, <2>2, <2>3, <2>4, <2>6, <2>8
<1>o. ASSUME OpenWallet PROVE LInv'
  <2>1. /\ wallet = "null" /\ gui' = Loop
        /\ UNCHANGED <<savers, send, queue>>
        /\ \/ /\ ~mutex /\ handle' = "wallet" /\ mutex' = TRUE /\ wallet' = "loading"
              /\ init'.pc = "run"
           \/ /\ wallet' \in {"null", "blank"} /\ UNCHANGED <<handle, mutex, init>>
    BY <1>o DEF OpenWallet
  <2>2. init.pc = "none" /\ send.pc = "none" /\ Writing = {}
    BY <2>1 DEF TInv, TypeOK, Load
  <2>3. \A i \in DOMAIN queue : queue[i].ok # TRUE /\ ~(queue[i].ev = "initDone" /\ queue[i].ok = FALSE)
    BY <2>1 DEF Signals, Tells
  <2>4. Signals'
    BY <2>1, <2>3 DEF Signals, Tells, TInv, TypeOK, Signal
  <2>5. Once'
    BY <2>1, NullQuiet
  <2> QED
    BY <2>1, <2>2, <2>4, <2>5 DEF Loop, EndOps
<1>1. CASE Reopen
  BY <1>1, <1>o DEF Reopen
<1>2. CASE OpenFile
  <2>1. UNCHANGED <<backing, wallet, data, library, queue, bounds>> /\ gui.pc = "open" /\ ~mutex
    BY <1>2 DEF OpenFile
  <2>2. CASE UNCHANGED file /\ gui' = AfterSave(gui.op)
    BY <2>1, <2>2, <1>h, AfterSaveStep DEF Signals, Tells
  <2>3. CASE mutex' = TRUE /\ handle' = Target(gui.op) /\ gui' = At(gui.op, "start")
    <3>1. handle' # "closed"
      BY <2>3, PathFacts DEF Paths
    <3> QED
      BY <2>1, <2>3, <3>1 DEF At, Signals, Tells
  <2> QED
    BY <1>2, <2>2, <2>3 DEF OpenFile
<1>3. CASE StartSave
  <2>1. UNCHANGED <<disk, backing, wallet, data, init, send, queue, bounds>> /\ gui.pc = "start"
    BY <1>3 DEF StartSave
  <2>2. CASE handle' = "closed" /\ mutex' = FALSE /\ gui' = AfterSave(gui.op) /\ UNCHANGED savers
    BY <2>1, <2>2, <1>h, AfterSaveStep DEF Signals, Tells
  <2>3. ASSUME NEW s \in Savers, wallet = "ready", UNCHANGED <<handle, mutex>>,
               savers' = [savers EXCEPT ![s] = [pc |-> "write", data |-> mem]],
               gui' = At(gui.op, "return")
        PROVE  LInv'
    <3>1. Writing' = {s}
      BY <2>1, <2>3 DEF TInv, TypeOK
    <3> QED
      BY <2>1, <2>3, <3>1 DEF At, Signals, Tells
  <2> QED
    BY <1>3, <2>2, <2>3 DEF StartSave
<1>4. CASE SaveReturned
  BY <1>4, <1>h, AfterSaveStep DEF SaveReturned, Signals, Tells
<1>5. CASE RemoveBackup
  BY <1>5, <1>h DEF RemoveBackup, At, EndOps, Signals, Tells
<1>6. CASE SendLocked
  <2>1. wallet = "ready" /\ Writing = {} /\ handle = "closed" /\ gui.op \notin EndOps
    BY <1>6 DEF SendLocked
  <2>2. UNCHANGED <<handle, wallet, savers, init, queue>> /\ gui' = Loop
    BY <1>6 DEF SendLocked
  <2>3. Writing' = {} /\ Signals'
    BY <2>1, <2>2 DEF Signals, Tells
  <2>4. send'.pc # "none" => mutex' \/ send' = send
    BY <1>6 DEF SendLocked
  <2> QED
    BY <1>6, <2>1, <2>2, <2>3, <2>4 DEF SendLocked, Loop, EndOps
<1>7. CASE CloseLock
  BY <1>7, <1>h DEF CloseLock, At, EndOps, Signals, Tells
<1>8. CASE CloseEvents
  BY <1>8, <1>h DEF CloseEvents, At, EndOps, Signals, Tells
<1>9. CASE CloseDelete
  <2>1. gui.op \in EndOps /\ handle = "closed" /\ queue = <<>>
    BY <1>9 DEF CloseDelete
  <2>2. init.pc = "none" /\ send.pc = "none" /\ Writing = {}
    BY <1>9 DEF CloseDelete, LibraryDone
  <2>3. UNCHANGED <<handle, savers, init, send, queue>> /\ gui'.pc \in {"reopen", "loop"}
    BY <1>9 DEF CloseDelete, At, Loop
  <2> QED
    BY <2>1, <2>2, <2>3 DEF Signals
<1>10. CASE OnInitDone
  <2>1. wallet = "ready" /\ gui.op \notin EndOps /\ gui.pc = "loop"
    BY <1>10, <1>d DEF OnInitDone
  <2>2. UNCHANGED <<handle, mutex, wallet, library>> /\ (gui' = gui \/ gui' = At("firstSave", "open"))
    BY <1>10, <2>1 DEF OnInitDone, CallSave
  <2>3. Signals'
    BY <1>10, <1>d, <2>2 DEF OnInitDone, Signals, Tells
  <2>4. Once'
    BY <1>10, <1>d, <2>2 DEF OnInitDone
  <2> QED
    BY <2>1, <2>2, <2>3, <2>4 DEF At, EndOps
<1>11. CASE OnInitFailed
  <2>1. wallet = "blank" /\ gui.op \notin EndOps /\ gui.pc = "loop"
    BY <1>11, <1>d DEF OnInitFailed
  <2>2. init.pc = "none" /\ send.pc = "none" /\ Writing = {}
    BY <1>11 DEF OnInitFailed, LibraryDone
  <2>3. Signals'
    <3>1. \A i \in DOMAIN queue' : Tells(queue'[i]) /\ queue'[i].ev # "initDone"
      BY <1>11, <1>d DEF OnInitFailed
    <3> QED
      BY <3>1, <2>1 DEF Signals, Tells
  <2>4. Once'
    BY <1>11, <1>d DEF OnInitFailed
  <2> QED
    BY <1>11, <2>1, <2>2, <2>3, <2>4 DEF OnInitFailed
<1>12. CASE OnOpened
  <2>1. wallet = "ready" /\ gui.op \notin EndOps /\ gui.pc = "loop"
    BY <1>12, <1>d DEF OnOpened
  <2>2. UNCHANGED <<handle, mutex, wallet, library>> /\ (gui' = gui \/ gui' = At("autoBackup", "open"))
    BY <1>12, <2>1 DEF OnOpened, CallSave
  <2>3. Signals'
    BY <1>12, <1>d, <2>2 DEF OnOpened, Signals, Tells
  <2>4. Once'
    BY <1>12, <1>d, <2>2 DEF OnOpened
  <2> QED
    BY <2>1, <2>2, <2>3, <2>4 DEF At, EndOps
<1>13. CASE OnOpenFailed
  <2>1. Signals'
    BY <1>13, <1>d DEF OnOpenFailed, Signals, Tells
  <2> QED
    BY <1>13, <1>d, <2>1 DEF OnOpenFailed
<1>14. CASE OnSendDone
  <2>1. wallet = "ready" /\ gui.op \notin EndOps /\ gui.pc = "loop"
    BY <1>14, <1>d DEF OnSendDone
  <2>2. UNCHANGED <<handle, mutex, wallet, library>> /\ (gui' = gui \/ gui' = At("sendSave", "open"))
    BY <1>14, <2>1 DEF OnSendDone, CallSave
  <2>3. Signals'
    BY <1>14, <1>d, <2>2 DEF OnSendDone, Signals, Tells
  <2>4. Once'
    BY <1>14, <1>d, <2>2 DEF OnSendDone
  <2> QED
    BY <2>1, <2>2, <2>3, <2>4 DEF At, EndOps
<1>15. CASE OnSendFailed
  <2>1. Signals'
    BY <1>15, <1>d DEF OnSendFailed, Signals, Tells
  <2> QED
    BY <1>15, <1>d, <2>1 DEF OnSendFailed
<1>16. CASE Open
  BY <1>16, <1>o DEF Open
<1>17. CASE Create
  <2>1. init.pc = "none" /\ send.pc = "none" /\ Writing = {}
    BY <1>17 DEF Create, TInv, TypeOK, Load
  <2>2. Signals'
    BY <1>17 DEF Create, Signals, Tells, TInv, TypeOK, Signal
  <2>3. Once'
    BY <1>17, NullQuiet DEF Create
  <2> QED
    BY <1>17, <2>1, <2>2, <2>3 DEF Create, Starts, Loop, EndOps
<1>18. CASE Backup
  BY <1>18 DEF Backup, Starts, Usable, At, Loop, EndOps, Signals, Tells
<1>19. CASE ChangePassword
  BY <1>19 DEF ChangePassword, Starts, Usable, At, Loop, EndOps, Signals, Tells
<1>20. CASE SendTransaction
  BY <1>20 DEF SendTransaction, Starts, Usable, At, Loop, EndOps, Signals, Tells
<1>21. CASE Close
  BY <1>21 DEF Close, Starts, NothingPending, At, Loop, EndOps, Signals, Tells
<1>22. CASE InitCompleted
  BY <1>22, <1>h DEF InitCompleted, At, EndOps, Signals, Tells
<1>23. CASE InitEmit
  <2>1. wallet = IF init.ok THEN "ready" ELSE "blank"
    BY <1>23 DEF InitEmit
  <2>2. gui.op \notin EndOps /\ init'.pc = "none"
    BY <1>23 DEF InitEmit, NoInit
  <2>3. UNCHANGED <<handle, mutex, wallet, gui, savers, send>>
    BY <1>23 DEF InitEmit
  <2>4. Signals'
    BY <1>23, <2>1, <2>3 DEF InitEmit, Signals, Tells, TInv, TypeOK, Load
  <2>5. Once'
    BY <1>23, <2>2 DEF InitEmit, TInv, TypeOK
  <2> QED
    BY <2>2, <2>3, <2>4, <2>5
<1>24. CASE SendCompleted
  BY <1>24, <1>h DEF SendCompleted, At, EndOps, Signals, Tells
<1>25. CASE SendEmit
  <2>1. wallet = "ready" /\ gui.op \notin EndOps
    BY <1>25 DEF SendEmit
  <2>2. UNCHANGED <<handle, mutex, wallet, gui, savers, init>> /\ send'.pc = "none"
    BY <1>25 DEF SendEmit, Quiet
  <2>3. Signals'
    BY <1>25, <2>1, <2>2 DEF SendEmit, Signals, Tells, TInv, TypeOK
  <2>4. Once'
    BY <1>25, <2>2 DEF SendEmit, TInv, TypeOK
  <2> QED
    BY <2>1, <2>2, <2>3, <2>4
<1>26. CASE Crash
  <2>1. /\ queue' = <<>> /\ gui' = Loop /\ handle' = "closed"
        /\ init'.pc = "none" /\ send'.pc = "none" /\ Writing' = {}
    BY <1>26 DEF Crash, Volatile, NoInit, Quiet, IdleSaver
  <2> QED
    BY <2>1 DEF Loop, EndOps, Signals
<1>27. CASE Restart
  BY <1>27, <1>h DEF Restart, At, EndOps, Signals, Tells
<1>28. ASSUME NEW s \in Savers, SaveCompleted(s)
      PROVE  LInv'
  <2>1. Writing = {s} /\ mutex /\ handle # "closed" /\ gui.pc # "start"
    BY <1>28 DEF SaveCompleted
  <2>2. Writing' = {}
    <3>1. \A r \in Savers \ {s} : savers'[r] = savers[r]
      BY <1>28 DEF SaveCompleted
    <3>2. savers'[s].pc # "write"
      BY <1>28 DEF SaveCompleted, IdleSaver, TInv, TypeOK
    <3> QED
      BY <2>1, <3>1, <3>2
  <2>3. /\ handle' = "closed" /\ mutex' = FALSE
        /\ UNCHANGED <<wallet, gui, init, send, queue>>
    BY <1>28 DEF SaveCompleted
  <2>4. send.pc # "run"
    BY <2>1
  <2> QED
    BY <2>1, <2>2, <2>3, <2>4 DEF Signals, Tells
<1>29. ASSUME NEW s \in Savers, RemoveWallet(s)
      PROVE  LInv'
  BY <1>29, <1>h DEF RemoveWallet, At, EndOps, Signals, Tells
<1>30. ASSUME NEW s \in Savers, RenameTemp(s)
      PROVE  LInv'
  <2>1. Writing' = Writing
    BY <1>30 DEF RenameTemp, IdleSaver, TInv, TypeOK
  <2>2. UNCHANGED <<mutex, wallet, gui, init, send, queue>> /\ (handle' = "closed" <=> handle = "closed")
    BY <1>30 DEF RenameTemp
  <2> QED
    BY <2>1, <2>2 DEF Signals, Tells
<1>31. CASE UNCHANGED vars
  BY <1>31 DEF vars, Signals, Tells
<1> QED
  BY <1>1, <1>2, <1>3, <1>4, <1>5, <1>6, <1>7, <1>8, <1>9, <1>10, <1>11, <1>12, <1>13,
     <1>14, <1>15, <1>16, <1>17, <1>18, <1>19, <1>20, <1>21, <1>22, <1>23, <1>24, <1>25,
     <1>26, <1>27, <1>28, <1>29, <1>30, <1>31
     DEF Next, GuiStep, UserStep, LibraryStep, SaverStep

-----------------------------------------------------------------------------
(* Every variable keeps its type, whatever the discipline and the bounds.  *)
THEOREM TypeCorrect == Spec => []TypeOK
<1>1. TInv => TypeOK
  BY DEF TInv
<1> QED
  BY <1>1, InitType, NextType, PTL DEF Spec

(* When the wallet is closed only while nothing is pending, the file       *)
(* protocol's invariant holds whatever the timing.                         *)
THEOREM LockInvariance ==
  ASSUME "idle_close" \in Discipline
  PROVE  Spec => [](TInv /\ LInv)
<1>1. Init => TInv /\ LInv
  BY InitType, InitLock
<1>2. TInv /\ LInv /\ [Next]_vars => (TInv /\ LInv)'
  BY NextType, NextLock
<1> QED
  BY <1>1, <1>2, PTL DEF Spec

(* m_file is open only while m_mutex is locked (openFile, closeFile and    *)
(* the callbacks that unlock what the GUI thread has locked).              *)
THEOREM LockKept ==
  ASSUME "idle_close" \in Discipline
  PROVE  Spec => []LockCoversFile
<1>1. LInv => LockCoversFile
  BY DEF LInv
<1> QED
  BY <1>1, LockInvariance, PTL

(* The library saves into m_file with nobody else: a save in progress has  *)
(* the lock and the open stream, and is the only one.                      *)
THEOREM OneSave ==
  ASSUME "idle_close" \in Discipline
  PROVE  Spec => []SaveOwnsFile
<1>1. LInv => SaveOwnsFile
  BY DEF LInv, Saving
<1> QED
  BY <1>1, LockInvariance, PTL

-----------------------------------------------------------------------------
(* What is in the files: backups and passwords, the backup flag, the       *)
(* ".temp" file of a save, and the newest version of the wallet.           *)

(* Where the backup of the old password is between the statements of       *)
(* changePassword(), and what is no older than the password.               *)
Password ==
  /\ gui.op = "password" => gui.pc = "remove" /\ up
  /\ passwordAt <= last
  /\ wallet = "ready" => passwordAt <= mem
  /\ handle = "backup" /\ gui.op # "password" => \A s \in Writing : passwordAt <= savers[s].data
  /\ crashes = 0 /\ gui.op # "password" /\ Complete("backup") => passwordAt <= disk["backup"]

(* A signal is handled by an idle GUI thread, and tells of the wallet.     *)
LEMMA Delivery ==
  ASSUME TInv, LInv, NEW ev, NEW ok, Delivers(ev, ok)
  PROVE  /\ ok = TRUE => wallet = "ready"
         /\ ev = "initDone" /\ ok = FALSE => wallet = "blank"
         /\ gui.op \notin EndOps /\ gui.pc = "loop"
<1>1. queue # <<>> /\ Head(queue) = [ev |-> ev, ok |-> ok] /\ gui.pc \in {"loop", "events"}
  BY DEF Delivers
<1>2. 1 \in DOMAIN queue /\ queue[1].ok = ok /\ queue[1].ev = ev
  BY <1>1 DEF TInv, TypeOK
<1>3. Tells(queue[1])
  BY <1>2 DEF LInv, Signals
<1> QED
  BY <1>1, <1>2, <1>3 DEF LInv, Handling, Tells

(* The slots that may save find the wallet, and change nothing but the     *)
(* handler.                                                                *)
LEMMA SlotStep ==
  ASSUME TInv, LInv, OnInitDone \/ OnOpened \/ OnSendDone
  PROVE  /\ wallet = "ready" /\ gui.op \notin EndOps /\ gui.pc = "loop"
         /\ UNCHANGED <<file, backing, wallet, data, library, bounds>>
         /\ gui' = gui \/ \E op \in {"firstSave", "autoBackup", "sendSave"} : gui' = At(op, "open")
<1>1. wallet = "ready" /\ gui.op \notin EndOps /\ gui.pc = "loop"
  BY Delivery DEF OnInitDone, OnOpened, OnSendDone
<1> QED
  BY <1>1 DEF OnInitDone, OnOpened, OnSendDone, CallSave, file, data, library, bounds

LEMMA DataOrder ==
  ASSUME TInv
  PROVE  /\ mem \in Int /\ last \in Int /\ passwordAt \in Nat
         /\ \A p \in Paths : disk[p] \in Int
         /\ \A s \in Savers : savers[s].data \in Int
  BY WalletAssumption
     DEF WalletAssumption, TInv, TypeOK, Saver, Data, Contents, Versions, Absent, Partial

LEMMA NextPassword ==
  ASSUME TInv, LInv, Password, [Next]_vars
  PROVE  Password'
<1> USE DataOrder
    DEF Password, Complete, Exists, Absent, file, data, library, bounds, Writing, BackupOps, EndOps
<1>h. gui.op \in Handlers /\ gui.pc \in Steps
  BY DEF TInv, TypeOK, Handler
<1>1. CASE Reopen
  BY <1>1, <1>h DEF Reopen, OpenWallet, Loop
<1>2. CASE OpenFile
  <2>1. /\ UNCHANGED <<backing, wallet, mem, last, passwordAt, savers, crashes>>
        /\ gui.pc = "open" /\ ~mutex /\ gui.op # "password"
    BY <1>2 DEF OpenFile
  <2>2. Writing = {} /\ Writing' = {}
    BY <2>1 DEF LInv, Saving, SaveOwnsFile
  <2>3. CASE UNCHANGED file /\ gui' = AfterSave(gui.op)
    BY <2>1, <2>2, <2>3, <1>h DEF AfterSave, At, Loop
  <2>4. CASE /\ handle' = Target(gui.op) /\ disk' = [disk EXCEPT ![Target(gui.op)] = Partial]
             /\ gui' = At(gui.op, "start")
    <3>1. disk'["backup"] \in {disk["backup"], Partial}
      BY <2>4, PathFacts DEF TInv, TypeOK, Paths
    <3>2. gui'.op = gui.op
      BY <2>4 DEF At
    <3> QED
      BY <2>1, <2>2, <3>1, <3>2 DEF Versions, Partial
  <2> QED
    BY <1>2, <2>3, <2>4 DEF OpenFile
<1>3. CASE StartSave
  <2>1. /\ UNCHANGED <<disk, backing, wallet, data, crashes>>
        /\ gui.pc = "start" /\ gui.op # "password"
    BY <1>3 DEF StartSave
  <2>2. CASE handle' = "closed" /\ gui' = AfterSave(gui.op) /\ UNCHANGED savers
    BY <2>1, <2>2, <1>h DEF AfterSave, At, Loop
  <2>3. ASSUME NEW s \in Savers, wallet = "ready", UNCHANGED <<handle, mutex>>,
               savers' = [savers EXCEPT ![s] = [pc |-> "write", data |-> mem]],
               gui' = At(gui.op, "return")
        PROVE  Password'
    <3>1. \A r \in Savers : savers'[r] = IF r = s THEN [pc |-> "write", data |-> mem] ELSE savers[r]
      BY <2>3 DEF TInv, TypeOK
    <3>2. gui'.op # "password"
      BY <2>1, <2>3 DEF At
    <3> QED
      BY <2>1, <2>3, <3>1, <3>2
  <2> QED
    BY <1>3, <2>2, <2>3 DEF StartSave
<1>4. CASE SaveReturned
  BY <1>4, <1>h, AfterSaveStep DEF SaveReturned, At, AfterSave, Loop
<1>5. CASE RemoveBackup
  <2>1. /\ UNCHANGED <<wallet, data, savers>> /\ gui'.op = "passwordBackup"
        /\ disk' = [disk EXCEPT !["backup"] = Absent] /\ handle' # "backup"
    BY <1>5 DEF RemoveBackup, At
  <2>2. disk'["backup"] = Absent
    BY <2>1, PathFacts DEF TInv, TypeOK
  <2> QED
    BY <2>1, <2>2 DEF Versions
<1>6. CASE SendLocked
  BY <1>6, <1>h DEF SendLocked, Loop
<1>7. CASE CloseLock
  BY <1>7, <1>h DEF CloseLock, At, IdleSaver, NoInit, Quiet
<1>8. CASE CloseEvents
  BY <1>8, <1>h DEF CloseEvents, At
<1>9. CASE CloseDelete
  BY <1>9, <1>h DEF CloseDelete, At, Loop, LibraryDone
<1>10. CASE OnInitDone \/ OnOpened \/ OnSendDone
  BY <1>10, <1>h, SlotStep DEF At
<1>11. CASE OnInitFailed
  BY <1>11, <1>h, Delivery DEF OnInitFailed, LibraryDone
<1>12. CASE OnOpenFailed
  BY <1>12, <1>h, Delivery DEF OnOpenFailed
<1>13. CASE OnSendFailed
  BY <1>13, <1>h, Delivery DEF OnSendFailed
<1>14. CASE Open
  BY <1>14, <1>h DEF Open, OpenWallet, Starts, Loop
<1>15. CASE Create
  BY <1>15, <1>h DEF Create, Starts, Loop
<1>16. CASE Backup
  BY <1>16, <1>h DEF Backup, Starts, Usable, Loop, At
<1>17. CASE ChangePassword
  BY <1>17, <1>h DEF ChangePassword, Starts, Usable, Loop, At
<1>18. CASE SendTransaction
  BY <1>18, <1>h DEF SendTransaction, Starts, Usable, Loop, At
<1>19. CASE Close
  BY <1>19, <1>h DEF Close, Starts, Usable, Loop, At
<1>20. CASE InitCompleted
  <2>1. /\ UNCHANGED <<disk, gui, savers, bounds>> /\ handle' = "closed" /\ last' = last
        /\ wallet' = "ready" => passwordAt' <= mem'
        /\ passwordAt' \in {Absent, passwordAt}
    <3>1. CASE wallet' = "blank" /\ UNCHANGED data
      BY <1>20, <3>1 DEF InitCompleted
    <3>2. CASE /\ init.ok /\ mem' = init.data
               /\ passwordAt' = IF mem' < passwordAt THEN Absent ELSE passwordAt
      <4>1. mem' \in Nat
        BY <3>2, WalletAssumption DEF WalletAssumption, TInv, LoadData, Data, Versions
      <4> QED
        BY <1>20, <3>2, <4>1 DEF InitCompleted
    <3> QED
      BY <1>20, <3>1, <3>2 DEF InitCompleted
  <2> QED
    BY <2>1, PathFacts
<1>21. CASE InitEmit
  BY <1>21, <1>h DEF InitEmit, NoInit
<1>22. CASE SendCompleted
  BY <1>22, <1>h DEF SendCompleted
<1>23. CASE SendEmit
  BY <1>23, <1>h DEF SendEmit, Quiet
<1>24. CASE Crash
  <2>1. /\ crashes' = crashes + 1 /\ crashes \in Nat /\ wallet' = "null" /\ gui' = Loop
        /\ UNCHANGED <<disk, last, passwordAt>> /\ handle' = "closed"
    BY <1>24 DEF Crash, Volatile, TInv, TypeOK
  <2> QED
    BY <2>1 DEF Loop
<1>25. CASE Restart
  <2>1. gui'.op = "restart" /\ UNCHANGED <<disk, handle, savers, wallet, data, crashes>>
    BY <1>25 DEF Restart, At
  <2>2. gui.op # "password"
    BY <1>25 DEF Restart
  <2> QED
    BY <2>1, <2>2
<1>26. ASSUME NEW s \in Savers, SaveCompleted(s)
      PROVE  Password'
  <2>1. PICK ok \in BOOLEAN, v \in {savers[s].data, mem} :
          /\ disk' = IF ok /\ handle \in Paths THEN [disk EXCEPT ![handle] = v] ELSE disk
          /\ savers' = [savers EXCEPT ![s] =
               IF ok /\ ~backing THEN [pc |-> "remove", data |-> v] ELSE IdleSaver]
    BY <1>26 DEF SaveCompleted
  <2>2. /\ UNCHANGED <<wallet, data, gui, bounds>> /\ handle' = "closed" /\ s \in Writing
    BY <1>26 DEF SaveCompleted
  <2>3. handle = "backup" /\ gui.op # "password" => passwordAt <= v
    BY <2>1, <2>2 DEF LInv, Saving
  <2>4. disk'["backup"] = disk["backup"] \/ (handle = "backup" /\ disk'["backup"] = v)
    BY <2>1, PathFacts DEF TInv, TypeOK
  <2> QED
    BY <2>2, <2>3, <2>4
<1>27. ASSUME NEW s \in Savers, RemoveWallet(s)
      PROVE  Password'
  BY <1>27, <1>h DEF RemoveWallet, IdleSaver
<1>28. ASSUME NEW s \in Savers, RenameTemp(s)
      PROVE  Password'
  <2>1. /\ UNCHANGED <<wallet, data, gui, bounds>> /\ (handle' = "backup" <=> handle = "backup")
        /\ savers' = [savers EXCEPT ![s] = IdleSaver]
    BY <1>28 DEF RenameTemp
  <2>2. disk'["backup"] = disk["backup"]
    BY <1>28, PathFacts DEF RenameTemp, TInv, TypeOK
  <2>3. \A r \in Writing' : r \in Writing /\ savers'[r] = savers[r]
    BY <2>1 DEF IdleSaver, TInv, TypeOK
  <2> QED
    BY <2>1, <2>2, <2>3
<1>29. CASE UNCHANGED vars
  BY <1>29 DEF vars
<1> QED
  BY <1>1, <1>2, <1>3, <1>4, <1>5, <1>6, <1>7, <1>8, <1>9, <1>10, <1>11, <1>12, <1>13, <1>14,
     <1>15, <1>16, <1>17, <1>18, <1>19, <1>20, <1>21, <1>22, <1>23, <1>24, <1>25,
     <1>26, <1>27, <1>28, <1>29
     DEF Next, GuiStep, UserStep, LibraryStep, SaverStep

-----------------------------------------------------------------------------
(* A backup that has been started has its stream until it is written.      *)
Flagged ==
  /\ gui.pc = "start" /\ gui.op \in BackupOps => handle \in {"backup", "copy"}
  /\ gui.pc = "return" /\ gui.op \in BackupOps => Writing # {} /\ handle \in {"backup", "copy"}
  /\ FlagMeansBackup

LEMMA NextFlagged ==
  ASSUME "flag_first" \in Discipline, TInv, LInv, Flagged, [Next]_vars
  PROVE  Flagged'
<1> USE DEF Flagged, FlagMeansBackup, file, data, library, bounds, Writing, BackupOps, EndOps
<1>h. gui.op \in Handlers /\ gui.pc \in Steps
  BY DEF TInv, TypeOK, Handler
<1>w. /\ ~mutex => handle = "closed" /\ ~backing
      /\ wallet # "ready" => ~backing
      /\ gui.pc = "start" => ~backing
  BY DEF LInv, LockCoversFile, Saving, SaveOwnsFile, Handling
<1>a. AfterSave(gui.op).pc \notin {"start", "return"}
  BY <1>h, AfterSaveStep
<1>1. CASE Reopen
  BY <1>1, <1>w DEF Reopen, OpenWallet, Loop
<1>2. CASE OpenFile
  BY <1>2, <1>w, <1>a DEF OpenFile, At, Target
<1>3. CASE StartSave
  <2>1. UNCHANGED <<disk, backing, wallet, data>> /\ gui.pc = "start" /\ ~backing
    BY <1>3, <1>w DEF StartSave
  <2>2. CASE gui' = AfterSave(gui.op)
    BY <2>1, <2>2, <1>a
  <2>3. ASSUME NEW s \in Savers, UNCHANGED <<handle, mutex>>,
               savers' = [savers EXCEPT ![s] = [pc |-> "write", data |-> mem]],
               gui' = At(gui.op, "return")
        PROVE  Flagged'
    <3>1. savers'[s].pc = "write"
      BY <2>3 DEF TInv, TypeOK
    <3>2. gui'.op = gui.op /\ gui'.pc = "return"
      BY <2>3 DEF At
    <3> QED
      BY <2>1, <2>3, <3>1, <3>2
  <2> QED
    BY <1>3, <2>2, <2>3 DEF StartSave
<1>4. CASE SaveReturned
  BY <1>4, <1>a DEF SaveReturned
<1>5. CASE RemoveBackup
  BY <1>5, <1>h DEF RemoveBackup, At
<1>6. CASE SendLocked
  BY <1>6, <1>w DEF SendLocked, Loop
<1>7. CASE CloseLock
  BY <1>7, <1>w DEF CloseLock, At
<1>8. CASE CloseEvents
  BY <1>8, <1>h DEF CloseEvents, At
<1>9. CASE CloseDelete
  BY <1>9, <1>w DEF CloseDelete, LibraryDone, At, Loop
<1>10. CASE OnInitDone \/ OnOpened \/ OnSendDone
  BY <1>10, <1>h, SlotStep DEF At
<1>11. CASE OnInitFailed
  BY <1>11, <1>h, Delivery DEF OnInitFailed, LibraryDone
<1>12. CASE OnOpenFailed
  BY <1>12, <1>h, Delivery DEF OnOpenFailed
<1>13. CASE OnSendFailed
  BY <1>13, <1>h, Delivery DEF OnSendFailed
<1>14. CASE Open
  BY <1>14, <1>w DEF Open, OpenWallet, Loop
<1>15. CASE Create
  BY <1>15, <1>w DEF Create, Starts, Loop
<1>16. CASE Backup
  BY <1>16, <1>h DEF Backup, Starts, Usable, Loop, At
<1>17. CASE ChangePassword
  BY <1>17, <1>h DEF ChangePassword, Starts, Usable, Loop, At
<1>18. CASE SendTransaction
  BY <1>18, <1>h DEF SendTransaction, Starts, Usable, Loop, At
<1>19. CASE Close
  BY <1>19, <1>h DEF Close, Starts, Usable, Loop, At
<1>20. CASE InitCompleted
  <2>1. ~backing /\ (gui.pc \in {"start", "return"} => gui.op \notin BackupOps)
    BY <1>20, <1>w DEF InitCompleted, LInv, Loading, Handling
  <2> QED
    BY <1>20, <2>1 DEF InitCompleted
<1>21. CASE InitEmit
  BY <1>21, <1>h DEF InitEmit, NoInit
<1>22. CASE SendCompleted
  BY <1>22, <1>h DEF SendCompleted
<1>23. CASE SendEmit
  BY <1>23, <1>h DEF SendEmit, Quiet
<1>24. CASE Crash
  BY <1>24, <1>h DEF Crash, Volatile, IdleSaver, Loop, NoInit, Quiet
<1>25. CASE Restart
  BY <1>25, <1>h DEF Restart, At
<1>26. ASSUME NEW s \in Savers, SaveCompleted(s)
      PROVE  Flagged'
  <2>1. /\ UNCHANGED gui /\ backing' = FALSE /\ gui.pc # "start"
        /\ ~(gui.pc = "return" /\ gui.op \in BackupOps)
    BY <1>26 DEF SaveCompleted, LInv, Handling
  <2> QED
    BY <2>1
<1>27. ASSUME NEW s \in Savers, RemoveWallet(s)
      PROVE  Flagged'
  <2>1. /\ UNCHANGED <<gui, backing>>
        /\ handle \in {"backup", "copy", "unlinked"} => handle' = handle
        /\ savers' = [savers EXCEPT ![s].pc = "rename"] /\ savers[s].pc # "write"
    BY <1>27 DEF RemoveWallet
  <2>2. Writing' = Writing
    BY <2>1 DEF TInv, TypeOK
  <2> QED
    BY <2>1, <2>2
<1>28. ASSUME NEW s \in Savers, RenameTemp(s)
      PROVE  Flagged'
  <2>1. /\ UNCHANGED <<gui, backing>>
        /\ handle \in {"backup", "copy", "unlinked"} => handle' = handle
        /\ savers' = [savers EXCEPT ![s] = IdleSaver] /\ savers[s].pc # "write"
    BY <1>28 DEF RenameTemp
  <2>2. Writing' = Writing
    BY <2>1 DEF IdleSaver, TInv, TypeOK
  <2> QED
    BY <2>1, <2>2
<1>29. CASE UNCHANGED vars
  BY <1>29 DEF vars
<1> QED
  BY <1>1, <1>2, <1>3, <1>4, <1>5, <1>6, <1>7, <1>8, <1>9, <1>10, <1>11, <1>12, <1>13, <1>14,
     <1>15, <1>16, <1>17, <1>18, <1>19, <1>20, <1>21, <1>22, <1>23, <1>24, <1>25,
     <1>26, <1>27, <1>28, <1>29
     DEF Next, GuiStep, UserStep, LibraryStep, SaverStep

-----------------------------------------------------------------------------
Renaming == {s \in Savers : savers[s].pc \in {"remove", "rename"}}

(* The stream of a save in progress is the file its handler means, and a   *)
(* callback that renames has a complete ".temp" file to itself.            *)
Streamed ==
  /\ wallet # "ready" => \A s \in Savers : savers[s].pc = "idle"
  /\ wallet = "ready" => mem \in Versions
  /\ init.pc = "run" /\ init.ok => init.data \in Versions
  /\ ~up => wallet = "null"
  /\ handle = "wallet" => init.pc = "run"
  /\ handle = "temp" => Renaming = {}
  /\ gui.pc = "start" => handle = Target(gui.op)
  /\ Writing # {} => \/ handle = "temp"
                     \/ backing \/ (gui.pc = "return" /\ gui.op \in BackupOps)
  /\ \A s \in Writing : savers[s].data \in Versions
  /\ \A r, s \in Renaming : r = s
  /\ Renaming # {} => Complete("temp")

LEMMA NextStreamed ==
  ASSUME {"flag_first", "rename_first"} \subseteq Discipline,
         TInv, LInv, Flagged, Streamed, [Next]_vars
  PROVE  Streamed'
<1> USE DEF Streamed, Complete, file, data, library, bounds, Writing, Renaming, EndOps
<1>h. gui.op \in Handlers /\ gui.pc \in Steps
  BY DEF TInv, TypeOK, Handler
<1>w. /\ ~mutex => handle = "closed" /\ ~backing /\ Writing = {}
      /\ wallet # "ready" => ~backing
      /\ gui.pc = "start" => ~backing
  BY DEF LInv, LockCoversFile, Saving, SaveOwnsFile, Handling, Flagged, FlagMeansBackup
<1>a. AfterSave(gui.op).pc \notin {"start", "return"}
  BY <1>h, AfterSaveStep
<1>p. \A p \in Paths : \A v : /\ [disk EXCEPT ![p] = v][p] = v
                             /\ \A q \in Paths \ {p} : [disk EXCEPT ![p] = v][q] = disk[q]
  BY DEF TInv, TypeOK
<1>v. "temp" \in Paths /\ "wallet" \in Paths /\ Absent \notin Versions /\ Partial \notin Versions
  BY PathFacts, WalletAssumption DEF WalletAssumption, Versions, Absent, Partial
<1>e. ASSUME NEW s \in Savers, NEW r, savers' = [savers EXCEPT ![s] = r]
      PROVE  savers'[s] = r /\ \A t \in Savers \ {s} : savers'[t] = savers[t]
  BY <1>e DEF TInv, TypeOK
<1>o. ASSUME OpenWallet, up PROVE Streamed'
  <2>1. /\ wallet = "null" /\ gui' = Loop /\ UNCHANGED <<disk, backing, savers, data, up>>
        /\ Writing = {} /\ Renaming = {}
    BY <1>o DEF OpenWallet
  <2>2. wallet' # "ready" /\ handle' \in {handle, "wallet"}
    BY <1>o DEF OpenWallet
  <2>3. CASE UNCHANGED <<handle, init>>
    BY <1>o, <2>1, <2>2, <2>3 DEF Loop
  <2>4. CASE init' = [pc |-> "run", ok |-> Complete("wallet"), data |-> disk["wallet"]]
    BY <1>o, <2>1, <2>2, <2>4 DEF Loop
  <2> QED
    BY <1>o, <2>3, <2>4 DEF OpenWallet
<1>1. CASE Reopen
  BY <1>1, <1>o DEF Reopen
<1>2. CASE OpenFile
  <2>1. /\ UNCHANGED <<backing, wallet, data, savers, init, bounds>> /\ gui.pc = "open"
        /\ Writing = {}
        /\ handle = "closed"
    BY <1>2, <1>w DEF OpenFile
  <2>2. CASE UNCHANGED file /\ gui' = AfterSave(gui.op)
    BY <2>1, <2>2, <1>a
  <2>3. ASSUME handle' = Target(gui.op), disk' = [disk EXCEPT ![Target(gui.op)] = Partial],
               gui' = At(gui.op, "start"), Target(gui.op) = "temp" => Renamed
        PROVE  Streamed'
    <3>1. gui'.op = gui.op /\ gui'.pc = "start"
      BY <2>3 DEF At
    <3>2. Target(gui.op) # "wallet" /\ Target(gui.op) \in Paths
      BY PathFacts DEF Target
    <3>3. Renaming # {} => disk'["temp"] = disk["temp"] /\ handle' # "temp"
      BY <2>3, <3>2, <1>p, <1>v DEF Renamed
    <3> QED
      BY <2>1, <2>3, <3>1, <3>2, <3>3
  <2> QED
    BY <1>2, <2>2, <2>3 DEF OpenFile
<1>3. CASE StartSave
  <2>1. /\ UNCHANGED <<disk, backing, wallet, data, init, bounds>> /\ gui.pc = "start" /\ ~backing
        /\ Writing = {}
    BY <1>3, <1>w DEF StartSave, LInv, Handling
  <2>2. CASE gui' = AfterSave(gui.op) /\ handle' = "closed" /\ UNCHANGED savers
    BY <2>1, <2>2, <1>a
  <2>3. ASSUME NEW s \in Savers, wallet = "ready", savers[s].pc = "idle",
               UNCHANGED <<handle, mutex>>,
               savers' = [savers EXCEPT ![s] = [pc |-> "write", data |-> mem]],
               gui' = At(gui.op, "return")
        PROVE  Streamed'
    <3>1. /\ savers'[s] = [pc |-> "write", data |-> mem]
          /\ \A t \in Savers \ {s} : savers'[t] = savers[t]
      BY <2>3, <1>e
    <3>2. gui'.op = gui.op /\ gui'.pc = "return"
      BY <2>3 DEF At
    <3>3. Renaming' = Renaming
      BY <2>3, <3>1
    <3>4. \A t \in Writing' : savers'[t].data \in Versions
      BY <2>1, <2>3, <3>1
    <3>5. handle = "temp" \/ gui.op \in BackupOps
      BY <2>1 DEF Target, BackupOps
    <3> QED
      BY <2>1, <2>3, <3>2, <3>3, <3>4, <3>5
  <2> QED
    BY <1>3, <2>2, <2>3 DEF StartSave
<1>4. CASE SaveReturned
  BY <1>4, <1>a DEF SaveReturned
<1>5. CASE RemoveBackup
  <2>1. disk'["temp"] = disk["temp"] /\ handle' \in {handle, "unlinked"}
    BY <1>5, <1>p, <1>v, PathFacts DEF RemoveBackup
  <2> QED
    BY <1>5, <2>1 DEF RemoveBackup, At
<1>6. CASE SendLocked
  BY <1>6, <1>h DEF SendLocked, Loop
<1>7. CASE CloseLock
  <2>1. Writing = {} /\ init' = init /\ gui'.pc = "events"
    BY <1>7, <1>w DEF CloseLock, LInv, Handling, At
  <2>2. \A s \in Savers : savers'[s] = savers[s]
    BY <1>7, <2>1 DEF CloseLock
  <2> QED
    BY <1>7, <2>1, <2>2 DEF CloseLock
<1>8. CASE CloseEvents
  BY <1>8, <1>h DEF CloseEvents, At
<1>9. CASE CloseDelete
  BY <1>9, <1>h DEF CloseDelete, At, Loop, LibraryDone
<1>10. CASE OnInitDone \/ OnOpened \/ OnSendDone
  BY <1>10, <1>h, SlotStep DEF At
<1>11. CASE OnInitFailed
  BY <1>11, <1>h, Delivery DEF OnInitFailed, LibraryDone
<1>12. CASE OnOpenFailed
  BY <1>12, <1>h, Delivery DEF OnOpenFailed
<1>13. CASE OnSendFailed
  BY <1>13, <1>h, Delivery DEF OnSendFailed
<1>14. CASE Open
  BY <1>14, <1>o DEF Open, Starts
<1>15. CASE Create
  <2>1. last + 1 \in Versions
    BY <1>15, DataOrder, WalletAssumption
        DEF Create, WalletAssumption, TInv, TypeOK, Data, Versions, Absent
  <2> QED
    BY <1>15, <2>1, <1>w DEF Create, Starts, Loop, LInv, LockCoversFile
<1>16. CASE Backup
  BY <1>16, <1>h DEF Backup, Starts, Usable, Loop, At
<1>17. CASE ChangePassword
  <2>1. last + 1 \in Versions
    BY <1>17, DataOrder, WalletAssumption
        DEF ChangePassword, WalletAssumption, TInv, TypeOK, Data, Versions, Absent
  <2> QED
    BY <1>17, <2>1 DEF ChangePassword, Starts, Loop, At, Usable
<1>18. CASE SendTransaction
  BY <1>18, <1>h DEF SendTransaction, Starts, Usable, Loop, At
<1>19. CASE Close
  BY <1>19, <1>h DEF Close, Starts, Usable, Loop, At
<1>20. CASE InitCompleted
  <2>1. /\ wallet = "loading" /\ init'.pc = "emit" /\ UNCHANGED <<disk, savers, gui, backing>>
        /\ wallet' \in {"blank", "ready"} /\ handle' = "closed"
    BY <1>20 DEF InitCompleted, LInv, Loading, TInv, TypeOK, Load
  <2>2. wallet' = "ready" => mem' \in Versions
    BY <1>20 DEF InitCompleted
  <2>3. Writing' = {} /\ Renaming' = {} /\ up' /\ gui.pc # "start" /\ UNCHANGED bounds
    BY <1>20, <2>1 DEF InitCompleted, LInv, Handling
  <2> QED
    BY <2>1, <2>2, <2>3
<1>21. CASE InitEmit
  BY <1>21, <1>h DEF InitEmit, NoInit
<1>22. CASE SendCompleted
  <2>1. last < MaxVersion => last + 1 \in Versions
    BY DataOrder, WalletAssumption DEF WalletAssumption, TInv, TypeOK, Data, Versions, Absent
  <2> QED
    BY <1>22, <2>1 DEF SendCompleted
<1>23. CASE SendEmit
  BY <1>23, <1>h DEF SendEmit, Quiet
<1>24. CASE Crash
  BY <1>24, <1>h DEF Crash, Volatile, IdleSaver, Loop, NoInit, Quiet
<1>25. CASE Restart
  BY <1>25, <1>h DEF Restart, At
<1>26. ASSUME NEW s \in Savers, SaveCompleted(s)
      PROVE  Streamed'
  <2>1. PICK ok \in BOOLEAN, v \in {savers[s].data, mem} :
          /\ disk' = IF ok /\ handle \in Paths THEN [disk EXCEPT ![handle] = v] ELSE disk
          /\ savers' = [savers EXCEPT ![s] =
               IF ok /\ ~backing THEN [pc |-> "remove", data |-> v] ELSE IdleSaver]
    BY <1>26 DEF SaveCompleted
  <2>2. /\ UNCHANGED <<wallet, data, gui, init, bounds>> /\ handle' = "closed" /\ backing' = FALSE
        /\ wallet = "ready" /\ Writing = {s} /\ gui.pc # "start"
        /\ ~(gui.pc = "return" /\ gui.op \in BackupOps)
    BY <1>26 DEF SaveCompleted, LInv, Saving, SaveOwnsFile, Handling
  <2>3. /\ savers'[s] = IF ok /\ ~backing THEN [pc |-> "remove", data |-> v] ELSE IdleSaver
        /\ \A t \in Savers \ {s} : savers'[t] = savers[t]
    BY <2>1 DEF TInv, TypeOK
  <2>4. Writing' = {}
    BY <2>2, <2>3 DEF IdleSaver
  <2>5. v \in Versions
    BY <2>1, <2>2
  <2>6. CASE ok /\ ~backing
    <3>1. handle = "temp" /\ Renaming = {}
      BY <2>2, <2>6
    <3>2. disk'["temp"] = v
      <4>1. disk' = [disk EXCEPT !["temp"] = v]
        BY <2>1, <2>6, <3>1, <1>v
      <4> QED
        BY <4>1, <1>p, <1>v
    <3>3. Renaming' = {s}
      BY <2>3, <2>6, <3>1
    <3> QED
      BY <2>2, <2>4, <2>5, <3>2, <3>3
  <2>7. CASE ~(ok /\ ~backing)
    <3>1. Renaming' = Renaming
      BY <2>2, <2>3, <2>7 DEF IdleSaver
    <3>2. Complete("temp") => Complete("temp")'
      BY <2>1, <2>5, <1>p, <1>v
    <3> QED
      BY <2>2, <2>4, <3>1, <3>2
  <2> QED
    BY <2>6, <2>7
<1>27. ASSUME NEW s \in Savers, RemoveWallet(s)
      PROVE  Streamed'
  <2>1. /\ UNCHANGED <<wallet, data, gui, init, backing, bounds>>
        /\ handle' \in {handle, "unlinked"} /\ (handle # "wallet" => handle' = handle)
        /\ savers' = [savers EXCEPT ![s].pc = "rename"] /\ savers[s].pc = "remove"
        /\ disk' = [disk EXCEPT !["wallet"] = Absent]
    BY <1>27 DEF RemoveWallet
  <2>2. /\ savers'[s].pc = "rename" /\ savers'[s].data = savers[s].data
        /\ \A t \in Savers \ {s} : savers'[t] = savers[t]
    BY <2>1 DEF TInv, TypeOK, Saver
  <2>3. Writing' = Writing /\ Renaming' = Renaming /\ disk'["temp"] = disk["temp"]
    BY <2>1, <2>2, <1>p, <1>v
  <2> QED
    BY <2>1, <2>2, <2>3, PathFacts DEF Target
<1>28. ASSUME NEW s \in Savers, RenameTemp(s)
      PROVE  Streamed'
  <2>1. /\ UNCHANGED <<wallet, data, gui, init, backing, bounds>> /\ s \in Renaming
        /\ savers' = [savers EXCEPT ![s] = IdleSaver]
    BY <1>28 DEF RenameTemp
  <2>2. savers'[s] = IdleSaver /\ \A t \in Savers \ {s} : savers'[t] = savers[t]
    BY <2>1, <1>e
  <2>3. Writing' = Writing /\ Renaming' = {}
    BY <2>1, <2>2 DEF IdleSaver
  <2>4. handle' = handle
    BY <1>28, <2>1 DEF RenameTemp
  <2> QED
    BY <2>1, <2>2, <2>3, <2>4 DEF IdleSaver
<1>29. CASE UNCHANGED vars
  BY <1>29 DEF vars
<1> QED
  BY <1>1, <1>2, <1>3, <1>4, <1>5, <1>6, <1>7, <1>8, <1>9, <1>10, <1>11, <1>12, <1>13, <1>14,
     <1>15, <1>16, <1>17, <1>18, <1>19, <1>20, <1>21, <1>22, <1>23, <1>24, <1>25,
     <1>26, <1>27, <1>28, <1>29
     DEF Next, GuiStep, UserStep, LibraryStep, SaverStep

-----------------------------------------------------------------------------
(* What is in memory, being written or in ".temp" is no older than the     *)
(* wallet file, and ".temp" is the only copy only while it is being        *)
(* renamed, or when there is no wallet to save over it.                    *)
Kept ==
  /\ mem <= last /\ disk["wallet"] <= last /\ disk["temp"] <= last
  /\ disk["wallet"] # Partial
  /\ wallet = "ready" => disk["wallet"] <= mem
  /\ init.pc = "run" /\ init.ok => disk["wallet"] <= init.data /\ init.data <= last
  /\ \A s \in Writing : savers[s].data <= mem
  /\ \A s \in Writing : handle = "temp" => disk["wallet"] <= savers[s].data
  /\ Renaming # {} => disk["wallet"] <= disk["temp"] /\ disk["temp"] <= mem
  /\ wallet # "null" /\ ~Exists("wallet") /\ Complete("temp") => Renaming # {}
  /\ gui.op \in EndOps /\ gui.pc # "reopen" => wallet # "null"

LEMMA NextKept ==
  ASSUME Discipline = Disciplines,
         TInv, LInv, Flagged, Streamed, Kept, [Next]_vars
  PROVE  Kept'
<1> USE DataOrder, PathFacts
    DEF Kept, Complete, Exists, Absent, Partial, file, data, library, bounds, Writing,
        Renaming, EndOps
<1>h. gui.op \in Handlers /\ gui.pc \in Steps
  BY DEF TInv, TypeOK, Handler
<1>w. /\ ~mutex => handle = "closed" /\ Writing = {}
      /\ wallet # "ready" => Writing = {} /\ Renaming = {}
      /\ Renaming # {} => wallet = "ready" /\ Complete("temp")
      /\ handle = "temp" => Renaming = {}
      /\ wallet = "ready" => init.pc # "run"
  BY DEF LInv, Loading, LockCoversFile, Saving, SaveOwnsFile, Streamed
<1>p. \A p \in Paths : \A v : /\ [disk EXCEPT ![p] = v][p] = v
                             /\ \A q \in Paths \ {p} : [disk EXCEPT ![p] = v][q] = disk[q]
  BY DEF TInv, TypeOK
<1>v. /\ "temp" \in Paths /\ "wallet" \in Paths /\ disk["wallet"] \in Int /\ disk["temp"] \in Int
      /\ Versions \subseteq Nat \ {0}
  BY PathFacts, WalletAssumption DEF WalletAssumption, Versions
<1>e. ASSUME NEW s \in Savers, NEW r, savers' = [savers EXCEPT ![s] = r]
      PROVE  savers'[s] = r /\ \A t \in Savers \ {s} : savers'[t] = savers[t]
  BY <1>e DEF TInv, TypeOK
<1>a. AfterSave(gui.op).op \in EndOps => gui.op \in EndOps
  BY <1>h, AfterSaveStep
<1>o. ASSUME OpenWallet, up PROVE Kept'
  <2>1. /\ wallet = "null" /\ gui' = Loop /\ UNCHANGED <<disk, savers, data>>
        /\ Writing = {} /\ Renaming = {}
    BY <1>o, <1>w DEF OpenWallet
  <2>2. wallet' # "ready" /\ Exists("wallet")
    BY <1>o DEF OpenWallet, Disciplines
  <2>3. init' = init \/ init' = [pc |-> "run", ok |-> Complete("wallet"), data |-> disk["wallet"]]
    BY <1>o DEF OpenWallet
  <2> QED
    BY <2>1, <2>2, <2>3 DEF Loop
<1>1. CASE Reopen
  BY <1>1, <1>o DEF Reopen
<1>2. CASE OpenFile
  <2>1. /\ UNCHANGED <<wallet, data, savers, init>> /\ gui.pc = "open" /\ Writing = {}
    BY <1>2, <1>w DEF OpenFile
  <2>2. CASE UNCHANGED file /\ gui' = AfterSave(gui.op)
    BY <2>1, <2>2, <1>a
  <2>3. ASSUME handle' = Target(gui.op), disk' = [disk EXCEPT ![Target(gui.op)] = Partial],
               gui' = At(gui.op, "start"), Target(gui.op) = "temp" => Renamed
        PROVE  Kept'
    <3>1. gui'.op = gui.op
      BY <2>3 DEF At
    <3>2. Target(gui.op) # "wallet" /\ Target(gui.op) \in Paths
      BY DEF Target
    <3>3. disk'["wallet"] = disk["wallet"] /\ disk'["temp"] \in {disk["temp"], Partial}
          /\ (Renaming # {} => disk'["temp"] = disk["temp"])
      BY <2>3, <3>2, <1>p, <1>v DEF Renamed
    <3>4. Partial <= last /\ Partial \notin Versions
      BY <1>v DEF TInv, TypeOK, Data
    <3> QED
      BY <2>1, <3>1, <3>3, <3>4
  <2> QED
    BY <1>2, <2>3, <2>2 DEF OpenFile, Disciplines
<1>3. CASE StartSave
  <2>1. /\ UNCHANGED <<disk, wallet, data, init>> /\ gui.pc = "start" /\ Writing = {}
    BY <1>3 DEF StartSave, LInv, Handling
  <2>2. CASE gui' = AfterSave(gui.op) /\ handle' = "closed" /\ UNCHANGED savers
    BY <2>1, <2>2, <1>a
  <2>3. ASSUME NEW s \in Savers, wallet = "ready", savers[s].pc = "idle",
               UNCHANGED <<handle, mutex>>,
               savers' = [savers EXCEPT ![s] = [pc |-> "write", data |-> mem]],
               gui' = At(gui.op, "return")
        PROVE  Kept'
    <3>1. /\ savers'[s] = [pc |-> "write", data |-> mem]
          /\ \A t \in Savers \ {s} : savers'[t] = savers[t]
      BY <2>3, <1>e
    <3>2. gui'.op = gui.op
      BY <2>3 DEF At
    <3>3. Renaming' = Renaming
      BY <2>3, <3>1
    <3>4. \A t \in Writing' : savers'[t].data = mem
      BY <2>1, <2>3, <3>1
    <3> QED
      BY <2>1, <2>3, <3>2, <3>3, <3>4
  <2> QED
    BY <1>3, <2>2, <2>3 DEF StartSave
<1>4. CASE SaveReturned
  BY <1>4, <1>a DEF SaveReturned
<1>5. CASE RemoveBackup
  <2>1. disk'["temp"] = disk["temp"] /\ disk'["wallet"] = disk["wallet"]
        /\ (handle' = "temp" => handle = "temp") /\ gui'.op \notin EndOps
    BY <1>5, <1>p, <1>v DEF RemoveBackup, At
  <2> QED
    BY <1>5, <2>1 DEF RemoveBackup
<1>6. CASE SendLocked
  BY <1>6, <1>h DEF SendLocked, Loop
<1>7. CASE CloseLock
  <2>1. Writing = {} /\ init' = init /\ gui'.op = gui.op /\ gui.pc # "reopen"
    BY <1>7, <1>w DEF CloseLock, LInv, Handling, At
  <2>2. \A s \in Savers : savers'[s] = savers[s]
    BY <1>7, <2>1 DEF CloseLock
  <2> QED
    BY <1>7, <2>1, <2>2 DEF CloseLock
<1>8. CASE CloseEvents
  BY <1>8, <1>h DEF CloseEvents, At
<1>9. CASE CloseDelete
  <2>1. Writing' = {} /\ Renaming' = {} /\ init'.pc = "none" /\ mem' = 0 /\ wallet' = "null"
        /\ (gui'.op \in EndOps => gui'.pc = "reopen") /\ UNCHANGED <<disk, last>>
    BY <1>9 DEF CloseDelete, LibraryDone, At, Loop
  <2>2. last >= 0
    BY <1>v DEF TInv, TypeOK, Data
  <2> QED
    BY <2>1, <2>2
<1>10. CASE OnInitDone \/ OnOpened \/ OnSendDone
  BY <1>10, <1>h, SlotStep DEF At
<1>11. CASE OnInitFailed
  <2>1. Writing' = {} /\ Renaming' = {} /\ init'.pc = "none" /\ mem' = 0 /\ wallet' = "null"
        /\ gui'.op \notin EndOps /\ UNCHANGED <<disk, last>>
    BY <1>11, Delivery DEF OnInitFailed, LibraryDone
  <2>2. last >= 0
    BY <1>v DEF TInv, TypeOK, Data
  <2> QED
    BY <2>1, <2>2
<1>12. CASE OnOpenFailed
  BY <1>12, <1>h, Delivery DEF OnOpenFailed
<1>13. CASE OnSendFailed
  BY <1>13, <1>h, Delivery DEF OnSendFailed
<1>14. CASE Open
  BY <1>14, <1>o DEF Open, Starts
<1>15. CASE Create
  <2>1. /\ wallet = "null" /\ disk' = disk /\ disk["wallet"] = 0 /\ disk["temp"] = 0
        /\ last' = last + 1 /\ mem' = mem /\ savers' = savers /\ wallet' = "loading" /\ gui' = Loop
        /\ init'.data = last + 1
    BY <1>15 DEF Create, Starts
  <2>2. last >= 0
    BY <1>v DEF TInv, TypeOK, Data
  <2>3. 0 \notin Versions
    BY <1>v
  <2> QED
    BY <2>1, <2>2, <2>3, <1>w DEF Loop
<1>16. CASE Backup
  BY <1>16, <1>h DEF Backup, Starts, Usable, Loop, At
<1>17. CASE ChangePassword
  <2>1. init.pc = "none" /\ wallet = "ready"
    BY <1>17 DEF ChangePassword, Usable
  <2> QED
    BY <1>17, <2>1 DEF ChangePassword, At
<1>18. CASE SendTransaction
  BY <1>18, <1>h DEF SendTransaction, Starts, Usable, Loop, At
<1>19. CASE Close
  BY <1>19, <1>h DEF Close, Starts, Usable, Loop, At
<1>20. CASE InitCompleted
  <2>1. /\ wallet = "loading" /\ init'.pc = "emit" /\ UNCHANGED <<disk, savers, gui, last>>
        /\ wallet' \in {"blank", "ready"}
    BY <1>20 DEF InitCompleted, LInv, Loading, TInv, TypeOK, Load
  <2>2. wallet' = "ready" => mem' = init.data /\ init.ok
    BY <1>20 DEF InitCompleted
  <2>3. wallet' = "blank" => mem' = mem
    BY <1>20 DEF InitCompleted
  <2>4. Writing' = {} /\ Renaming' = {} /\ Renaming = {}
    BY <2>1, <1>w
  <2> QED
    BY <1>20, <2>1, <2>2, <2>3, <2>4 DEF InitCompleted
<1>21. CASE InitEmit
  BY <1>21, <1>h DEF InitEmit, NoInit
<1>22. CASE SendCompleted
  <2>1. wallet = "ready" /\ init.pc # "run"
    BY <1>22 DEF SendCompleted, LInv, Sending, Loading
  <2>2. mem <= mem' /\ last <= last' /\ mem' <= last' /\ mem' \in Int /\ last' \in Int
    BY <1>22 DEF SendCompleted
  <2>3. UNCHANGED <<disk, handle, wallet, gui, savers, init>>
    BY <1>22 DEF SendCompleted
  <2> QED
    BY <2>1, <2>2, <2>3
<1>23. CASE SendEmit
  BY <1>23, <1>h DEF SendEmit, Quiet
<1>24. CASE Crash
  <2>1. Writing' = {} /\ Renaming' = {} /\ init'.pc = "none" /\ mem' = 0 /\ wallet' = "null"
        /\ gui' = Loop /\ UNCHANGED <<disk, last>>
    BY <1>24 DEF Crash, Volatile, IdleSaver, NoInit
  <2>2. last >= 0
    BY <1>v DEF TInv, TypeOK, Data
  <2> QED
    BY <2>1, <2>2 DEF Loop
<1>25. CASE Restart
  BY <1>25, <1>h DEF Restart, At
<1>26. ASSUME NEW s \in Savers, SaveCompleted(s)
      PROVE  Kept'
  <2>1. PICK ok \in BOOLEAN, v \in {savers[s].data, mem} :
          /\ disk' = IF ok /\ handle \in Paths THEN [disk EXCEPT ![handle] = v] ELSE disk
          /\ savers' = [savers EXCEPT ![s] =
               IF ok /\ ~backing THEN [pc |-> "remove", data |-> v] ELSE IdleSaver]
    BY <1>26 DEF SaveCompleted
  <2>2. /\ UNCHANGED <<wallet, data, gui, init>> /\ handle' = "closed"
        /\ wallet = "ready" /\ Writing = {s} /\ gui.pc # "start"
        /\ ~(gui.pc = "return" /\ gui.op \in BackupOps)
    BY <1>26 DEF SaveCompleted, LInv, Saving, SaveOwnsFile, Handling, Disciplines
  <2>3. /\ savers'[s] = IF ok /\ ~backing THEN [pc |-> "remove", data |-> v] ELSE IdleSaver
        /\ \A t \in Savers \ {s} : savers'[t] = savers[t]
    BY <2>1 DEF TInv, TypeOK
  <2>4. Writing' = {}
    BY <2>2, <2>3 DEF IdleSaver
  <2>5. /\ v \in Versions /\ v <= mem
        /\ handle = "temp" => disk["wallet"] <= v
        /\ handle # "wallet"
    BY <2>1, <2>2 DEF Streamed, LInv, Loading
  <2>6. disk'["wallet"] = disk["wallet"]
    BY <2>1, <2>5, <1>p, <1>v
  <2>7. CASE handle = "temp"
    <3>1. Renaming = {} /\ ~backing
      BY <2>7, <1>w DEF Flagged, FlagMeansBackup
    <3>2. CASE ok
      <4>1. disk' = [disk EXCEPT !["temp"] = v] /\ savers'[s].pc = "remove"
        BY <2>1, <2>3, <2>7, <3>1, <3>2, <1>v
      <4>2. disk'["temp"] = v /\ Renaming' = {s}
        BY <4>1, <3>1, <2>3, <1>p, <1>v
      <4>3. /\ disk["wallet"] <= v /\ v <= mem /\ mem <= last /\ v \in Int
            /\ init.pc # "run" /\ wallet' = "ready" /\ UNCHANGED <<mem, last, init>>
        BY <2>2, <2>5, <2>7, <1>v, <1>w
      <4> QED
        BY <2>4, <2>6, <4>2, <4>3, <1>v
    <3>3. CASE ~ok
      <4>1. disk' = disk /\ Renaming' = {}
        BY <2>1, <2>3, <3>1, <3>3 DEF IdleSaver
      <4> QED
        BY <2>2, <2>4, <3>1, <4>1
    <3> QED
      BY <3>2, <3>3
  <2>8. CASE handle # "temp"
    <3>1. backing
      BY <2>2, <2>8 DEF Streamed
    <3>2. Renaming' = Renaming
      BY <2>2, <2>3, <3>1 DEF IdleSaver
    <3>3. disk'["temp"] = disk["temp"]
      BY <2>1, <2>8, <1>p, <1>v
    <3> QED
      BY <2>2, <2>4, <2>6, <3>2, <3>3
  <2> QED
    BY <2>7, <2>8
<1>27. ASSUME NEW s \in Savers, RemoveWallet(s)
      PROVE  Kept'
  <2>1. /\ UNCHANGED <<wallet, data, gui, init, backing, bounds>>
        /\ savers' = [savers EXCEPT ![s].pc = "rename"] /\ savers[s].pc = "remove"
        /\ disk' = [disk EXCEPT !["wallet"] = Absent]
    BY <1>27 DEF RemoveWallet
  <2>2. /\ savers'[s].pc = "rename" /\ savers'[s].data = savers[s].data
        /\ \A t \in Savers \ {s} : savers'[t] = savers[t]
    BY <2>1 DEF TInv, TypeOK, Saver
  <2>3. Writing' = Writing /\ Renaming' = Renaming /\ Renaming # {}
    BY <2>1, <2>2
  <2>4. disk'["temp"] = disk["temp"] /\ disk'["wallet"] = 0 /\ disk["temp"] > 0
    <3>1. disk["temp"] > 0
      BY <2>3, <1>w, <1>v
    <3> QED
      BY <2>1, <3>1, <1>p, <1>v
  <2>5. handle' # "temp"
    BY <1>27, <2>3, <1>w DEF RemoveWallet
  <2>6. \A t \in Writing' : savers'[t] = savers[t] /\ t \in Writing
    BY <2>1, <2>2
  <2> QED
    BY <2>1, <2>3, <2>4, <2>5, <2>6, <1>v, <1>w
<1>28. ASSUME NEW s \in Savers, RenameTemp(s)
      PROVE  Kept'
  <2>1. /\ UNCHANGED <<wallet, data, gui, init, backing, bounds>> /\ s \in Renaming
        /\ savers' = [savers EXCEPT ![s] = IdleSaver]
    BY <1>28 DEF RenameTemp
  <2>2. savers'[s] = IdleSaver /\ \A t \in Savers \ {s} : savers'[t] = savers[t]
    BY <2>1, <1>e
  <2>3. Writing' = Writing /\ Renaming' = {}
    BY <2>1, <2>2 DEF IdleSaver, Streamed
  <2>4. handle' = handle /\ handle # "temp" /\ Complete("temp") /\ wallet = "ready"
    BY <1>28, <2>1, <1>w DEF RenameTemp
  <2>5. CASE Exists("wallet")
    <3>1. disk' = disk
      BY <1>28, <2>5 DEF RenameTemp
    <3> QED
      BY <2>1, <2>2, <2>3, <2>4, <2>5, <3>1
  <2>6. CASE ~Exists("wallet")
    <3>1. disk' = [disk EXCEPT !["wallet"] = disk["temp"], !["temp"] = Absent]
      BY <1>28, <2>4, <2>6, <1>v DEF RenameTemp
    <3>2. disk'["wallet"] = disk["temp"] /\ disk'["temp"] = 0 /\ 0 \notin Versions
      BY <3>1, <1>v DEF TInv, TypeOK
    <3>3. \A t \in Writing' : savers'[t] = savers[t] /\ t \in Writing
      BY <2>1, <2>2 DEF IdleSaver
    <3> QED
      BY <2>1, <2>3, <2>4, <3>2, <3>3, <1>v, <1>w
  <2> QED
    BY <2>5, <2>6
<1>29. CASE UNCHANGED vars
  BY <1>29 DEF vars
<1> QED
  BY <1>1, <1>2, <1>3, <1>4, <1>5, <1>6, <1>7, <1>8, <1>9, <1>10, <1>11, <1>12, <1>13, <1>14,
     <1>15, <1>16, <1>17, <1>18, <1>19, <1>20, <1>21, <1>22, <1>23, <1>24, <1>25,
     <1>26, <1>27, <1>28, <1>29
     DEF Next, GuiStep, UserStep, LibraryStep, SaverStep

(* Every step of the adapter makes a version, stores one that was made, or *)
(* leaves both alone.                                                      *)
Advances ==
  \/ last' = last + 1 /\ Stored' = Stored
  \/ last' = last /\ Stored' = Stored
  \/ last' = last /\ Stored' \in (Stored + 1)..last

LEMMA StepAdvances ==
  ASSUME Discipline = Disciplines,
         TInv, LInv, Streamed, Kept, [Next]_vars
  PROVE  Advances
<1> USE DataOrder, PathFacts
    DEF Advances, Stored, Complete, Exists, Absent, Partial, file, data, library, bounds
<1>h. gui.op \in Handlers /\ gui.pc \in Steps
  BY DEF TInv, TypeOK, Handler
<1>v. /\ "temp" \in Paths /\ "wallet" \in Paths
      /\ Versions \subseteq Nat \ {0} /\ -1 \notin Versions /\ 0 \notin Versions
  BY WalletAssumption DEF WalletAssumption, Versions
<1>p. \A p \in Paths : \A v : /\ [disk EXCEPT ![p] = v][p] = v
                             /\ \A q \in Paths \ {p} : [disk EXCEPT ![p] = v][q] = disk[q]
  BY DEF TInv, TypeOK
<1>s. UNCHANGED <<disk, last>> => Advances
  OBVIOUS
<1>o. ASSUME OpenWallet PROVE Advances
  BY <1>o DEF OpenWallet
<1>1. CASE Reopen
  BY <1>1, <1>o DEF Reopen
<1>2. CASE OpenFile
  <2>1. last' = last /\ gui.pc = "open"
    BY <1>2 DEF OpenFile
  <2>2. CASE UNCHANGED file
    BY <2>1, <2>2, <1>s
  <2>3. ASSUME disk' = [disk EXCEPT ![Target(gui.op)] = Partial], Target(gui.op) = "temp" => Renamed
        PROVE  Advances
    <3>1. Target(gui.op) # "wallet" /\ Target(gui.op) \in Paths
      BY DEF Target
    <3>2. disk'["wallet"] = disk["wallet"]
      BY <2>3, <3>1, <1>p, <1>v
    <3>3. CASE Target(gui.op) = "temp"
      <4>1. Renaming = {} /\ wallet # "null"
        BY <2>1, <2>3, <3>3 DEF Renamed, Renaming, Kept, LInv, Handling
      <4>2. disk["wallet"] = 0 => disk["temp"] \notin Versions
        BY <4>1 DEF Kept
      <4>3. disk'["temp"] = -1
        BY <2>3, <3>3, <1>p, <1>v
      <4> QED
        BY <2>1, <3>2, <4>2, <4>3, <1>v
    <3>4. CASE Target(gui.op) # "temp"
      <4>1. disk'["temp"] = disk["temp"]
        BY <2>3, <3>1, <3>4, <1>p, <1>v
      <4> QED
        BY <2>1, <3>2, <4>1
    <3> QED
      BY <3>3, <3>4
  <2> QED
    BY <1>2, <2>2, <2>3 DEF OpenFile, Disciplines
<1>3. CASE StartSave
  BY <1>3, <1>s DEF StartSave
<1>4. CASE SaveReturned
  BY <1>4, <1>s DEF SaveReturned
<1>5. CASE RemoveBackup
  <2>1. disk'["temp"] = disk["temp"] /\ disk'["wallet"] = disk["wallet"] /\ last' = last
    BY <1>5, <1>p, <1>v DEF RemoveBackup
  <2> QED
    BY <2>1
<1>6. CASE SendLocked
  BY <1>6, <1>s DEF SendLocked
<1>7. CASE CloseLock
  BY <1>7, <1>s DEF CloseLock
<1>8. CASE CloseEvents
  BY <1>8, <1>s DEF CloseEvents
<1>9. CASE CloseDelete
  BY <1>9, <1>s DEF CloseDelete
<1>10. CASE OnInitDone \/ OnOpened \/ OnSendDone
  BY <1>10, <1>s, SlotStep
<1>11. CASE OnInitFailed
  BY <1>11, <1>s DEF OnInitFailed
<1>12. CASE OnOpenFailed
  BY <1>12, <1>s DEF OnOpenFailed
<1>13. CASE OnSendFailed
  BY <1>13, <1>s DEF OnSendFailed
<1>14. CASE Open
  BY <1>14, <1>o DEF Open
<1>15. CASE Create
  BY <1>15 DEF Create
<1>16. CASE Backup
  BY <1>16, <1>s DEF Backup
<1>17. CASE ChangePassword
  BY <1>17 DEF ChangePassword
<1>18. CASE SendTransaction
  BY <1>18, <1>s DEF SendTransaction
<1>19. CASE Close
  BY <1>19, <1>s DEF Close
<1>20. CASE InitCompleted
  BY <1>20, <1>s DEF InitCompleted
<1>21. CASE InitEmit
  BY <1>21, <1>s DEF InitEmit
<1>22. CASE SendCompleted
  BY <1>22 DEF SendCompleted
<1>23. CASE SendEmit
  BY <1>23, <1>s DEF SendEmit
<1>24. CASE Crash
  BY <1>24, <1>s DEF Crash
<1>25. CASE Restart
  BY <1>25, <1>s DEF Restart
<1>26. ASSUME NEW s \in Savers, SaveCompleted(s)
      PROVE  Advances
  <2>1. PICK ok \in BOOLEAN, v \in {savers[s].data, mem} :
          disk' = IF ok /\ handle \in Paths THEN [disk EXCEPT ![handle] = v] ELSE disk
    BY <1>26 DEF SaveCompleted
  <2>2. last' = last /\ wallet = "ready" /\ Writing = {s}
    BY <1>26 DEF SaveCompleted, LInv, Saving, SaveOwnsFile, Writing
  <2>3. /\ v \in Versions /\ v <= last /\ handle # "wallet"
        /\ handle = "temp" => disk["wallet"] <= v /\ Renaming = {}
    BY <2>1, <2>2 DEF Streamed, LInv, Loading, Kept
  <2>4. disk'["wallet"] = disk["wallet"]
    BY <2>1, <2>3, <1>p, <1>v
  <2>5. CASE disk'["temp"] = disk["temp"]
    BY <2>2, <2>4, <2>5
  <2>6. CASE disk'["temp"] # disk["temp"]
    <3>1. handle = "temp" /\ disk'["temp"] = v
      BY <2>1, <2>6, <1>p, <1>v
    <3>2. disk["wallet"] = 0 => disk["temp"] \notin Versions
      BY <2>2, <2>3, <3>1 DEF Kept
    <3>3. disk["wallet"] # 0 => disk["wallet"] \in Versions
      BY <1>v DEF Kept, TInv, TypeOK, Contents, Data
    <3>4. v \in Int /\ v > 0
      BY <2>3, <1>v
    <3>5. CASE disk["wallet"] = 0
      <4>1. Stored = 0 /\ Stored' = v
        BY <2>3, <2>4, <3>1, <3>2, <3>5, <1>v
      <4> QED
        BY <2>2, <2>3, <3>4, <4>1
    <3>6. CASE disk["wallet"] # 0
      BY <2>2, <2>4, <3>3, <3>6
    <3> QED
      BY <3>5, <3>6
  <2> QED
    BY <2>5, <2>6
<1>27. ASSUME NEW s \in Savers, RemoveWallet(s)
      PROVE  Advances
  <2>1. s \in Renaming /\ last' = last /\ disk' = [disk EXCEPT !["wallet"] = Absent]
    BY <1>27 DEF RemoveWallet, Renaming
  <2>2. /\ disk["wallet"] <= disk["temp"] /\ disk["temp"] <= last /\ disk["temp"] \in Versions
        /\ disk["wallet"] = 0 \/ disk["wallet"] \in Versions
    BY <2>1 DEF Kept, Streamed, TInv, TypeOK, Contents, Data
  <2>3. disk'["wallet"] = 0 /\ disk'["temp"] = disk["temp"]
    BY <2>1 DEF TInv, TypeOK, Paths
  <2>4. Stored' = disk["temp"] /\ Stored \in {disk["wallet"], disk["temp"]}
    BY <2>2, <2>3, <1>v
  <2>5. disk["temp"] \in Int /\ disk["wallet"] \in Int /\ last \in Int
    BY <1>v
  <2>6. CASE Stored = disk["temp"]
    BY <2>1, <2>4, <2>6
  <2>7. CASE Stored = disk["wallet"] /\ Stored # disk["temp"]
    BY <2>1, <2>2, <2>4, <2>5, <2>7
  <2> QED
    BY <2>4, <2>6, <2>7
<1>28. ASSUME NEW s \in Savers, RenameTemp(s)
      PROVE  Advances
  <2>1. s \in Renaming /\ last' = last
    BY <1>28 DEF RenameTemp, Renaming
  <2>2. CASE disk' = disk
    BY <2>1, <2>2, <1>s
  <2>3. CASE ~Exists("wallet") /\ disk' = [disk EXCEPT !["wallet"] = disk["temp"],
                                                 !["temp"] = Absent]
    <3>1. disk'["wallet"] = disk["temp"] /\ disk["temp"] \in Versions
      BY <2>1, <2>3, <1>v DEF TInv, TypeOK, Streamed
    <3> QED
      BY <2>1, <2>3, <3>1, <1>v
  <2> QED
    BY <1>28, <2>2, <2>3 DEF RenameTemp
<1>29. CASE UNCHANGED vars
  BY <1>29 DEF vars
<1> QED
  BY <1>1, <1>2, <1>3, <1>4, <1>5, <1>6, <1>7, <1>8, <1>9, <1>10, <1>11, <1>12, <1>13, <1>14,
     <1>15, <1>16, <1>17, <1>18, <1>19, <1>20, <1>21, <1>22, <1>23, <1>24, <1>25,
     <1>26, <1>27, <1>28, <1>29
     DEF Next, GuiStep, UserStep, LibraryStep, SaverStep

-----------------------------------------------------------------------------
(* The four invariants hold at first.                                      *)
LEMMA InitFiles == Init => Password /\ Flagged /\ Streamed /\ Kept
<1> SUFFICES ASSUME Init PROVE Password /\ Flagged /\ Streamed /\ Kept
  OBVIOUS
<1>1. /\ handle = "closed" /\ ~backing /\ wallet = "null" /\ mem = 0 /\ passwordAt = 0 /\ up
      /\ gui.op = "none" /\ gui.pc = "loop" /\ init.pc = "none" /\ crashes = 0
  BY DEF Init, Loop, NoInit, Absent
<1>2. Writing = {} /\ Renaming = {} /\ \A s \in Savers : savers[s].pc = "idle"
  BY DEF Init, IdleSaver, Writing, Renaming
<1>3. disk["wallet"] \in {0, 1} /\ last = disk["wallet"] /\ disk["temp"] = 0 /\ disk["backup"] = 0
  BY PathFacts DEF Init, Absent
<1>4. 0 \notin Versions
  BY WalletAssumption DEF WalletAssumption, Versions
<1> QED
  BY <1>1, <1>2, <1>3, <1>4
     DEF Password, Flagged, FlagMeansBackup, Streamed, Kept, Complete, Exists, Absent, Partial,
         BackupOps, EndOps

(* When the wallet is closed only while nothing is pending, no complete    *)
(* backup is older than the password, unless the process crashed.          *)
THEOREM OldBackupGone ==
  ASSUME "idle_close" \in Discipline
  PROVE  Spec => []NoBackupUnderOldPassword
<1>1. Init => TInv /\ LInv /\ Password
  BY InitType, InitLock, InitFiles
<1>2. TInv /\ LInv /\ Password /\ [Next]_vars => (TInv /\ LInv /\ Password)'
  BY NextType, NextLock, NextPassword
<1>3. Password => NoBackupUnderOldPassword
  BY DEF Password, NoBackupUnderOldPassword
<1> QED
  BY <1>1, <1>2, <1>3, PTL DEF Spec

(* If no callback is so quick that it finds m_isBackupInProgress unset,    *)
(* the flag is set only while a backup is being written.                   *)
THEOREM FlagRight ==
  ASSUME {"idle_close", "flag_first"} \subseteq Discipline
  PROVE  Spec => []FlagMeansBackup
<1>1. Init => TInv /\ LInv /\ Flagged
  BY InitType, InitLock, InitFiles
<1>2. TInv /\ LInv /\ Flagged /\ [Next]_vars => (TInv /\ LInv /\ Flagged)'
  BY NextType, NextLock, NextFlagged
<1>3. Flagged => FlagMeansBackup
  BY DEF Flagged
<1> QED
  BY <1>1, <1>2, <1>3, PTL DEF Spec

(* And if a callback has renamed before the next save opens ".temp",       *)
(* renameFile() always finds that file: its Q_ASSERT holds.                *)
THEOREM RenameFinds ==
  ASSUME {"idle_close", "flag_first", "rename_first"} \subseteq Discipline
  PROVE  Spec => RenameFindsTemp
<1>1. Init => TInv /\ LInv /\ Flagged /\ Streamed
  BY InitType, InitLock, InitFiles
<1>2. TInv /\ LInv /\ Flagged /\ Streamed /\ [Next]_vars => (TInv /\ LInv /\ Flagged /\ Streamed)'
  BY NextType, NextLock, NextFlagged, NextStreamed
<1>3. Streamed => \A s \in Savers : savers[s].pc = "remove" => Exists("temp")
  <2>1. 0 \notin Versions
    BY WalletAssumption DEF WalletAssumption, Versions
  <2> QED
    BY <2>1 DEF Streamed, Renaming, Complete, Exists, Absent
<1>4. Streamed /\ [Next]_vars =>
        [\A s \in Savers : savers[s].pc = "remove" /\ savers'[s].pc = "rename"
            => Exists("temp")]_vars
  BY <1>3
<1> QED
  BY <1>1, <1>2, <1>4, PTL DEF Spec, RenameFindsTemp

(* Under the four assumptions the file protocol implements WalletFile: no  *)
(* save, backup, crash or restart loses the wallet on disk, or replaces it *)
(* by an older one.                                                        *)
THEOREM Refinement ==
  ASSUME Discipline = Disciplines
  PROVE  Spec => WalletFileKept
<1>d. {"idle_close", "flag_first", "rename_first"} \subseteq Discipline
  BY DEF Disciplines
<1>1. Init => TInv /\ LInv /\ Flagged /\ Streamed /\ Kept
  BY InitType, InitLock, InitFiles
<1>2. TInv /\ LInv /\ Flagged /\ Streamed /\ Kept /\ [Next]_vars
        => (TInv /\ LInv /\ Flagged /\ Streamed /\ Kept)'
  BY <1>d, NextType, NextLock, NextFlagged, NextStreamed, NextKept
<1>3. Init => File!Init
  <2> SUFFICES ASSUME Init PROVE last \in Nat /\ Stored = last
    BY DEF File!Init
  <2>1. disk["wallet"] \in {0, 1} /\ last = disk["wallet"] /\ disk["temp"] = 0
    BY PathFacts DEF Init, Absent
  <2>2. 0 \notin Versions /\ 1 \in Versions
    BY WalletAssumption DEF WalletAssumption, Versions
  <2> QED
    BY <2>1, <2>2 DEF Stored, Complete, Exists, Absent
<1>4. TInv /\ LInv /\ Streamed /\ Kept /\ [Next]_vars
        => [File!Make \/ File!Store]_<<last, Stored>>
  BY StepAdvances DEF Advances, File!Make, File!Store
<1> QED
  BY <1>1, <1>2, <1>3, <1>4, PTL DEF Spec, WalletFileKept, File!Spec
==============================================================================
