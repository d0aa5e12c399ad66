--------------------------- MODULE WalletAdapter ---------------------------
(***************************************************************************)
(* The wallet file protocol of src/src/WalletAdapter.cpp.                  *)
(*                                                                         *)
(* The GUI thread runs one handler at a time: open, create, save, backup,  *)
(* change password, send, close, reset.  The wallet library works on       *)
(* threads of its own and calls the adapter back (initCompleted,           *)
(* saveCompleted, sendTransactionCompleted).  Both sides meet at m_mutex,  *)
(* which one thread locks and another one unlocks, at the single stream    *)
(* m_file, at m_isBackupInProgress, and at the files on disk.  The process *)
(* may crash between any two steps and be started again.                   *)
(*                                                                         *)
(* A file holds a version of the wallet (a positive number), Absent, or    *)
(* Partial (truncated, written half).                                      *)
(***************************************************************************)
EXTENDS Integers, Sequences

CONSTANTS
  Savers,       \* identities of the library's save threads
  MaxVersion,   \* bound: versions the wallet's data goes through
  MaxOps,       \* bound: operations the user starts
  MaxCrashes,   \* bound: crashes of the process
  Discipline    \* scheduling and usage assumptions in force, see below

(* What a run may take for granted.  The code guarantees none of these; a  *)
(* run without one of them shows what the code does then.                  *)
(*   "flag_first"    a backup's m_isBackupInProgress is set before the     *)
(*                   library calls saveCompleted for it                    *)
(*   "rename_first"  a saveCompleted that has unlocked m_mutex renames     *)
(*                   before the GUI thread opens the ".temp" file          *)
(*   "idle_close"    the wallet is closed or reset only while nothing is   *)
(*                   loading, being sent, or queued for the event loop     *)
(*   "no_blank"      the program is not started on a missing wallet file   *)
Disciplines == {"flag_first", "rename_first", "idle_close", "no_blank"}

ASSUME WalletAssumption ==
  /\ MaxVersion \in Nat \ {0} /\ MaxOps \in Nat /\ MaxCrashes \in Nat
  /\ Discipline \subseteq Disciplines

Absent == 0
Partial == -1
Versions == 1..MaxVersion
Data == Versions \cup {Absent}
Contents == Data \cup {Partial}
Paths == {"wallet", "temp", "backup", "copy"}

VARIABLES
  disk,       \* what each file holds
  handle,     \* the file m_file is open on: a path, "unlinked" or "closed"
  mutex,      \* m_mutex is locked
  backing,    \* m_isBackupInProgress
  wallet,     \* m_wallet: "null", "blank" (not initialised), "loading", "ready"
  mem,        \* the version of the data in m_wallet
  last,       \* the newest version there ever was
  passwordAt, \* the first version under the current password
  gui,        \* the handler the GUI thread runs and where it is in it
  savers,     \* the library's save threads, each up to the end of saveCompleted
  init,       \* the library's load or generation of a wallet
  send,       \* the library's transaction in flight
  queue,      \* signals queued for the GUI thread
  up,         \* the process runs
  ops, crashes

vars == <<disk, handle, mutex, backing, wallet, mem, last, passwordAt, gui,
          savers, init, send, queue, up, ops, crashes>>

file    == <<disk, handle, mutex>>
data    == <<mem, last, passwordAt>>
library == <<savers, init, send>>
bounds  == <<up, ops, crashes>>

Exists(p) == disk[p] # Absent
Complete(p) == disk[p] \in Versions

BackupOps == {"backup", "autoBackup", "passwordBackup"}
EndOps    == {"close", "reset"}

(* Mutants: a backup whose file name is not completed; a save that writes  *)
(* the wallet file itself.                                                 *)
TargetUnnamed(op) == IF op = "backup" THEN "unnamed"
                     ELSE IF op \in BackupOps THEN "backup" ELSE "temp"
TargetInPlace(op) == IF op = "backup" THEN "copy"
                     ELSE IF op \in BackupOps THEN "backup" ELSE "wallet"

(* The file a handler's save() writes.                                     *)
Target(op) == IF op = "backup" THEN "copy"
              ELSE IF op \in BackupOps THEN "backup" ELSE "temp"

Loop == [op |-> "none", pc |-> "loop"]
At(op, pc) == [op |-> op, pc |-> pc]

(* Where a handler goes once its save() has returned.                      *)
AfterSave(op) == CASE op = "passwordBackup" -> At("passwordSave", "open")
                   [] op \in EndOps         -> At(op, "lock")
                   [] OTHER                 -> Loop

IdleSaver == [pc |-> "idle", data |-> Absent]
Quiet == [pc |-> "none", ok |-> TRUE]
NoInit == [pc |-> "none", ok |-> TRUE, data |-> Absent]

(* No callback is between its unlock and its rename.                       *)
Renamed == \A s \in Savers : savers[s].pc \notin {"remove", "rename"}

Init ==
  /\ disk \in {[p \in Paths |-> Absent],
               [p \in Paths |-> IF p = "wallet" THEN 1 ELSE Absent]}
  /\ handle = "closed" /\ mutex = FALSE /\ backing = FALSE
  /\ wallet = "null" /\ mem = Absent /\ passwordAt = Absent
  /\ last = disk["wallet"]
  /\ gui = Loop
  /\ savers = [s \in Savers |-> IdleSaver]
  /\ init = NoInit /\ send = Quiet
  /\ queue = <<>>
  /\ up = TRUE /\ ops = 0 /\ crashes = 0

-----------------------------------------------------------------------------
(* Opening and creating a wallet (GUI thread).                             *)

(* The user's next operation: the event loop is idle.                      *)
Starts ==
  /\ up /\ gui = Loop
  /\ ops < MaxOps /\ ops' = ops + 1

(* open(): an existing file is opened read-only and given to the library,  *)
(* which may refuse it at once; a missing one leaves a blank wallet.       *)
OpenWallet ==
  /\ wallet = "null"
  /\ IF Exists("wallet")
     THEN /\ ~mutex
          /\ \/ /\ handle' = "wallet" /\ mutex' = TRUE
                /\ wallet' = "loading"
                /\ init' = [pc |-> "run", ok |-> Complete("wallet"), data |-> disk["wallet"]]
             \/ /\ wallet' \in {"null", "blank"}  \* initAndLoad throws, or no open
                /\ UNCHANGED <<handle, mutex, init>>
     ELSE /\ "no_blank" \notin Discipline
          /\ wallet' = "blank"
          /\ UNCHANGED <<handle, mutex, init>>
  /\ gui' = Loop
  /\ UNCHANGED <<disk, backing, data, savers, send, queue, up, crashes>>

Open == Starts /\ OpenWallet

(* reset() is followed by open(""), a restart by main()'s open("").        *)
Reopen == up /\ gui.pc = "reopen" /\ OpenWallet /\ UNCHANGED ops

(* createWallet() and its variants, for a user who has no wallet yet.      *)
Create ==
  /\ Starts /\ wallet = "null"
  /\ \A p \in Paths : ~Exists(p)
  /\ last < MaxVersion
  /\ wallet' = "loading"
  /\ last' = last + 1
  /\ init' = [pc |-> "run", ok |-> TRUE, data |-> last + 1]
  /\ UNCHANGED <<file, backing, mem, passwordAt, gui, savers, send, queue, up, crashes>>

-----------------------------------------------------------------------------
(* save() (GUI thread): openFile, then m_wallet->save, then what the       *)
(* caller does with the result.                                            *)

(* MainWindow::walletOpened enables the actions on a wallet.               *)
Usable ==
  /\ wallet = "ready" /\ init.pc = "none"
  /\ \A i \in DOMAIN queue : queue[i].ev = "sendDone"

NothingPending == init.pc = "none" /\ send.pc = "none" /\ queue = <<>>

(* Mutants: openFile() that unlocks before it returns, or never locks.     *)
OpenFileUnlocks ==
  /\ up /\ gui.pc = "open" /\ ~mutex
  /\ handle' = Target(gui.op)
  /\ disk' = [disk EXCEPT ![Target(gui.op)] = Partial]
  /\ gui' = At(gui.op, "start")
  /\ UNCHANGED <<mutex, backing, wallet, data, library, queue, bounds>>

OpenFileNoWait ==
  /\ up /\ gui.pc = "open"
  /\ mutex' = TRUE /\ handle' = Target(gui.op)
  /\ disk' = [disk EXCEPT ![Target(gui.op)] = Partial]
  /\ gui' = At(gui.op, "start")
  /\ UNCHANGED <<backing, wallet, data, library, queue, bounds>>

(* openFile(..., false): lock, truncate; a file that cannot be opened      *)
(* makes save() return false.                                              *)
OpenFile ==
  /\ up /\ gui.pc = "open" /\ ~mutex
  /\ LET t == Target(gui.op) IN
     /\ "rename_first" \in Discipline /\ t = "temp" => Renamed
     /\ \/ /\ mutex' = TRUE /\ handle' = t
           /\ disk' = [disk EXCEPT ![t] = Partial]
           /\ gui' = At(gui.op, "start")
        \/ gui' = AfterSave(gui.op) /\ UNCHANGED file
  /\ UNCHANGED <<backing, wallet, data, library, queue, bounds>>

(* m_wallet->save starts a save thread, or throws: closeFile().            *)
StartSave ==
  /\ up /\ gui.pc = "start"
  /\ \/ /\ wallet = "ready"
        /\ \A s \in Savers : savers[s].pc # "write"
        /\ \E s \in Savers :
             /\ savers[s].pc = "idle"
             /\ savers' = [savers EXCEPT ![s] = [pc |-> "write", data |-> mem]]
        /\ gui' = At(gui.op, "return")
        /\ UNCHANGED <<handle, mutex>>
     \/ /\ handle' = "closed" /\ mutex' = FALSE
        /\ gui' = AfterSave(gui.op)
        /\ UNCHANGED savers
  /\ UNCHANGED <<disk, backing, wallet, data, init, send, queue, bounds>>

(* save() has returned true: a backup sets m_isBackupInProgress only now.  *)
SaveReturned ==
  /\ up /\ gui.pc = "return"
  /\ backing' = (backing \/ gui.op \in BackupOps)
  /\ gui' = AfterSave(gui.op)
  /\ UNCHANGED <<file, wallet, data, library, queue, bounds>>

-----------------------------------------------------------------------------
(* The handlers that save (GUI thread).                                    *)

Backup ==
  /\ Starts /\ Usable /\ ~Exists("copy")
  /\ gui' = At("backup", "open")
  /\ UNCHANGED <<file, backing, wallet, data, library, queue, up, crashes>>

(* changePassword(): the library takes the new password, the old backup is *)
(* removed, a new one is saved, then the wallet.                           *)
ChangePassword ==
  /\ Starts /\ Usable /\ last < MaxVersion
  /\ mem' = last + 1 /\ last' = last + 1 /\ passwordAt' = last + 1
  /\ gui' = At("password", "remove")
  /\ UNCHANGED <<file, backing, wallet, library, queue, up, crashes>>

RemoveBackupForgotten ==                                      \* mutant
  /\ up /\ gui = At("password", "remove")
  /\ gui' = At("passwordBackup", "open")
  /\ UNCHANGED <<file, backing, wallet, data, library, queue, bounds>>

RemoveBackup ==
  /\ up /\ gui = At("password", "remove")
  /\ disk' = [disk EXCEPT !["backup"] = Absent]
  /\ handle' = IF handle = "backup" THEN "unlinked" ELSE handle
  /\ gui' = At("passwordBackup", "open")
  /\ UNCHANGED <<mutex, backing, wallet, data, library, queue, bounds>>

(* sendTransaction() and registerAccountNumber(): lock and hand over.      *)
SendTransaction ==
  /\ Starts /\ Usable
  /\ gui' = At("send", "sendLock")
  /\ UNCHANGED <<file, backing, wallet, data, library, queue, up, crashes>>

SendLockedKeepsLock ==               \* mutant: no unlock when the library throws
  /\ up /\ gui.pc = "sendLock" /\ ~mutex
  /\ mutex' = TRUE
  /\ \/ \E ok \in BOOLEAN : send' = [pc |-> "run", ok |-> ok]
     \/ UNCHANGED send
  /\ gui' = Loop
  /\ UNCHANGED <<disk, handle, backing, wallet, data, savers, init, queue, bounds>>

SendLocked ==
  /\ up /\ gui.pc = "sendLock" /\ ~mutex
  /\ \/ mutex' = TRUE /\ \E ok \in BOOLEAN : send' = [pc |-> "run", ok |-> ok]
     \/ UNCHANGED <<mutex, send>>                 \* the library throws: unlock
  /\ gui' = Loop
  /\ UNCHANGED <<disk, handle, backing, wallet, data, savers, init, queue, bounds>>

(* close() and reset(): save, wait for the lock, stop observing the wallet,*)
(* deliver queued signals while holding the lock, then delete the wallet,  *)
(* which waits for the callbacks that have begun, and unlock.              *)
Close ==
  /\ Starts /\ wallet # "null"
  /\ "idle_close" \in Discipline => NothingPending
  /\ \E op \in EndOps :
       /\ op = "reset" => Usable
       /\ gui' = At(op, "open")
  /\ UNCHANGED <<file, backing, wallet, data, library, queue, up, crashes>>

CloseLock ==
  /\ up /\ gui.op \in EndOps /\ gui.pc = "lock" /\ ~mutex
  /\ mutex' = TRUE
  /\ savers' = [s \in Savers |-> IF savers[s].pc = "write" THEN IdleSaver ELSE savers[s]]
  /\ init' = IF init.pc = "run" THEN NoInit ELSE init
  /\ send' = IF send.pc = "run" THEN Quiet ELSE send
  /\ gui' = At(gui.op, "events")
  /\ UNCHANGED <<disk, handle, backing, wallet, data, queue, bounds>>

CloseEvents ==
  /\ up /\ gui.pc = "events" /\ queue = <<>>
  /\ gui' = At(gui.op, "delete")
  /\ UNCHANGED <<file, backing, wallet, data, library, queue, bounds>>

LibraryDone == /\ init.pc = "none" /\ send.pc = "none"
               /\ \A s \in Savers : savers[s].pc = "idle"

CloseDelete ==
  /\ up /\ gui.pc = "delete" /\ LibraryDone
  /\ wallet' = "null" /\ mem' = Absent
  /\ mutex' = FALSE
  /\ gui' = IF gui.op = "reset" THEN At("reset", "reopen") ELSE Loop
  /\ UNCHANGED <<disk, handle, backing, last, passwordAt, library, queue, bounds>>

-----------------------------------------------------------------------------
(* Signals delivered to the GUI thread, by the event loop or from the      *)
(* processEvents() inside close().                                         *)

Delivers(ev, ok) ==
  /\ up /\ gui.pc \in {"loop", "events"}
  /\ queue # <<>> /\ Head(queue) = [ev |-> ev, ok |-> ok]
  /\ queue' = Tail(queue)

(* A handler that calls save() from inside close() waits for the mutex its *)
(* own thread holds: "self" is a state it never leaves.                    *)
CallSave(op) == gui' = IF gui.pc = "events" THEN At(gui.op, "self") ELSE At(op, "open")

(* A handler that uses m_wallet when it is null ends the process.          *)
Volatile ==
  /\ handle' = "closed" /\ mutex' = FALSE /\ backing' = FALSE
  /\ wallet' = "null" /\ mem' = Absent /\ gui' = Loop
  /\ savers' = [s \in Savers |-> IdleSaver]
  /\ init' = NoInit /\ send' = Quiet /\ up' = FALSE

(* onWalletInitCompleted, success: a wallet without a file is saved.       *)
OnInitDone ==
  /\ Delivers("initDone", TRUE)
  /\ IF wallet = "null"
     THEN Volatile
     ELSE /\ IF Exists("wallet") THEN UNCHANGED gui ELSE CallSave("firstSave")
          /\ UNCHANGED <<handle, mutex, backing, wallet, mem, library, up>>
  /\ UNCHANGED <<disk, last, passwordAt, ops, crashes>>

(* onWalletInitCompleted, wrong password or any other error.               *)
OnInitFailed ==
  /\ Delivers("initDone", FALSE) /\ LibraryDone
  /\ wallet' = "null" /\ mem' = Absent
  /\ UNCHANGED <<file, backing, last, passwordAt, gui, library, bounds>>

(* MainWindow::walletOpened, on success: autoBackup().                     *)
OnOpened ==
  /\ Delivers("opened", TRUE)
  /\ IF wallet = "null"
     THEN Volatile
     ELSE /\ IF Exists("backup") THEN UNCHANGED gui ELSE CallSave("autoBackup")
          /\ UNCHANGED <<handle, mutex, backing, wallet, mem, library, up>>
  /\ UNCHANGED <<disk, last, passwordAt, ops, crashes>>

OnOpenFailed ==
  /\ Delivers("opened", FALSE)
  /\ UNCHANGED <<file, backing, wallet, data, gui, library, bounds>>

(* onWalletSendTransactionCompleted: a transaction with transfers is saved.*)
OnSendDone ==
  /\ Delivers("sendDone", TRUE)
  /\ IF wallet = "null"
     THEN Volatile
     ELSE /\ CallSave("sendSave") \/ UNCHANGED gui
          /\ UNCHANGED <<handle, mutex, backing, wallet, mem, library, up>>
  /\ UNCHANGED <<disk, last, passwordAt, ops, crashes>>

OnSendFailed ==
  /\ Delivers("sendDone", FALSE)
  /\ UNCHANGED <<file, backing, wallet, data, gui, library, bounds>>

-----------------------------------------------------------------------------
(* Callbacks of the library, on its threads.                               *)

(* initCompleted: close the file if one is open, then emit.  A loaded      *)
(* wallet has the version the file held when it was opened, and the        *)
(* password of that version.                                               *)
InitCompleted ==
  /\ up /\ init.pc = "run"
  /\ \E ok \in {FALSE, init.ok} :
       /\ init' = [init EXCEPT !.pc = "emit", !.ok = ok]
       /\ IF ~ok THEN wallet' = "blank" /\ UNCHANGED data
          ELSE /\ wallet' = "ready"
               /\ mem' = init.data
               /\ passwordAt' = IF mem' < passwordAt THEN Absent ELSE passwordAt
               /\ UNCHANGED last
  /\ IF handle = "closed" THEN UNCHANGED <<handle, mutex>>
     ELSE handle' = "closed" /\ mutex' = FALSE
  /\ UNCHANGED <<disk, backing, gui, savers, send, queue, bounds>>

InitEmit ==
  /\ up /\ init.pc = "emit"
  /\ queue' = queue \o <<[ev |-> "initDone", ok |-> init.ok],
                         [ev |-> "opened", ok |-> init.ok]>>
  /\ init' = NoInit
  /\ UNCHANGED <<file, backing, wallet, data, gui, savers, send, bounds>>

(* Mutants of saveCompleted: the flag is never reset; the flag is ignored; *)
(* a failed save leaves the file open and the mutex locked.                *)
SaveCompletedKeepsFlag(s) ==
  /\ up /\ savers[s].pc = "write"
  /\ \E ok \in BOOLEAN, v \in {savers[s].data, mem} :
       /\ disk' = IF ok /\ handle \in Paths THEN [disk EXCEPT ![handle] = v] ELSE disk
       /\ savers' = [savers EXCEPT ![s] =
            IF ok /\ ~backing THEN [pc |-> "remove", data |-> v] ELSE IdleSaver]
  /\ handle' = "closed" /\ mutex' = FALSE
  /\ UNCHANGED <<backing, wallet, data, gui, init, send, queue, bounds>>

SaveCompletedRenames(s) ==
  /\ up /\ savers[s].pc = "write"
  /\ \E v \in {savers[s].data, mem} :
       /\ disk' = IF handle \in Paths THEN [disk EXCEPT ![handle] = v] ELSE disk
       /\ savers' = [savers EXCEPT ![s] = [pc |-> "remove", data |-> v]]
  /\ backing' = FALSE /\ handle' = "closed" /\ mutex' = FALSE
  /\ UNCHANGED <<wallet, data, gui, init, send, queue, bounds>>

SaveCompletedLeavesLock(s) ==
  /\ up /\ savers[s].pc = "write"
  /\ savers' = [savers EXCEPT ![s] = IdleSaver]
  /\ UNCHANGED <<file, backing, wallet, data, gui, init, send, queue, bounds>>

(* saveCompleted: closeFile() (flush, close, unlock) and then, unless a    *)
(* backup is in progress, renameFile(): remove the wallet file and rename  *)
(* the ".temp" file to it.                                                 *)
SaveCompleted(s) ==
  /\ up /\ savers[s].pc = "write"
  /\ "flag_first" \in Discipline => ~(gui.pc = "return" /\ gui.op \in BackupOps)
  /\ \E ok \in BOOLEAN, v \in {savers[s].data, mem} :
       /\ disk' = IF ok /\ handle \in Paths THEN [disk EXCEPT ![handle] = v] ELSE disk
       /\ savers' = [savers EXCEPT ![s] =
            IF ok /\ ~backing THEN [pc |-> "remove", data |-> v] ELSE IdleSaver]
  /\ backing' = FALSE
  /\ handle' = "closed" /\ mutex' = FALSE
  /\ UNCHANGED <<wallet, data, gui, init, send, queue, bounds>>

RemoveWallet(s) ==
  /\ up /\ savers[s].pc = "remove"
  /\ disk' = [disk EXCEPT !["wallet"] = Absent]
  /\ handle' = IF handle = "wallet" THEN "unlinked" ELSE handle
  /\ savers' = [savers EXCEPT ![s].pc = "rename"]
  /\ UNCHANGED <<mutex, backing, wallet, data, gui, init, send, queue, bounds>>

(* QFile::rename needs a source and refuses an existing target; a stream   *)
(* open on the source goes with it.                                        *)
RenameTemp(s) ==
  /\ up /\ savers[s].pc = "rename"
  /\ IF Exists("temp") /\ ~Exists("wallet")
     THEN /\ disk' = [disk EXCEPT !["wallet"] = disk["temp"], !["temp"] = Absent]
          /\ handle' = IF handle = "temp" THEN "wallet" ELSE handle
     ELSE UNCHANGED <<disk, handle>>
  /\ savers' = [savers EXCEPT ![s] = IdleSaver]
  /\ UNCHANGED <<mutex, backing, wallet, data, gui, init, send, queue, bounds>>

(* sendTransactionCompleted: unlock, then emit.  A sent transaction is a   *)
(* new version of the wallet's data.                                       *)
SendCompleted ==
  /\ up /\ send.pc = "run"
  /\ IF send.ok /\ last < MaxVersion
     THEN mem' = last + 1 /\ last' = last + 1 ELSE UNCHANGED <<mem, last>>
  /\ mutex' = FALSE
  /\ send' = [send EXCEPT !.pc = "emit"]
  /\ UNCHANGED <<disk, handle, backing, wallet, passwordAt, gui, savers, init, queue, bounds>>

SendEmit ==
  /\ up /\ send.pc = "emit"
  /\ queue' = Append(queue, [ev |-> "sendDone", ok |-> send.ok])
  /\ send' = Quiet
  /\ UNCHANGED <<file, backing, wallet, data, gui, savers, init, bounds>>

-----------------------------------------------------------------------------
Crash ==
  /\ up /\ crashes < MaxCrashes
  /\ crashes' = crashes + 1
  /\ Volatile
  /\ queue' = <<>>
  /\ UNCHANGED <<disk, last, passwordAt, ops>>

(* main() opens the wallet of the last session.                            *)
Restart ==
  /\ ~up
  /\ up' = TRUE /\ queue' = <<>>
  /\ gui' = At("restart", "reopen")
  /\ UNCHANGED <<file, backing, wallet, data, library, ops, crashes>>

GuiStep ==
  \/ Reopen \/ OpenFile \/ StartSave \/ SaveReturned \/ RemoveBackup
  \/ SendLocked \/ CloseLock \/ CloseEvents \/ CloseDelete
  \/ OnInitDone \/ OnInitFailed \/ OnOpened \/ OnOpenFailed
  \/ OnSendDone \/ OnSendFailed

UserStep == Open \/ Create \/ Backup \/ ChangePassword \/ SendTransaction \/ Close

SaverStep(s) == SaveCompleted(s) \/ RemoveWallet(s) \/ RenameTemp(s)

LibraryStep == InitCompleted \/ InitEmit \/ SendCompleted \/ SendEmit

Next == \/ GuiStep \/ UserStep \/ LibraryStep \/ Crash \/ Restart
        \/ \E s \in Savers : SaverStep(s)

Spec == Init /\ [][Next]_vars

(* The GUI thread is never starved by the system, and the library calls    *)
(* back: every save, load and send it has accepted completes.              *)
Fairness ==
  /\ WF_vars(GuiStep)
  /\ WF_vars(InitCompleted) /\ WF_vars(InitEmit)
  /\ WF_vars(SendCompleted) /\ WF_vars(SendEmit)
  /\ \A s \in Savers : WF_vars(SaverStep(s))

FairSpec == Spec /\ Fairness

-----------------------------------------------------------------------------
Handlers == BackupOps \cup EndOps \cup
            {"none", "restart", "firstSave", "sendSave", "password", "passwordSave", "send"}
Steps == {"loop", "reopen", "open", "start", "return", "remove", "sendLock",
          "lock", "events", "delete", "self"}

Saver == [pc : {"idle", "write", "remove", "rename"}, data : Data]
Load == [pc : {"none", "run", "emit"}, ok : BOOLEAN, data : Contents]
Sent == [pc : {"none", "run", "emit"}, ok : BOOLEAN]
Signal == [ev : {"initDone", "opened", "sendDone"}, ok : BOOLEAN]
Handler == [op : Handlers, pc : Steps]

(* Every variable has a value of its type.                                 *)
TypeOK ==
  /\ disk \in [Paths -> Contents] /\ handle \in Paths \cup {"unlinked", "closed"}
  /\ mutex \in BOOLEAN /\ backing \in BOOLEAN /\ up \in BOOLEAN
  /\ wallet \in {"null", "blank", "loading", "ready"}
  /\ mem \in Data /\ last \in Data /\ passwordAt \in Data
  /\ savers \in [Savers -> Saver] /\ init \in Load /\ send \in Sent
  /\ queue \in Seq(Signal) /\ gui \in Handler
  /\ ops \in Nat /\ crashes \in Nat

(* m_file is open only under m_mutex, although the thread that unlocks is  *)
(* seldom the one that locked and unlock() never asks who owns the lock.   *)
LockCoversFile == handle # "closed" => mutex

(* One save at a time: a save thread that still writes has the lock and    *)
(* the stream, and no second one writes.                                   *)
Writing == {s \in Savers : savers[s].pc = "write"}
SaveOwnsFile ==
  \A s \in Writing : mutex /\ handle # "closed" /\ Writing = {s}

(* m_isBackupInProgress is set only while the save in progress is a backup,*)
(* so no callback takes a save of the wallet for a backup.                 *)
FlagMeansBackup ==
  backing => Writing # {} /\ handle \in {"backup", "copy", "unlinked"}

(* Once the wallet file is saved under a new password, no complete backup  *)
(* under an earlier password is left ("remove old unencrypted backup").    *)
(* A crash inside changePassword() may leave one, and so may the moment    *)
(* between its first two statements.                                       *)
NoBackupUnderOldPassword ==
  /\ crashes = 0 /\ gui.op # "password"
  /\ disk["wallet"] >= passwordAt /\ Complete("backup")
  => disk["backup"] >= passwordAt

(* renameFile() is called only with a ".temp" file to rename: its          *)
(* Q_ASSERT(QFile::exists(_oldName)).                                      *)
RenameFindsTemp ==
  [][\A s \in Savers : savers[s].pc = "remove" /\ savers'[s].pc = "rename" => Exists("temp")]_vars

(* The wallet on disk is the wallet file or, between renameFile()'s remove *)
(* and its rename, the complete ".temp" file.                              *)
Stored == IF Complete("wallet") THEN disk["wallet"]
          ELSE IF ~Exists("wallet") /\ Complete("temp") THEN disk["temp"]
          ELSE Absent

File == INSTANCE WalletFile WITH made <- last, stored <- Stored

(* The wallet on disk is never lost and never goes back to an older        *)
(* version: the file protocol implements WalletFile.                       *)
WalletFileKept == File!Spec

(* A completed transaction's signal finds the wallet it is about: the      *)
(* Q_CHECK_PTR(m_wallet) of getTransaction().                              *)
SendDoneFindsWallet ==
  [][OnSendDone => wallet # "null"]_vars

(* close() and reset() come to their end: the wallet is deleted, unless    *)
(* the process dies first.                                                 *)
CloseEnds == gui.op \in EndOps ~> (wallet = "null" \/ ~up)

(* The mutex is not locked for ever.                                       *)
LockReleased == []<>(~mutex)
=============================================================================
