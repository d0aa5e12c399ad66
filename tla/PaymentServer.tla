--------------------------- MODULE PaymentServer ---------------------------
(***************************************************************************)
(* How a clicked payment link reaches the window: src/src/PaymentServer.cpp*)
(* and the start of src/src/main.cpp.                                      *)
(*                                                                         *)
(* Every link starts the program anew.  A new process tries to hand its    *)
(* links to one that listens on a local socket and ends; if it cannot, it  *)
(* becomes the server itself, takes the lock file and shows the links when *)
(* its window is ready.  The socket is a name in the file system, which    *)
(* any process may remove; the lock is taken only after the socket.        *)
(***************************************************************************)
EXTENDS Integers, Sequences, SequencesExt

CONSTANTS
  Instances,     \* processes, each started once
  None,          \* no process
  MaxRequests,   \* bound: links clicked
  MaxLinks,      \* bound: links on one command line
  Discipline,    \* assumptions the properties rely on, see below
  Cases          \* what a behaviour may assume: sets of assumptions

(* What a run may take for granted and the code does not ensure.           *)
(*   "with_link"     while the wallet runs, it is started again only by a  *)
(*                   link                                                  *)
(*   "alone"         no process is started while another is on its way to  *)
(*                   the lock, or on its way out                           *)
(*   "ends_idle"     the wallet ends, or is killed, only when it holds no  *)
(*                   request and nobody is sending one                     *)
(*   "client_lives"  a process is not killed while it sends its requests   *)
Disciplines == {"with_link", "alone", "ends_idle", "client_lives"}

ASSUME PaymentAssumption ==
  /\ None \notin Instances
  /\ MaxRequests \in Nat /\ MaxLinks \in Nat
  /\ Discipline \subseteq Disciplines /\ Cases \subseteq SUBSET Disciplines

VARIABLES
  assumed,     \* the assumptions in force, chosen once
  pc,          \* where main() is: "off", sending "send", "write", starting
               \* "remove", "listen", "lock", "init", in its event loop
               \* "loop", or in that of a message box "refused", on its way
               \* out "quitting", "unlock", "close", and "ended"
  sent,        \* requests of its command line it has sent
  saved,       \* savedPaymentRequests
  saveURIs,    \* saveURIs
  inbox,       \* connections its server has not handled: <<request, written>>
  reading,     \* handleURIConnection() waits for the head of inbox
  queue,       \* receivedURI signals posted to the window
  listening,   \* the processes whose QLocalServer is open
  file,        \* the process that bound the socket file, None without a file
  lock,        \* the process that made the lock file
  asked,       \* links clicked: the requests are 1..asked
  taken,       \* history: requests each process took on itself, in order
  shown        \* history: requests its window was told of

vars == <<assumed, pc, sent, saved, saveURIs, inbox, reading, queue, listening, file,
          lock, asked, taken, shown>>
history == <<asked, taken, shown>>
places  == <<listening, file, lock>>

Init ==
  /\ assumed \in Cases
  /\ pc = [i \in Instances |-> "off"] /\ sent = [i \in Instances |-> 0]
  /\ saved = [i \in Instances |-> <<>>] /\ queue = [i \in Instances |-> <<>>]
  /\ saveURIs = [i \in Instances |-> TRUE]
  /\ inbox = [i \in Instances |-> <<>>]
  /\ reading = [i \in Instances |-> FALSE]
  /\ listening = {} /\ file = None /\ lock = None
  /\ asked = 0
  /\ taken = [i \in Instances |-> <<>>] /\ shown = [i \in Instances |-> <<>>]

Goes(i, from, to) == pc[i] = from /\ pc' = [pc EXCEPT ![i] = to]

(* A connection gets through: the file leads to a server that is open.     *)
Reachable == file \in listening

Sending(i) == pc[i] \in {"send", "write"}

(* The wallet is up, or nearly: it has the lock and a loop runs.           *)
Running(i) == pc[i] \in {"init", "loop"}

(* i handles events, in exec() or in a nested loop, and is not stuck.      *)
Handles(i) == pc[i] \in {"init", "refused", "loop", "quitting"} /\ ~reading[i]

-----------------------------------------------------------------------------
(* Start-up: PaymentServer::ipcSendCommandLine() and the constructor.      *)

(* The program is started with n links.                                    *)
Start(i, n) ==
  /\ n <= MaxRequests - asked
  /\ ("with_link" \in assumed /\ n = 0) => \A j \in Instances : ~Running(j)
  /\ "alone" \in assumed =>
       \A j \in Instances : \/ pc[j] \in {"off", "init", "loop", "ended"}
                            \/ (Sending(j) /\ Reachable)
  /\ Goes(i, "off", "send")
  /\ saved' = [saved EXCEPT ![i] = [k \in 1..n |-> asked + k]]
  /\ asked' = asked + n
  /\ UNCHANGED <<assumed, sent, saveURIs, inbox, reading, queue, places, taken, shown>>

(* waitForConnected(): the next request gets a connection.                 *)
Connect(i) ==
  /\ sent[i] < Len(saved[i]) /\ Reachable
  /\ Goes(i, "send", "write")
  /\ inbox' = [inbox EXCEPT ![file] = Append(@, <<saved[i][sent[i] + 1], FALSE>>)]
  /\ UNCHANGED <<assumed, sent, saved, saveURIs, reading, queue, places, history>>

(* write(), disconnectFromServer(); nobody may be there to read.           *)
Write(i) ==
  /\ Goes(i, "write", "send")
  /\ LET r == saved[i][sent[i] + 1]
     IN inbox' = [j \in Instances |->
                   [k \in DOMAIN inbox[j] |->
                     IF inbox[j][k][1] = r THEN <<r, TRUE>> ELSE inbox[j][k]]]
  /\ sent' = [sent EXCEPT ![i] = @ + 1]
  /\ UNCHANGED <<assumed, saved, saveURIs, reading, queue, places, history>>

(* All were sent, fResult is true: exit(0).                                *)
AllSent(i) ==
  /\ saved[i] # <<>> /\ sent[i] = Len(saved[i])
  /\ Goes(i, "send", "ended")
  /\ UNCHANGED <<assumed, sent, saved, saveURIs, inbox, reading, queue, places, history>>

(* Nothing to send, or no connection: return false.  All that was saved is *)
(* still there, also what an earlier round of the loop has sent.           *)
StartsUp(i) ==
  /\ saved[i] = <<>> \/ (sent[i] < Len(saved[i]) /\ ~Reachable)
  /\ Goes(i, "send", "remove")
  /\ taken' = [taken EXCEPT ![i] = saved[i]]
  /\ UNCHANGED <<assumed, sent, saved, saveURIs, inbox, reading, queue, places, asked, shown>>

(* Mutant of RemoveServer: the socket left by a crash stays.               *)
RemoveServerNot(i) ==
  /\ Goes(i, "remove", "listen")
  /\ UNCHANGED <<assumed, sent, saved, saveURIs, inbox, reading, queue, places, history>>

(* QLocalServer::removeServer(): the name, whoever bound it.               *)
RemoveServer(i) ==
  /\ Goes(i, "remove", "listen")
  /\ file' = None
  /\ UNCHANGED <<assumed, sent, saved, saveURIs, inbox, reading, queue, listening, lock, history>>

(* listen(): fails, and is only logged, when the name is taken again.      *)
Listen(i) ==
  /\ Goes(i, "listen", "lock")
  /\ IF file = None
     THEN file' = i /\ listening' = listening \union {i}
     ELSE UNCHANGED <<file, listening>>
  /\ UNCHANGED <<assumed, sent, saved, saveURIs, inbox, reading, queue, lock, history>>

-----------------------------------------------------------------------------
(* main(): the lock, the node, the event loop.                             *)

(* Mutant of TryLock: a lock found is taken for a stale one.               *)
TryLockAnyway(i) ==
  /\ Goes(i, "lock", "init")
  /\ lock' = i
  /\ UNCHANGED <<assumed, sent, saved, saveURIs, inbox, reading, queue, listening, file, history>>

(* tryLock(): a lock of a process that is gone is taken over.              *)
TryLock(i) ==
  /\ pc[i] = "lock"
  /\ IF lock = None \/ pc[lock] = "ended"
     THEN lock' = i /\ pc' = [pc EXCEPT ![i] = "init"]
     ELSE lock' = lock /\ pc' = [pc EXCEPT ![i] = "refused"]
  /\ UNCHANGED <<assumed, sent, saved, saveURIs, inbox, reading, queue, listening, file, history>>

(* The node started, the window is shown, receivedURI is connected.        *)
NodeUp(i) ==
  /\ Handles(i) /\ Goes(i, "init", "loop")
  /\ UNCHANGED <<assumed, sent, saved, saveURIs, inbox, reading, queue, places, history>>

(* Mutant of UiReady: the flag is not cleared.                             *)
UiReadySaving(i) ==
  /\ Handles(i) /\ pc[i] \in {"loop", "quitting"} /\ saveURIs[i] /\ saved[i] # <<>>
  /\ queue' = [queue EXCEPT ![i] = @ \o saved[i]]
  /\ UNCHANGED <<assumed, pc, sent, saved, saveURIs, inbox, reading, places, history>>

(* Mutant of UiReady: the list is cleared first.                           *)
UiReadyClears(i) ==
  /\ Handles(i) /\ pc[i] \in {"loop", "quitting"} /\ saveURIs[i]
  /\ saveURIs' = [saveURIs EXCEPT ![i] = FALSE]
  /\ saved' = [saved EXCEPT ![i] = <<>>]
  /\ UNCHANGED <<assumed, pc, sent, inbox, reading, queue, places, history>>

(* uiReady(), by the timer started just before exec().                     *)
UiReady(i) ==
  /\ Handles(i) /\ pc[i] \in {"loop", "quitting"} /\ saveURIs[i]
  /\ saveURIs' = [saveURIs EXCEPT ![i] = FALSE]
  /\ queue' = [queue EXCEPT ![i] = @ \o saved[i]]
  /\ saved' = [saved EXCEPT ![i] = <<>>]
  /\ UNCHANGED <<assumed, pc, sent, inbox, reading, places, history>>

(* MainWindow::handlePaymentRequest(), a queued call.                      *)
Show(i) ==
  /\ Handles(i) /\ queue[i] # <<>>
  /\ shown' = [shown EXCEPT ![i] = Append(@, Head(queue[i]))]
  /\ queue' = [queue EXCEPT ![i] = Tail(@)]
  /\ UNCHANGED <<assumed, pc, sent, saved, saveURIs, inbox, reading, places, asked, taken>>

-----------------------------------------------------------------------------
(* Requests arrive.                                                        *)

(* Mutant of Receive: posted to the window before it is connected.         *)
ReceiveAtOnce(i, r) ==
  /\ taken' = [taken EXCEPT ![i] = Append(@, r)]
  /\ queue' = [queue EXCEPT ![i] = Append(@, r)] /\ saved' = saved

(* Mutant of Receive: kept, also when the window is ready.                 *)
ReceiveSaves(i, r) ==
  /\ taken' = [taken EXCEPT ![i] = Append(@, r)]
  /\ saved' = [saved EXCEPT ![i] = Append(@, r)] /\ queue' = queue

(* Kept until the window is ready, posted to it after.                     *)
Receive(i, r) ==
  /\ taken' = [taken EXCEPT ![i] = Append(@, r)]
  /\ IF saveURIs[i]
     THEN saved' = [saved EXCEPT ![i] = Append(@, r)] /\ queue' = queue
     ELSE queue' = [queue EXCEPT ![i] = Append(@, r)] /\ saved' = saved

(* newConnection: handleURIConnection() begins to wait for four bytes.     *)
TakeConnection(i) ==
  /\ Handles(i) /\ inbox[i] # <<>>
  /\ reading' = [reading EXCEPT ![i] = TRUE]
  /\ UNCHANGED <<assumed, pc, sent, saved, saveURIs, inbox, queue, places, history>>

(* Mutant of ReadRequest: the handler does not return.                     *)
ReadRequestAgain(i) ==
  /\ pc[i] # "ended" /\ reading[i] /\ Head(inbox[i])[2]
  /\ inbox' = [inbox EXCEPT ![i] = Tail(@)]
  /\ Receive(i, Head(inbox[i])[1])
  /\ UNCHANGED <<assumed, pc, sent, saveURIs, reading, places, asked, shown>>

(* They are there.                                                         *)
ReadRequest(i) ==
  /\ pc[i] # "ended" /\ reading[i] /\ Head(inbox[i])[2]
  /\ reading' = [reading EXCEPT ![i] = FALSE]
  /\ inbox' = [inbox EXCEPT ![i] = Tail(@)]
  /\ Receive(i, Head(inbox[i])[1])
  /\ UNCHANGED <<assumed, pc, sent, saveURIs, places, asked, shown>>

(* eventFilter(): macOS hands a link to the process that runs.             *)
FileOpen(i) ==
  /\ Handles(i) /\ asked < MaxRequests
  /\ "with_link" \in assumed => pc[i] \in {"init", "loop"}
  /\ asked' = asked + 1
  /\ Receive(i, asked + 1)
  /\ UNCHANGED <<assumed, pc, sent, saveURIs, inbox, reading, places, shown>>

-----------------------------------------------------------------------------
(* The end.                                                                *)

(* i holds requests, or one is being sent.                                 *)
Busy(i) == \/ saved[i] # <<>> \/ queue[i] # <<>> \/ inbox[i] # <<>>
           \/ \E j \in Instances : Sending(j)

MayEnd(i) == "ends_idle" \in assumed => ~Busy(i)

(* quit(): aboutToQuit waits for the node in an event loop.                *)
Quit(i) ==
  /\ Handles(i) /\ MayEnd(i) /\ Goes(i, "loop", "quitting")
  /\ UNCHANGED <<assumed, sent, saved, saveURIs, inbox, reading, queue, places, history>>

(* exec() returns, or the node did not start: return 0.                    *)
Return(i) ==
  /\ Handles(i) /\ MayEnd(i) /\ pc[i] \in {"init", "quitting"}
  /\ pc' = [pc EXCEPT ![i] = "unlock"]
  /\ UNCHANGED <<assumed, sent, saved, saveURIs, inbox, reading, queue, places, history>>

(* ~QLockFile(), before ~QApplication() as it was declared after it.       *)
Unlock(i) ==
  /\ Goes(i, "unlock", "close")
  /\ lock' = None
  /\ UNCHANGED <<assumed, sent, saved, saveURIs, inbox, reading, queue, listening, file, history>>

(* The message box is closed: return 0.                                    *)
Dismiss(i) ==
  /\ Handles(i) /\ Goes(i, "refused", "close")
  /\ UNCHANGED <<assumed, sent, saved, saveURIs, inbox, reading, queue, places, history>>

(* ~QLocalServer(): an open server removes the name, whoever bound it.     *)
Close(i) ==
  /\ Goes(i, "close", "ended")
  /\ IF i \in listening
     THEN listening' = listening \ {i} /\ file' = None
     ELSE UNCHANGED <<listening, file>>
  /\ UNCHANGED <<assumed, sent, saved, saveURIs, inbox, reading, queue, lock, history>>

(* The process is killed: its socket file and lock file stay.              *)
Crash(i) ==
  /\ pc[i] \notin {"off", "ended"}
  /\ IF Sending(i) THEN "client_lives" \notin assumed ELSE MayEnd(i)
  /\ pc' = [pc EXCEPT ![i] = "ended"]
  /\ listening' = listening \ {i}
  /\ UNCHANGED <<assumed, sent, saved, saveURIs, inbox, reading, queue, file, lock, history>>

-----------------------------------------------------------------------------
StartAny(i) == \E n \in 0..MaxLinks : Start(i, n)

Main(i) ==
  \/ Connect(i) \/ Write(i) \/ AllSent(i) \/ StartsUp(i) \/ RemoveServer(i)
  \/ Listen(i) \/ TryLock(i) \/ NodeUp(i) \/ UiReady(i) \/ Show(i)
  \/ TakeConnection(i) \/ ReadRequest(i) \/ Unlock(i) \/ Dismiss(i) \/ Close(i)

Next == \E i \in Instances :
  StartAny(i) \/ Main(i) \/ FileOpen(i) \/ Quit(i) \/ Return(i) \/ Crash(i)

Spec == Init /\ [][Next]_vars

(* A process goes on, its event loop handles every event in the end, the   *)
(* node starts (NodeAdapter) and the user closes the message box.  Nobody  *)
(* must click, quit or crash.                                              *)
FairSpec ==
  /\ Spec
  /\ \A i \in Instances :
       /\ WF_vars(Connect(i) \/ Write(i) \/ AllSent(i) \/ StartsUp(i)
                    \/ RemoveServer(i) \/ Listen(i) \/ TryLock(i) \/ NodeUp(i))
       /\ WF_vars(UiReady(i)) /\ WF_vars(Show(i))
       /\ WF_vars(TakeConnection(i)) /\ WF_vars(ReadRequest(i))
       /\ WF_vars(Unlock(i) \/ Dismiss(i) \/ Close(i))

-----------------------------------------------------------------------------
(* Properties.                                                             *)

(* The variables have their types, requests are waited for only when there *)
(* is a connection, and only an open server has one.                       *)
TypeOK ==
  /\ pc \in [Instances -> {"off", "send", "write", "remove", "listen", "lock",
                           "init", "loop", "refused", "quitting", "unlock",
                           "close", "ended"}]
  /\ \A i \in Instances :
       /\ {saved[i], queue[i], taken[i], shown[i]} \subseteq Seq(1..asked)
       /\ inbox[i] \in Seq((1..asked) \X BOOLEAN)
       /\ sent[i] \in 0..asked
       /\ reading[i] => inbox[i] # <<>>
  /\ saveURIs \in [Instances -> BOOLEAN] /\ reading \in [Instances -> BOOLEAN]
  /\ listening \subseteq Instances
  /\ file \in Instances \union {None} /\ lock \in Instances \union {None}
  /\ asked \in 0..MaxRequests

(* The assumptions in force are those the property relies on.              *)
Given == Discipline \subseteq assumed

(* r is with a process that may still show it or hand it on.               *)
Held(r) == \E i \in Instances :
  /\ pc[i] # "ended"
  /\ \/ r \in ToSet(saved[i]) \union ToSet(queue[i])
     \/ \E c \in ToSet(inbox[i]) : c[1] = r

(* No link is lost: of those clicked, each is held by a process that runs, *)
(* or was shown.                                                           *)
NothingLost == Given => \A r \in 1..asked :
  Held(r) \/ \E i \in Instances : r \in ToSet(shown[i])

(* No link is shown twice, in one window or in two.                        *)
ShownOnce ==
  Given => \A i, j \in Instances :
    \A k \in DOMAIN shown[i], l \in DOMAIN shown[j] :
      shown[i][k] = shown[j][l] => i = j /\ k = l

(* A window is told of the requests in the order its process took them,    *)
(* those that came before it was ready first.                              *)
InOrder == \A i \in Instances : IsPrefix(shown[i], taken[i])

(* A wallet that runs can be reached by the next link: the name leads to   *)
(* its own server.                                                         *)
WalletReachable == Given => \A i \in Instances : Running(i) => file = i /\ i \in listening

(* Two processes never have the wallet's files at once, however they start *)
(* and end.                                                                *)
OneWallet == \A i, j \in Instances :
  {pc[i], pc[j]} \subseteq {"init", "loop", "quitting"} => i = j

(* The wallet that waits for a client's bytes gets them: the handler of the *)
(* connection runs on the GUI thread and loops until they come.             *)
HandlerReturns == \A i \in Instances : reading[i] ~> ~reading[i] \/ pc[i] = "ended"

(* A link that was written to a process, or that one took on itself, is    *)
(* shown.                                                                  *)
Arrived(r) == \E i \in Instances :
  pc[i] # "ended" /\ (r \in ToSet(saved[i]) \/ <<r, TRUE>> \in ToSet(inbox[i]))

EachShown == \A r \in 1..MaxRequests :
  Given /\ Arrived(r) ~> \E i \in Instances : r \in ToSet(shown[i])
=============================================================================
