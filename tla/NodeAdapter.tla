---------------------------- MODULE NodeAdapter ----------------------------
(***************************************************************************)
(* How the node starts and stops: src/src/NodeAdapter.cpp, called from     *)
(* src/src/main.cpp, over src/src/CryptoNoteWrapper.cpp.                   *)
(*                                                                         *)
(* init() talks to a daemon, or starts the embedded node on a thread of    *)
(* its own and waits in an event loop for its signal; deinit() asks that   *)
(* thread to stop and waits in another.  A signal reaches a loop only if   *)
(* it is emitted after the loop was connected and handled while it runs.   *)
(* m_node is written by both threads.                                      *)
(***************************************************************************)
EXTENDS Integers, Sequences, SequencesExt

CONSTANTS
  MaxNews,      \* bound: news of peers and blocks from the nodes
  Discipline,   \* assumptions the properties rely on, see below
  Cases         \* what a behaviour may assume: sets of assumptions

(* What a run may take for granted and the code does not ensure.           *)
(*   "connect_first"  the embedded node's thread signals nothing before    *)
(*                    the loop that waits for it is connected              *)
(*   "quiet_stop"     the window has handled all news before the thread    *)
(*                    deletes the node                                     *)
(*   "node_starts"    the embedded node starts                             *)
(*   "node_lives"     it ends only when it is told to                      *)
Disciplines == {"connect_first", "quiet_stop", "node_starts", "node_lives"}

ASSUME NodeAssumption ==
  /\ MaxNews \in Nat
  /\ Discipline \subseteq Disciplines /\ Cases \subseteq SUBSET Disciplines

VARIABLES
  assumed,      \* the assumptions in force, chosen once
  connection,   \* the setting: "embedded", "local", "remote" or "auto"
  m_node,       \* what m_node points to: "null", "rpc", "embedded"
  nodes,        \* the node objects that exist
  gui,          \* where the GUI thread is: in init() "start", "connectRpc",
                \* "waitRpc", "leaveRpc", "connectInit", "waitInit",
                \* "leaveInit", then "running", in deinit() "connectStop",
                \* "waitStop", "join", and "ended", "failed", "crash"
  code,         \* what the loop returns: "none" while nobody left it
  timer,        \* initTimer.isActive()
  queue,        \* events for the GUI thread
  worker,       \* m_nodeInitializerThread: "off", "idle", and in start()
                \* "called", "init", "serve", "shutdown", "nulling", "tell"
  callback,     \* the library still has to call init()'s callback
  stopAsked,    \* sendStopSignal() was called
  news          \* bound: news emitted

fixed  == <<connection, assumed>>
loop   == <<code, queue>>
thread == <<worker, callback, stopAsked>>
vars   == <<fixed, m_node, nodes, gui, timer, loop, thread, news>>

Init ==
  /\ assumed \in Cases
  /\ connection \in {"embedded", "local", "remote", "auto"}
  /\ m_node = "null" /\ nodes = {}
  /\ gui = "start" /\ code = "none" /\ timer = FALSE /\ queue = <<>>
  /\ worker = "off" /\ callback = FALSE /\ stopAsked = FALSE
  /\ news = 0

-----------------------------------------------------------------------------
(* Signals.                                                                *)

(* Where the GUI thread is when a signal of the thread finds a receiver.   *)
Waiting(ev) ==
  gui \in IF ev = "deinitDone" THEN {"waitStop"} ELSE {"waitInit", "leaveInit"}

(* Mutant of connect(): a failure wakes nobody.                            *)
EmitsNoFailure(ev) ==
  queue' = IF Waiting(ev) /\ ev # "failed" THEN Append(queue, ev) ELSE queue

(* Emitted by the thread for the loop that waits: posted, or lost.         *)
Emits(ev) ==
  /\ "connect_first" \in assumed => gui \notin {"connectInit", "connectStop"}
  /\ queue' = IF Waiting(ev) THEN Append(queue, ev) ELSE queue

(* News reaches the RPC loop if there is one, and the window's models.     *)
Heard == gui \in {"waitRpc", "leaveRpc", "running", "connectStop", "waitStop"}

(* Events for a loop that is gone are dropped.                             *)
LeaveLoop == code' = "none" /\ queue' = <<>>

-----------------------------------------------------------------------------
(* The GUI thread: NodeAdapter::init().                                    *)

(* initInProcessNode() up to the signal that starts the node.              *)
StartEmbedded ==
  /\ gui' = "connectInit"
  /\ worker' = "called"
  /\ UNCHANGED <<callback, stopAsked>>

InitEmbedded ==
  /\ gui = "start" /\ connection = "embedded"
  /\ StartEmbedded
  /\ UNCHANGED <<fixed, m_node, nodes, loop, timer, news>>

(* A node that talks to a daemon, and a timer of three seconds.            *)
InitRpc ==
  /\ gui = "start" /\ connection # "embedded"
  /\ m_node' = "rpc" /\ nodes' = nodes \union {"rpc"}
  /\ timer' = TRUE
  /\ gui' = "connectRpc"
  /\ UNCHANGED <<fixed, loop, thread, news>>

ConnectRpc ==
  /\ gui = "connectRpc" /\ gui' = "waitRpc"
  /\ UNCHANGED <<fixed, m_node, nodes, loop, timer, thread, news>>

(* The timer's event, which may come in the same round as an event that    *)
(* has already left the loop.                                              *)
TimerFires ==
  /\ gui \in {"waitRpc", "leaveRpc"} /\ timer
  /\ timer' = FALSE /\ gui' = "leaveRpc"
  /\ UNCHANGED <<fixed, m_node, nodes, loop, thread, news>>

RpcNews ==
  /\ gui \in {"waitRpc", "leaveRpc"} /\ queue # <<>>
  /\ queue' = Tail(queue) /\ gui' = "leaveRpc"
  /\ UNCHANGED <<fixed, m_node, nodes, code, timer, thread, news>>

(* Mutants: the timer is not stopped; the node that did not answer is      *)
(* kept.                                                                   *)
RpcLeavesTimer ==
  /\ gui = "leaveRpc"
  /\ LeaveLoop /\ UNCHANGED timer
  /\ IF timer \/ connection # "auto"
     THEN gui' = "running" /\ UNCHANGED <<m_node, nodes, thread>>
     ELSE m_node' = "null" /\ nodes' = nodes \ {m_node} /\ StartEmbedded
  /\ UNCHANGED <<fixed, news>>
RpcLeavesKept ==
  /\ gui = "leaveRpc"
  /\ LeaveLoop /\ timer' = FALSE
  /\ IF timer \/ connection # "auto"
     THEN gui' = "running" /\ UNCHANGED <<m_node, nodes, thread>>
     ELSE m_node' = "null" /\ UNCHANGED nodes /\ StartEmbedded
  /\ UNCHANGED <<fixed, news>>

(* The loop returns: a daemon that answered within the time, or one that   *)
(* was asked for by name, is kept; the other is replaced by the embedded   *)
(* node.                                                                   *)
RpcLeaves ==
  /\ gui = "leaveRpc"
  /\ LeaveLoop /\ timer' = FALSE
  /\ IF timer \/ connection # "auto"
     THEN gui' = "running" /\ UNCHANGED <<m_node, nodes, thread>>
     ELSE m_node' = "null" /\ nodes' = nodes \ {m_node} /\ StartEmbedded
  /\ UNCHANGED <<fixed, news>>

ConnectInit ==
  /\ gui = "connectInit" /\ gui' = "waitInit"
  /\ UNCHANGED <<fixed, m_node, nodes, loop, timer, thread, news>>

(* initCompleted quits the loop, initFailed leaves it with the error; if   *)
(* both come in one round the later one counts.                            *)
InitEvent ==
  /\ gui \in {"waitInit", "leaveInit"} /\ queue # <<>>
  /\ code' = IF Head(queue) = "failed" THEN "error" ELSE "ok"
  /\ queue' = Tail(queue) /\ gui' = "leaveInit"
  /\ UNCHANGED <<fixed, m_node, nodes, timer, thread, news>>

(* main() returns when the node failed, and goes on to the window, its     *)
(* models and the event loop when it did not.                              *)
InitLeaves ==
  /\ gui = "leaveInit"
  /\ LeaveLoop
  /\ gui' = IF code = "error" THEN "failed"
            ELSE IF m_node \in nodes THEN "running" ELSE "crash"
  /\ UNCHANGED <<fixed, m_node, nodes, timer, thread, news>>

-----------------------------------------------------------------------------
(* The GUI thread: the window's models, and NodeAdapter::deinit() when the *)
(* application is about to quit.                                           *)

(* ConnectionsModel::refreshConnections() asks the node, by way of m_node, *)
(* in the main loop and in the one deinit() waits in.                      *)
WindowNews ==
  /\ gui \in {"running", "waitStop"} /\ queue # <<>> /\ Head(queue) = "news"
  /\ queue' = Tail(queue)
  /\ gui' = IF m_node \in nodes THEN gui ELSE "crash"
  /\ UNCHANGED <<fixed, m_node, nodes, code, timer, thread, news>>

(* Mutants: m_node is reset before its thread has stopped; the node is     *)
(* deleted and its thread left to itself.                                  *)
DeinitNulls ==
  /\ gui = "running"
  /\ m_node' = "null"
  /\ IF worker = "off"
     THEN nodes' = nodes \ {m_node} /\ gui' = "ended" /\ UNCHANGED stopAsked
     ELSE stopAsked' = TRUE /\ gui' = "connectStop" /\ UNCHANGED nodes
  /\ UNCHANGED <<fixed, loop, timer, worker, callback, news>>
DeinitDeletes ==
  /\ gui = "running"
  /\ m_node' = "null" /\ nodes' = nodes \ {m_node}
  /\ gui' = "ended" /\ UNCHANGED stopAsked
  /\ UNCHANGED <<fixed, loop, timer, worker, callback, news>>

Deinit ==
  /\ gui = "running"
  /\ IF worker = "off"
     THEN /\ m_node' = "null" /\ nodes' = nodes \ {m_node}
          /\ gui' = "ended" /\ UNCHANGED stopAsked
     ELSE /\ stopAsked' = TRUE
          /\ gui' = "connectStop" /\ UNCHANGED <<m_node, nodes>>
  /\ UNCHANGED <<fixed, loop, timer, worker, callback, news>>

ConnectStop ==
  /\ gui = "connectStop" /\ gui' = "waitStop"
  /\ UNCHANGED <<fixed, m_node, nodes, loop, timer, thread, news>>

StopEvent ==
  /\ gui = "waitStop" /\ queue # <<>> /\ Head(queue) = "deinitDone"
  /\ LeaveLoop
  /\ gui' = "join"
  /\ UNCHANGED <<fixed, m_node, nodes, timer, thread, news>>

(* quit() and wait(): the thread ends when its event loop has control.     *)
Join ==
  /\ gui = "join" /\ worker = "idle"
  /\ worker' = "off" /\ gui' = "ended"
  /\ UNCHANGED <<fixed, m_node, nodes, loop, timer, callback, stopAsked, news>>

-----------------------------------------------------------------------------
(* The node's thread: InProcessNodeInitializer::start().                   *)

Alive == gui \notin {"ended", "failed", "crash"}

Create ==
  /\ worker = "called" /\ Alive
  /\ worker' = "init"
  /\ m_node' = "embedded" /\ nodes' = nodes \union {"embedded"}
  /\ UNCHANGED <<fixed, gui, loop, timer, callback, stopAsked, news>>

(* InprocessNode::init(): the core or the server does not initialise, the  *)
(* callback is told, and start() goes on to delete the node.               *)
CoreInitFails ==
  /\ worker = "init" /\ Alive
  /\ "node_starts" \notin assumed
  /\ Emits("failed")
  /\ worker' = "shutdown"
  /\ UNCHANGED <<fixed, m_node, nodes, gui, code, timer, callback, stopAsked, news>>

(* They do, and the library's node is asked to start.                      *)
CoreInit ==
  /\ worker = "init" /\ Alive
  /\ worker' = "serve" /\ callback' = TRUE
  /\ UNCHANGED <<fixed, m_node, nodes, gui, loop, timer, stopAsked, news>>

(* The library calls back from a thread of its own.                        *)
InitCallback ==
  /\ callback /\ Alive
  /\ callback' = FALSE
  /\ \/ Emits("completed")
     \/ "node_starts" \notin assumed /\ Emits("failed")
  /\ UNCHANGED <<fixed, m_node, nodes, gui, code, timer, worker, stopAsked, news>>

(* A runtime_error leaves start(): the node is not deleted.                *)
ServeThrows ==
  /\ worker = "serve" /\ Alive
  /\ "node_lives" \notin assumed
  /\ Emits("failed")
  /\ worker' = "idle"
  /\ UNCHANGED <<fixed, m_node, nodes, gui, code, timer, callback, stopAsked, news>>

(* run() returns once stop was asked, before or after it was called.       *)
ServeEnds ==
  /\ worker = "serve" /\ stopAsked /\ Alive
  /\ worker' = "shutdown"
  /\ UNCHANGED <<fixed, m_node, nodes, gui, loop, timer, callback, stopAsked, news>>

DeleteNode ==
  /\ worker = "shutdown" /\ Alive
  /\ "quiet_stop" \in assumed => ~Contains(queue, "news")
  /\ worker' = "nulling"
  /\ nodes' = nodes \ {"embedded"}
  /\ UNCHANGED <<fixed, m_node, gui, loop, timer, callback, stopAsked, news>>

NullNode ==
  /\ worker = "nulling" /\ Alive
  /\ worker' = "tell"
  /\ m_node' = "null"
  /\ UNCHANGED <<fixed, nodes, gui, loop, timer, callback, stopAsked, news>>

Tell ==
  /\ worker = "tell" /\ Alive
  /\ Emits("deinitDone")
  /\ worker' = "idle"
  /\ UNCHANGED <<fixed, m_node, nodes, gui, code, timer, callback, stopAsked, news>>

(* A node tells of peers and blocks until it has shut down.                *)
NodeNews ==
  /\ Heard /\ news < MaxNews
  /\ \/ "rpc" \in nodes
     \/ "embedded" \in nodes /\ worker \in {"serve", "shutdown"}
  /\ news' = news + 1
  /\ queue' = Append(queue, "news")
  /\ UNCHANGED <<fixed, m_node, nodes, gui, code, timer, thread>>

GuiWaits == ConnectRpc \/ RpcNews \/ RpcLeaves \/ ConnectInit \/ InitEvent \/ InitLeaves
            \/ WindowNews \/ ConnectStop \/ StopEvent \/ Join
GuiStep == InitEmbedded \/ InitRpc \/ GuiWaits

WorkerStep == Create \/ CoreInitFails \/ CoreInit \/ ServeEnds \/ DeleteNode
              \/ NullNode \/ Tell

Next == GuiStep \/ TimerFires \/ Deinit \/ WorkerStep \/ InitCallback \/ ServeThrows
        \/ NodeNews

Spec == Init /\ [][Next]_vars

(* The two threads are scheduled, the timer runs, and the library calls    *)
(* back; nobody has to quit, and no node has news or throws.               *)
FairSpec ==
  Spec /\ WF_vars(GuiStep) /\ WF_vars(TimerFires) /\ WF_vars(WorkerStep)
       /\ WF_vars(InitCallback)

-----------------------------------------------------------------------------
(* Every variable has a value of its type, and the timer runs only while a *)
(* daemon is waited for.                                                   *)
TypeOK ==
  /\ connection \in {"embedded", "local", "remote", "auto"}
  /\ m_node \in {"null", "rpc", "embedded"} /\ nodes \subseteq {"rpc", "embedded"}
  /\ gui \in {"start", "connectRpc", "waitRpc", "leaveRpc", "connectInit", "waitInit",
              "leaveInit", "running", "connectStop", "waitStop", "join", "ended",
              "failed", "crash"}
  /\ code \in {"none", "ok", "error"} /\ timer \in BOOLEAN
  /\ timer => gui \in {"connectRpc", "waitRpc", "leaveRpc"}
  /\ queue \in Seq({"news", "completed", "failed", "deinitDone"})
  /\ worker \in {"off", "called", "init", "serve", "shutdown", "nulling", "tell", "idle"}
  /\ callback \in BOOLEAN /\ stopAsked \in BOOLEAN /\ news \in Nat

(* No node is lost, and m_node points to none that is gone, except between *)
(* the two statements that delete the embedded one: init() that tries a    *)
(* daemon before the embedded node never leaves the first one behind.      *)
NodeKnown ==
  nodes = IF m_node = "null" \/ worker = "nulling" THEN {} ELSE {m_node}

(* The assumptions in force are those the property relies on.              *)
Given == Discipline \subseteq assumed

(* Whoever asks the node finds one: Q_CHECK_PTR(m_node) of the getters,    *)
(* for init() itself and for the models that ask when news arrives.        *)
NodeAtHand == Given => gui # "crash"

(* The application that quits leaves neither the node nor its thread: a    *)
(* QThread that is destroyed while it runs ends the process.               *)
NoThreadLeft == gui = "ended" => worker = "off" /\ nodes = {}

(* init() returns, whether the node answers, times out, starts or fails.   *)
StartEnds == gui = "start" ~> gui \in {"running", "failed"}

(* deinit() returns when the node has started and lives.                   *)
ExitEnds == Given /\ gui = "connectStop" ~> gui = "ended"

(* What the GUI thread waits for comes: start and exit both end.           *)
WaitsEnd == StartEnds /\ ExitEnds
=============================================================================
