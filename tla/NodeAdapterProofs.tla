------------------------- MODULE NodeAdapterProofs -------------------------
(***************************************************************************)
(* How the node starts and stops: four facts about every order in which    *)
(* the GUI thread, the node's thread, the timer and the library act, with  *)
(* any amount of news and whatever is assumed.                             *)
(*                                                                         *)
(* The invariant says which node there is for each place of its thread     *)
(* (NodeOf), where the two threads can be at a time (Together), that who   *)
(* is told "completed" has a node (Started), what each loop may find in    *)
(* its queue (Events), and that news in the queue is news of a node that   *)
(* exists as long as the window's thread keeps to "quiet_stop"             *)
(* (NoLateNews).                                                           *)
(***************************************************************************)
EXTENDS NodeAdapter, TLAPS

(* The queue q holds the event e.                                          *)
Holds(q, e) == \E i \in DOMAIN q : q[i] = e

Daemon  == {"connectRpc", "waitRpc", "leaveRpc"}
Starts  == {"connectInit", "waitInit", "leaveInit"}
Stops   == {"connectStop", "waitStop", "join"}

(* The node there is, by where its thread is.                              *)
NodeOf ==
  /\ worker = "off" =>
       /\ m_node \in {"null", "rpc"}
       /\ nodes = IF m_node = "null" THEN {} ELSE {m_node}
  /\ worker \in {"init", "serve", "shutdown"} => m_node = "embedded" /\ nodes = {"embedded"}
  /\ worker = "nulling" => m_node = "embedded" /\ nodes = {}
  /\ worker \in {"called", "tell"} => m_node = "null" /\ nodes = {}
  /\ worker = "idle" => \/ m_node = "null" /\ nodes = {}
                        \/ m_node = "embedded" /\ nodes = {"embedded"}

(* Where the two threads can be at a time.                                 *)
Together ==
  /\ gui \in {"start", "ended"} => worker = "off" /\ m_node = "null"
  /\ gui \in Daemon => worker = "off" /\ m_node = "rpc"
  /\ gui \in Starts \union Stops => worker # "off"
  /\ gui \in {"start", "running"} \union Daemon \union Starts => ~stopAsked
  /\ gui = "running" => worker \in {"off", "serve", "idle"} /\ m_node # "null"
  /\ gui = "join" => worker = "idle" /\ m_node = "null"

(* A node that has started, or will be said to have, is there until its    *)
(* thread is told to stop.                                                 *)
Started ==
  /\ callback /\ ~stopAsked => worker \in {"serve", "idle"} /\ m_node = "embedded"
  /\ code = "ok" \/ Holds(queue, "completed") =>
       gui \in Starts /\ worker \in {"serve", "idle"} /\ m_node = "embedded"
  /\ gui = "leaveInit" => code # "none"

(* What each loop of the GUI thread may find in its queue.                 *)
Events ==
  /\ gui \in {"waitInit", "leaveInit"} => ~Holds(queue, "news") /\ ~Holds(queue, "deinitDone")
  /\ gui \in {"start", "connectRpc", "connectInit"} => queue = <<>>
  /\ Holds(queue, "deinitDone") => gui \in {"waitStop", "crash"} /\ worker = "idle" /\ m_node = "null"

(* With "quiet_stop" there is no news of a node that is gone.              *)
NoLateNews ==
  "quiet_stop" \in assumed =>
    /\ gui # "crash"
    /\ Holds(queue, "news") /\ gui # "ended" => m_node \in nodes

(* The inductive invariant.                                                *)
IInv == TypeOK /\ NodeOf /\ Together /\ Started /\ Events /\ NoLateNews

(* What is queued for the GUI thread.                                      *)
Event == {"news", "completed", "failed", "deinitDone"}

(* What a loop takes from its queue was there before.                      *)
LEMMA PopFacts ==
  ASSUME NEW q \in Seq(Event), q # <<>>
  PROVE  /\ Tail(q) \in Seq(Event)
         /\ Holds(q, Head(q)) /\ Head(q) \in Event
         /\ \A e \in Event : Holds(Tail(q), e) => Holds(q, e)
<1>1. Len(q) >= 1 /\ DOMAIN q = 1..Len(q) /\ DOMAIN Tail(q) = 1..(Len(q) - 1)
  OBVIOUS
<1>2. \A i \in DOMAIN Tail(q) : i + 1 \in DOMAIN q /\ Tail(q)[i] = q[i + 1]
  BY <1>1
<1> QED
  BY <1>1, <1>2 DEF Holds

(* What is posted to a queue is added to what was there.                   *)
LEMMA PostFacts ==
  ASSUME NEW q \in Seq(Event), NEW e \in Event
  PROVE  /\ Append(q, e) \in Seq(Event)
         /\ \A f \in Event : Holds(Append(q, e), f) <=> Holds(q, f) \/ f = e
<1>1. DOMAIN q = 1..Len(q) /\ DOMAIN Append(q, e) = 1..(Len(q) + 1) /\ Len(q) \in Nat
  OBVIOUS
<1>2. (\A i \in DOMAIN q : Append(q, e)[i] = q[i]) /\ Append(q, e)[Len(q) + 1] = e
  BY <1>1
<1> QED
  BY <1>1, <1>2 DEF Holds

(* Nothing is in an empty queue.                                           *)
LEMMA EmptyFacts == <<>> \in Seq(Event) /\ \A e : ~Holds(<<>>, e)
  BY DEF Holds

(* A signal of the thread adds itself where a loop waits for it, and       *)
(* nothing elsewhere.                                                      *)
LEMMA EmitFacts ==
  ASSUME queue \in Seq(Event), NEW ev \in {"completed", "failed", "deinitDone"}, Emits(ev)
  PROVE  /\ queue' \in Seq(Event)
         /\ \A f \in Event \ {ev} : Holds(queue', f) <=> Holds(queue, f)
         /\ Holds(queue', ev) <=> Holds(queue, ev) \/ Waiting(ev)
         /\ ~Waiting(ev) => queue' = queue
<1>1. ev \in Event
  BY DEF Event
<1> QED
  BY <1>1, PostFacts DEF Emits

(* IInv holds before init() runs.                                          *)
LEMMA IInvInit == Init => IInv
<1> SUFFICES ASSUME Init PROVE IInv
  OBVIOUS
<1> USE DEF Init
<1>1. \A e : ~Holds(queue, e)
  BY EmptyFacts
<1>2. TypeOK
  BY EmptyFacts DEF TypeOK, Event
<1>3. NodeOf /\ Together
  BY DEF NodeOf, Together, Daemon, Starts, Stops
<1>4. Started /\ Events /\ NoLateNews
  BY <1>1 DEF Started, Events, NoLateNews
<1> QED
  BY <1>2, <1>3, <1>4 DEF IInv

(* Every step of either thread keeps IInv.                                 *)
LEMMA IInvNext == IInv /\ [Next]_vars => IInv'
<1> SUFFICES ASSUME IInv, [Next]_vars PROVE IInv'
  OBVIOUS
<1>e. queue \in Seq(Event)
  BY DEF IInv, TypeOK, Event
<1> USE DEF IInv, TypeOK, NodeOf, Together, Started, Events, NoLateNews, Daemon, Starts,
            Stops, Event, fixed, loop, thread
<1>1. CASE InitEmbedded
  <2>1. queue' = <<>> /\ \A e : ~Holds(queue', e)
    BY <1>1, EmptyFacts DEF InitEmbedded
  <2> QED
    BY <1>1, <2>1 DEF InitEmbedded, StartEmbedded
<1>2. CASE InitRpc
  BY <1>e, <1>2 DEF InitRpc
<1>3. CASE ConnectRpc
  BY <1>e, <1>3 DEF ConnectRpc
<1>4. CASE TimerFires
  BY <1>e, <1>4 DEF TimerFires
<1>5. CASE RpcNews
  BY <1>e, <1>5, PopFacts DEF RpcNews
<1>6. CASE RpcLeaves
  <2>1. queue' = <<>> /\ queue' \in Seq(Event) /\ \A e : ~Holds(queue', e)
    BY <1>6, EmptyFacts DEF RpcLeaves, LeaveLoop
  <2>2. worker = "off" /\ m_node = "rpc" /\ nodes = {"rpc"} /\ ~stopAsked
    BY <1>6 DEF RpcLeaves
  <2>3. CASE timer \/ connection # "auto"
    <3>1. gui' = "running" /\ UNCHANGED <<m_node, nodes, thread>>
      BY <1>6, <2>3, Zenon DEF RpcLeaves
    <3> QED
      BY <1>6, <2>1, <2>2, <3>1 DEF RpcLeaves, LeaveLoop
  <2>4. CASE ~(timer \/ connection # "auto")
    <3>1. m_node' = "null" /\ nodes' = nodes \ {m_node} /\ StartEmbedded
      BY <1>6, <2>4, Zenon DEF RpcLeaves
    <3> QED
      BY <1>6, <2>1, <2>2, <3>1 DEF RpcLeaves, LeaveLoop, StartEmbedded
  <2> QED
    BY <2>3, <2>4
<1>7. CASE ConnectInit
  <2>1. \A e : ~Holds(queue', e)
    BY <1>7, EmptyFacts DEF ConnectInit
  <2> QED
    BY <1>7, <2>1 DEF ConnectInit
<1>8. CASE InitEvent
  BY <1>e, <1>8, PopFacts DEF InitEvent
<1>9. CASE InitLeaves
  <2>1. queue' = <<>> /\ queue' \in Seq(Event) /\ \A e : ~Holds(queue', e)
    BY <1>9, EmptyFacts DEF InitLeaves, LeaveLoop
  <2>2. \/ gui' = "failed"
        \/ gui' = "running" /\ worker \in {"serve", "idle"} /\ m_node = "embedded"
    <3>1. CASE code = "error"
      <4>1. gui' = "failed"
        BY <1>9, <3>1, Zenon DEF InitLeaves
      <4> QED
        BY <4>1
    <3>2. CASE code = "ok"
      <4>1. worker \in {"serve", "idle"} /\ m_node = "embedded" /\ m_node \in nodes
        BY <3>2
      <4>2. gui' = "running"
        BY <1>9, <3>2, <4>1 DEF InitLeaves
      <4> QED
        BY <4>1, <4>2
    <3> QED
      BY <1>9, <3>1, <3>2 DEF InitLeaves
  <2> QED
    BY <1>9, <2>1, <2>2 DEF InitLeaves, LeaveLoop
<1>10. CASE WindowNews
  BY <1>e, <1>10, PopFacts DEF WindowNews
<1>11. CASE Deinit
  BY <1>e, <1>11 DEF Deinit
<1>12. CASE ConnectStop
  BY <1>e, <1>12 DEF ConnectStop
<1>13. CASE StopEvent
  BY <1>e, <1>13, PopFacts, EmptyFacts DEF StopEvent, LeaveLoop
<1>14. CASE Join
  BY <1>e, <1>14 DEF Join
<1>15. CASE Create
  BY <1>e, <1>15, ZenonT(60) DEF Create, Alive
<1>16. CASE CoreInitFails
  BY <1>e, <1>16, EmitFacts DEF CoreInitFails, Waiting, Alive
<1>17. CASE CoreInit
  BY <1>e, <1>17 DEF CoreInit, Alive
<1>18. CASE InitCallback
  <2>1. PICK ev \in {"completed", "failed"} : Emits(ev)
    BY <1>18 DEF InitCallback
  <2>2. /\ queue' \in Seq(Event)
        /\ \A f \in Event \ {ev} : Holds(queue', f) <=> Holds(queue, f)
        /\ Holds(queue', ev) <=> Holds(queue, ev) \/ Waiting(ev)
        /\ ~Waiting(ev) => queue' = queue
    BY <1>e, <2>1, EmitFacts
  <2>3. Waiting(ev) => gui \in {"waitInit", "leaveInit"}
    BY <2>1 DEF Waiting
  <2>4. callback /\ callback' = FALSE /\ UNCHANGED <<m_node, nodes, gui, code, timer, worker,
                                                    stopAsked, news, connection, assumed>>
    BY <1>18 DEF InitCallback
  <2>5. Events'
    BY <2>2, <2>3, <2>4
  <2>6. Started'
    BY <2>2, <2>3, <2>4
  <2>7. NoLateNews'
    BY <2>2, <2>4
  <2>8. TypeOK'
    BY <2>2, <2>4, ZenonT(60) DEF Event
  <2>9. NodeOf' /\ Together'
    BY <2>4
  <2> QED
    BY <2>5, <2>6, <2>7, <2>8, <2>9
<1>19. CASE ServeThrows
  BY <1>e, <1>19, EmitFacts DEF ServeThrows, Waiting, Alive
<1>20. CASE ServeEnds
  BY <1>e, <1>20 DEF ServeEnds, Alive
<1>21. CASE DeleteNode
  BY <1>e, <1>21 DEF DeleteNode, Contains, Holds, Alive
<1>22. CASE NullNode
  BY <1>e, <1>22 DEF NullNode, Alive
<1>23. CASE Tell
  BY <1>e, <1>23, EmitFacts DEF Tell, Waiting, Alive
<1>24. CASE NodeNews
  BY <1>e, <1>24, PostFacts DEF NodeNews, Heard
<1>25. CASE UNCHANGED vars
  BY <1>25 DEF vars
<1> QED
  BY <1>1, <1>2, <1>3, <1>4, <1>5, <1>6, <1>7, <1>8, <1>9, <1>10, <1>11, <1>12, <1>13, <1>14,
     <1>15, <1>16, <1>17, <1>18, <1>19, <1>20, <1>21, <1>22, <1>23, <1>24, <1>25
  DEF Next, GuiStep, GuiWaits, WorkerStep

(* The two threads agree on the node, at any time.                         *)
THEOREM Invariance == Spec => []IInv
  BY IInvInit, IInvNext, PTL DEF Spec

(* Every variable keeps its type.                                          *)
THEOREM TypeCorrect == Spec => []TypeOK
<1>1. IInv => TypeOK
  BY DEF IInv
<1> QED
  BY <1>1, Invariance, PTL

(* m_node points to the only node there is, or to none and there is none,  *)
(* except between the two statements with which start() ends               *)
(* (InProcessNodeInitializer::start, NodeAdapter::init).                   *)
THEOREM OneNode == Spec => []NodeKnown
<1>1. IInv => NodeKnown
  BY DEF IInv, TypeOK, NodeOf, NodeKnown
<1> QED
  BY <1>1, Invariance, PTL

(* Who asks the node for its peers or blocks finds one, in init() and in   *)
(* the models, if the window has handled all news before the node goes.    *)
THEOREM Asked ==
  ASSUME "quiet_stop" \in Discipline
  PROVE  Spec => []NodeAtHand
<1>1. IInv => NodeAtHand
  BY DEF IInv, NoLateNews, NodeAtHand, Given
<1> QED
  BY <1>1, Invariance, PTL

(* When deinit() has returned the thread has been joined and the node      *)
(* deleted, however the node came to its end.                              *)
THEOREM Joined == Spec => []NoThreadLeft
<1>1. IInv => NoThreadLeft
  BY DEF IInv, NodeOf, Together, NoThreadLeft
<1> QED
  BY <1>1, Invariance, PTL
==============================================================================
