----------------------- MODULE PaymentServerDelivery -----------------------
(***************************************************************************)
(* What becomes of the links, and of the socket they come by, for any set  *)
(* of processes, any number of links and any timing.                       *)
(*                                                                         *)
(* A request is at any time in one place: with the process that still has  *)
(* to send it, with one whose connection it came by, or taken by one,      *)
(* which is shown, posted or kept (PaymentServerProofs).  It is in no      *)
(* second place (Once) and, when no sender is killed, in one (Somewhere).  *)
(* This rests on the wallet being the only process that is up, with the    *)
(* socket's name leading to it while there is somebody who sends (Alone),  *)
(* and on what a process that ends leaves behind (Left).                   *)
(***************************************************************************)
EXTENDS PaymentServerProofs

(* i is past the hand-over of its links and has not ended.                 *)
Up(i) == pc[i] \in {"remove", "listen", "lock", "refused", "init", "loop", "quitting",
                    "unlock", "close"}

(* The assumptions under which there is one wallet at a time.              *)
Orderly == {"with_link", "alone", "ends_idle"} \subseteq assumed

(* The number of its requests i has got a connection for, and the ones     *)
(* that it still has to send.                                              *)
Begun(i) == sent[i] + (IF pc[i] = "write" THEN 1 ELSE 0)
Unsent(i, k) == Sending(i) /\ k \in DOMAIN saved[i] /\ k > Begun(i)

(* One process is up, and others send only when it is the wallet; those    *)
(* have requests, and it can be reached.  Until then there is one sender.  *)
Alone ==
  /\ \A i, j \in Instances : Up(i) /\ Up(j) => i = j
  /\ \A i, j \in Instances : Up(i) /\ Sending(j) => Running(i) /\ saved[j] # <<>>
  /\ \A i, j \in Instances : Sending(i) /\ Sending(j) => i = j \/ Reachable
  /\ \A i \in Instances : pc[i] = "listen" => file = None
  /\ \A i \in Instances : pc[i] \in {"lock", "init", "loop"} => file = i /\ i \in listening
  /\ \A i \in listening : Up(i) /\ pc[i] \notin {"remove", "listen"}
  /\ \A i \in Instances : pc[i] # "refused"
  /\ \A i \in Instances : lock = i => HasLock(i) \/ pc[i] = "ended"
  /\ \A i \in Instances : Sending(i) /\ Begun(i) > 0 => Reachable

(* How far a process that sends has come.                                  *)
Bounds ==
  \A i \in Instances :
    /\ pc[i] = "off" => sent[i] = 0
    /\ Early(i) => Len(saved[i]) <= asked
    /\ pc[i] = "write" => sent[i] < Len(saved[i])

(* The request r is in a place of the kind x of the process i, the k-th.   *)
Kinds == {"unsent", "inbox", "taken"}
At(x, i, k, r) ==
  \/ x = "unsent" /\ Unsent(i, k) /\ saved[i][k] = r
  \/ x = "inbox" /\ k \in DOMAIN inbox[i] /\ inbox[i][k][1] = r
  \/ x = "taken" /\ k \in DOMAIN taken[i] /\ taken[i][k] = r

(* No request is in two places, and each is in one.                        *)
Once ==
  \A x, y \in Kinds, i, j \in Instances, k, l, r \in Nat :
    At(x, i, k, r) /\ At(y, j, l, r) => x = y /\ i = j /\ k = l
Somewhere ==
  \A r \in 1..asked : \E x \in Kinds, i \in Instances, k \in Nat : At(x, i, k, r)

(* A process that has not started or has ended has no connection, and has  *)
(* shown what it took; one on its way out has nothing left.                *)
Left ==
  /\ \A i \in Instances : Early(i) \/ pc[i] = "ended" => inbox[i] = <<>> /\ taken[i] = shown[i]
  /\ \A i \in Instances : pc[i] \in {"unlock", "close"} =>
       saved[i] = <<>> /\ queue[i] = <<>> /\ inbox[i] = <<>>

AloneInv == Orderly => Alone

(* AloneInv holds before any process was started.                          *)
LEMMA AloneInit == Init => AloneInv
  BY PaymentAssumption
  DEF Init, AloneInv, Alone, Up, Sending, Running, HasLock, Inside, Begun, Reachable

(* Every step keeps AloneInv.                                              *)
LEMMA AloneNext == LockInv /\ OrderInv /\ Bounds /\ AloneInv /\ [Next]_vars => AloneInv'
<1> SUFFICES ASSUME LockInv, OrderInv, Bounds, AloneInv, [Next]_vars, Orderly'
             PROVE  Alone'
  BY DEF AloneInv
<1> USE PaymentAssumption
<1>0. /\ pc \in [Instances -> Places] /\ listening \subseteq Instances
      /\ lock \in Instances \union {None}
      /\ sent \in [Instances -> Nat] /\ saved \in [Instances -> Seq(Nat)]
      /\ \A i \in Instances : pc[i] = "off" => sent[i] = 0
  BY DEF LockInv, OrderInv, OrderTypes, Bounds
<1>1. CASE UNCHANGED vars
  <2>1. Orderly
    BY <1>1 DEF vars, Orderly
  <2> QED
    BY <1>1, <2>1 DEF vars, places, AloneInv, Alone, Up, Sending, Running, HasLock, Inside, Begun,
       Reachable
<1>2. ASSUME NEW i \in Instances,
             StartAny(i) \/ Main(i) \/ FileOpen(i) \/ Quit(i) \/ Return(i) \/ Crash(i)
      PROVE  Alone'
  <2>0. Orderly /\ Alone
    BY <1>2 DEF Orderly, AloneInv, Main, StartAny, Start, Connect, Write, AllSent, StartsUp,
       RemoveServer, Listen, TryLock, NodeUp, UiReady, Show, TakeConnection, ReadRequest, Unlock,
       Dismiss, Close, FileOpen, Quit, Return, Crash
  <2> USE DEF Alone, Up, Sending, Running, HasLock, Inside, Begun, Reachable, Places
  <2>1. CASE StartAny(i)
    <3>1. PICK n \in 0..MaxLinks : Start(i, n)
      BY <2>1 DEF StartAny
    <3>2. /\ pc[i] = "off" /\ pc' = [pc EXCEPT ![i] = "send"]
          /\ saved' = [saved EXCEPT ![i] = [k \in 1..n |-> asked + k]]
          /\ n = 0 => \A j \in Instances : ~Running(j)
          /\ \A j \in Instances : \/ pc[j] \in {"off", "init", "loop", "ended"}
                                  \/ (Sending(j) /\ Reachable)
          /\ UNCHANGED <<sent, listening, file, lock>>
      BY <2>0, <3>1, Zenon DEF Start, Goes, places, Orderly
    <3>3. ASSUME n # 0 PROVE saved'[i] # <<>>
      <4>1. saved'[i] = [k \in 1..n |-> asked + k] /\ 1 \in 1..n
        BY <1>0, <3>2, <3>3
      <4>2. 1 \in DOMAIN saved'[i]
        BY <4>1
      <4> QED
        BY <4>2
    <3>4. \A j \in Instances : j # i => saved'[j] = saved[j] /\ pc'[j] = pc[j]
      BY <1>0, <3>2
    <3>5. UNCHANGED <<sent, listening, file, lock>> /\ pc'[i] = "send" /\ sent[i] = 0
      BY <1>0, <3>2
    <3>6. ASSUME NEW j \in Instances, Up(j)
          PROVE  pc[j] \in {"init", "loop"} /\ file \in listening /\ saved'[i] # <<>>
      BY <1>0, <2>0, <3>2, <3>3, <3>6, ZenonT(60)
    <3> HIDE DEF Alone
    <3>7. ASSUME NEW j \in Instances, NEW k \in Instances
          PROVE  /\ Up(j)' /\ Up(k)' => j = k
                 /\ Up(j)' /\ Sending(k)' => Running(j)' /\ saved'[k] # <<>>
                 /\ Sending(j)' /\ Sending(k)' => j = k \/ Reachable'
      <4>1. /\ pc'[j] = (IF j = i THEN "send" ELSE pc[j])
            /\ pc'[k] = (IF k = i THEN "send" ELSE pc[k])
            /\ k # i => saved'[k] = saved[k]
        BY <1>0, <3>2, <3>4, <3>5
      <4>2. Up(j)' => j # i /\ Up(j) /\ (Running(j) => Running(j)')
        BY <4>1
      <4>3. Up(k)' => k # i /\ Up(k)
        BY <4>1
      <4>4. Sending(j)' /\ Sending(k)' => j = k \/ Reachable'
        <5>1. CASE j = i /\ k # i
          BY <3>2, <4>1, <5>1
        <5>2. CASE j # i /\ k = i
          BY <3>2, <4>1, <5>2
        <5>3. CASE j # i /\ k # i
          BY <2>0, <3>2, <4>1, <5>3 DEF Alone
        <5> QED
          BY <5>1, <5>2, <5>3
      <4>5. Up(j)' /\ Sending(k)' => Running(j)' /\ saved'[k] # <<>>
        <5>1. CASE k = i
          BY <3>6, <4>2, <5>1
        <5>2. CASE k # i
          BY <2>0, <4>1, <4>2, <5>2 DEF Alone
        <5> QED
          BY <5>1, <5>2
      <4> QED
        BY <2>0, <4>2, <4>3, <4>4, <4>5 DEF Alone
    <3>8. ASSUME NEW j \in Instances
          PROVE  /\ pc'[j] # "listen"
                 /\ pc'[j] \in {"lock", "init", "loop"} => file' = j /\ j \in listening'
                 /\ j \in listening' => Up(j)' /\ pc'[j] \notin {"remove", "listen"}
                 /\ pc'[j] # "refused"
                 /\ lock' = j => HasLock(j)' \/ pc'[j] = "ended"
                 /\ Sending(j)' /\ Begun(j)' > 0 => Reachable'
      BY <1>0, <2>0, <3>2, <3>4, <3>5, <3>6 DEF Alone
    <3> QED
      BY <1>0, <3>5, <3>7, <3>8 DEF Alone
  <2>2. CASE Connect(i)
    BY <1>0, <2>0, <2>2 DEF Connect, Goes, places
  <2>3. CASE Write(i)
    BY <1>0, <2>0, <2>3 DEF Write, Goes, places
  <2>4. CASE AllSent(i)
    BY <1>0, <2>0, <2>4 DEF AllSent, Goes, places
  <2>5. CASE StartsUp(i)
    BY <1>0, <2>0, <2>5 DEF StartsUp, Goes, places
  <2>6. CASE RemoveServer(i)
    BY <1>0, <2>0, <2>6 DEF RemoveServer, Goes, places
  <2>7. CASE Listen(i)
    BY <1>0, <2>0, <2>7 DEF Listen, Goes, places
  <2>8. CASE TryLock(i)
    <3>1. /\ pc[i] = "lock" /\ UNCHANGED <<sent, saved, listening, file>>
          /\ lock = None \/ pc[lock] = "ended"
      BY <1>0, <2>0, <2>8 DEF TryLock
    <3>2. lock' = i /\ pc' = [pc EXCEPT ![i] = "init"]
      BY <2>8, <3>1 DEF TryLock
    <3> QED
      BY <1>0, <2>0, <3>1, <3>2
  <2>9. CASE NodeUp(i)
    BY <1>0, <2>0, <2>9 DEF NodeUp, Goes, places
  <2>18. CASE Quit(i)
    BY <1>0, <2>0, <2>18 DEF Quit, Goes, places, Orderly, MayEnd, Busy
  <2>10. CASE Return(i)
    BY <1>0, <2>0, <2>10 DEF Return, Goes, places, Orderly, MayEnd, Busy
  <2>11. CASE UiReady(i)
    BY <1>0, <2>0, <2>11 DEF UiReady, Handles, places
  <2>12. CASE Show(i) \/ TakeConnection(i)
    BY <1>0, <2>0, <2>12 DEF Show, TakeConnection, places
  <2>13. CASE ReadRequest(i) \/ FileOpen(i)
    <3>1. /\ ~Sending(i) /\ UNCHANGED <<pc, sent, listening, file, lock>>
          /\ \A j \in Instances : j # i => saved'[j] = saved[j]
      BY <1>0, <2>13
      DEF ReadRequest, FileOpen, Handles, Receive, places, OrderInv, Order, Early, Fresh
    <3> QED
      BY <1>0, <2>0, <3>1
  <2>14. CASE Unlock(i)
    BY <1>0, <2>0, <2>14 DEF Unlock, Goes
  <2>15. CASE Dismiss(i)
    BY <1>0, <2>0, <2>15 DEF Dismiss, Goes, places
  <2>16. CASE Close(i)
    <3>1. pc[i] = "close" /\ pc' = [pc EXCEPT ![i] = "ended"] /\ UNCHANGED <<sent, saved, lock>>
      BY <2>16 DEF Close, Goes
    <3>2. \A j \in Instances : ~Sending(j) /\ (Up(j) => j = i)
      BY <1>0, <2>0, <3>1
    <3>3. i \notin listening' /\ listening' \subseteq listening
      BY <2>16 DEF Close
    <3> QED
      BY <1>0, <2>0, <3>1, <3>2, <3>3
  <2>17. CASE Crash(i)
    BY <1>0, <2>0, <2>17 DEF Crash, MayEnd, Busy, Orderly
  <2> QED
    BY <1>2, <2>1, <2>2, <2>3, <2>4, <2>5, <2>6, <2>7, <2>8, <2>9, <2>10, <2>11, <2>12, <2>13,
       <2>14, <2>15, <2>16, <2>17, <2>18 DEF Main
<1> QED
  BY <1>1, <1>2 DEF Next

-----------------------------------------------------------------------------
(* What i has to do with are requests.                                     *)
Carries(i) ==
  /\ saved[i] \in Seq(1..asked) /\ queue[i] \in Seq(1..asked)
  /\ taken[i] \in Seq(1..asked) /\ shown[i] \in Seq(1..asked)
  /\ inbox[i] \in Seq((1..asked) \X BOOLEAN)
  /\ sent[i] \in 0..asked

BoundInv ==
  /\ asked \in 0..MaxRequests
  /\ file \in Instances \union {None}
  /\ \A i \in Instances : Carries(i)
  /\ Bounds

(* A sequence over a set is one over a larger set.                         *)
LEMMA Wider ==
  ASSUME NEW S, NEW T, S \subseteq T, NEW q \in Seq(S)
  PROVE  q \in Seq(T)
  OBVIOUS

(* BoundInv holds before any process was started.                          *)
LEMMA BoundInit == Init => BoundInv
<1> SUFFICES ASSUME Init PROVE BoundInv
  OBVIOUS
<1>1. \A S : <<>> \in Seq(S)
  OBVIOUS
<1>2. asked = 0 /\ \A i \in Instances : /\ saved[i] = <<>> /\ queue[i] = <<>> /\ taken[i] = <<>>
                           /\ shown[i] = <<>> /\ inbox[i] = <<>> /\ sent[i] = 0
  BY DEF Init
<1>3. \A i \in Instances : Carries(i)
  <2> TAKE i \in Instances
  <2>1. <<>> \in Seq(1..asked) /\ <<>> \in Seq((1..asked) \X BOOLEAN) /\ 0 \in 0..asked
    BY <1>1, <1>2
  <2> QED
    BY <1>2, <2>1, Zenon DEF Carries
<1>4. Bounds
  BY <1>2 DEF Bounds, Early, Init
<1> QED
  BY <1>2, <1>3, <1>4, PaymentAssumption DEF BoundInv, Init

(* What a process carries stays in bounds when more links are clicked.     *)
LEMMA CarriesOn ==
  ASSUME NEW i \in Instances, Carries(i), asked \in Nat, asked' \in Nat, asked <= asked',
         saved'[i] = saved[i], queue'[i] = queue[i], taken'[i] = taken[i],
         shown'[i] = shown[i], inbox'[i] = inbox[i], sent'[i] = sent[i]
  PROVE  Carries(i)'
<1>1. 1..asked \subseteq 1..asked' /\ 0..asked \subseteq 0..asked'
  OBVIOUS
<1>2. (1..asked) \X BOOLEAN \subseteq (1..asked') \X BOOLEAN
  BY <1>1
<1>3. /\ saved[i] \in Seq(1..asked') /\ queue[i] \in Seq(1..asked')
      /\ taken[i] \in Seq(1..asked') /\ shown[i] \in Seq(1..asked')
  BY <1>1, Wider DEF Carries
<1>4. inbox[i] \in Seq((1..asked') \X BOOLEAN)
  BY <1>2, Wider DEF Carries
<1> QED
  BY <1>1, <1>3, <1>4 DEF Carries

(* A process that receives a request still has to do with requests only.   *)
LEMMA Received ==
  ASSUME OrderTypes, BoundInv, NEW i \in Instances, NEW r \in 1..asked', Receive(i, r),
         asked' \in Nat, asked <= asked', UNCHANGED <<shown, sent>>,
         inbox' = inbox \/ (inbox' = [inbox EXCEPT ![i] = Tail(inbox[i])] /\ inbox[i] # <<>>)
  PROVE  \A j \in Instances : Carries(j)'
<1>0. asked \in Nat /\ \A j \in Instances : Carries(j)
  BY PaymentAssumption DEF BoundInv
<1>1. 1..asked \subseteq 1..asked' /\ 0..asked \subseteq 0..asked'
  BY <1>0
<1>2. (1..asked) \X BOOLEAN \subseteq (1..asked') \X BOOLEAN
  BY <1>1
<1>3. /\ saved[i] \in Seq(1..asked') /\ queue[i] \in Seq(1..asked')
      /\ taken[i] \in Seq(1..asked') /\ shown[i] \in Seq(1..asked')
  BY <1>0, <1>1, Wider DEF Carries
<1>4. inbox[i] \in Seq((1..asked') \X BOOLEAN)
  BY <1>0, <1>2, Wider DEF Carries
<1>5. ASSUME NEW j \in Instances \ {i} PROVE Carries(j)'
  <2>1. /\ saved'[j] = saved[j] /\ queue'[j] = queue[j] /\ taken'[j] = taken[j]
        /\ inbox'[j] = inbox[j]
    BY DEF Receive, OrderTypes
  <2> QED
    BY <1>0, <2>1, CarriesOn
<1>6. Carries(i)'
  <2> DEFINE R == 1..asked'
             C == (1..asked') \X BOOLEAN
  <2>0. r \in R /\ saved[i] \in Seq(R) /\ queue[i] \in Seq(R) /\ taken[i] \in Seq(R)
    BY <1>3
  <2>c. inbox[i] \in Seq(C)
    BY <1>4
  <2> HIDE DEF R, C
  <2>1. taken'[i] \in Seq(R)
    BY <2>0 DEF Receive, OrderTypes
  <2>2. saved'[i] \in Seq(R) /\ queue'[i] \in Seq(R)
    <3>1. CASE saveURIs[i]
      <4>1. queue' = queue /\ saved' = [saved EXCEPT ![i] = Append(saved[i], r)]
        BY <3>1 DEF Receive
      <4>2. saved'[i] = Append(saved[i], r) /\ queue'[i] = queue[i]
        BY <4>1 DEF OrderTypes
      <4> QED
        BY <2>0, <4>2
    <3>2. CASE ~saveURIs[i]
      <4>1. saved' = saved /\ queue' = [queue EXCEPT ![i] = Append(queue[i], r)]
        BY <3>2 DEF Receive
      <4>2. saved'[i] = saved[i] /\ queue'[i] = Append(queue[i], r)
        BY <4>1 DEF OrderTypes
      <4> QED
        BY <2>0, <4>2
    <3> QED
      BY <3>1, <3>2
  <2>3. inbox'[i] \in Seq(C)
    <3>1. CASE inbox' = inbox
      BY <2>c, <3>1
    <3>2. CASE inbox' = [inbox EXCEPT ![i] = Tail(inbox[i])] /\ inbox[i] # <<>>
      <4>1. inbox'[i] = Tail(inbox[i])
        BY <3>2 DEF OrderTypes
      <4> QED
        BY <2>c, <3>2, <4>1
    <3> QED
      BY <3>1, <3>2
  <2> QED
    BY <1>0, <1>1, <1>3, <2>1, <2>2, <2>3 DEF R, C, Carries
<1> QED
  BY <1>5, <1>6

(* Every step keeps BoundInv.                                              *)
LEMMA BoundNext == LockInv /\ OrderInv /\ BoundInv /\ [Next]_vars => BoundInv'
<1> SUFFICES ASSUME LockInv, OrderInv, BoundInv, [Next]_vars PROVE BoundInv'
  OBVIOUS
<1> USE PaymentAssumption
<1>0. /\ OrderTypes /\ asked \in Nat /\ \A j \in Instances : Carries(j)
      /\ pc \in [Instances -> Places]
  BY DEF OrderInv, BoundInv, LockInv
<1>1. CASE UNCHANGED vars
  BY <1>1 DEF vars, history, places, BoundInv, Bounds, Carries, Early
<1>2. ASSUME NEW i \in Instances,
             StartAny(i) \/ Main(i) \/ FileOpen(i) \/ Quit(i) \/ Return(i) \/ Crash(i)
      PROVE  BoundInv'
  <2>1. CASE StartAny(i)
    <3>1. PICK n \in 0..MaxLinks : Start(i, n)
      BY <2>1 DEF StartAny
    <3>2. /\ pc[i] = "off" /\ pc' = [pc EXCEPT ![i] = "send"] /\ n <= MaxRequests - asked
          /\ saved' = [saved EXCEPT ![i] = [k \in 1..n |-> asked + k]]
          /\ asked' = asked + n
          /\ UNCHANGED <<sent, inbox, queue, file, taken, shown>>
      BY <3>1 DEF Start, Goes, places
    <3>3. asked' \in 0..MaxRequests /\ asked <= asked'
      BY <1>0, <3>2
    <3>4. ASSUME NEW j \in Instances \ {i} PROVE Carries(j)'
      <4>1. saved'[j] = saved[j]
        BY <1>0, <3>2 DEF OrderTypes
      <4> QED
        <5>1. /\ asked' \in Nat /\ queue'[j] = queue[j] /\ taken'[j] = taken[j]
              /\ shown'[j] = shown[j] /\ inbox'[j] = inbox[j] /\ sent'[j] = sent[j]
          BY <3>2, <3>3
        <5> QED
          BY <1>0, <3>3, <4>1, <5>1, CarriesOn
    <3>5. saved'[i] = [k \in 1..n |-> asked + k] /\ Len(saved'[i]) = n
      BY <1>0, <3>2 DEF OrderTypes
    <3>6. Carries(i)'
      <4>1. /\ queue[i] \in Seq(1..asked') /\ taken[i] \in Seq(1..asked')
            /\ shown[i] \in Seq(1..asked')
        <5>1. 1..asked \subseteq 1..asked'
          BY <1>0, <3>3
        <5> QED
          BY <1>0, <5>1, Wider DEF Carries
      <4>2. inbox[i] \in Seq((1..asked') \X BOOLEAN)
        <5>1. (1..asked) \X BOOLEAN \subseteq (1..asked') \X BOOLEAN
          BY <1>0, <3>3
        <5> QED
          BY <1>0, <5>1, Wider DEF Carries
      <4>3. saved'[i] \in Seq(1..asked')
        BY <1>0, <3>2, <3>5
      <4>4. sent[i] \in 0..asked'
        BY <1>0, <3>3 DEF Carries
      <4> QED
        BY <3>2, <4>1, <4>2, <4>3, <4>4 DEF Carries
    <3>7. Bounds'
      <4>1. ASSUME NEW j \in Instances \ {i}
            PROVE pc'[j] = pc[j] /\ saved'[j] = saved[j] /\ Len(saved[j]) \in Nat
        BY <1>0, <3>2 DEF OrderTypes
      <4>2. pc'[i] = "send"
        BY <1>0, <3>2
      <4> QED
        BY <1>0, <3>2, <3>3, <3>5, <4>1, <4>2 DEF Bounds, Early, BoundInv
    <3> QED
      BY <3>2, <3>3, <3>4, <3>6, <3>7 DEF BoundInv
  <2>2. CASE Connect(i)
    <3> DEFINE c == <<saved[i][sent[i] + 1], FALSE>>
    <3>1. /\ pc[i] = "send" /\ pc' = [pc EXCEPT ![i] = "write"]
          /\ sent[i] < Len(saved[i]) /\ file \in listening
          /\ inbox' = [inbox EXCEPT ![file] = Append(inbox[file], c)]
          /\ UNCHANGED <<sent, saved, queue, file, asked, taken, shown>>
      BY <2>2 DEF Connect, Goes, Reachable, places, history
    <3>2. saved[i][sent[i] + 1] \in 1..asked /\ file \in Instances
      <4>1. sent[i] + 1 \in 1..Len(saved[i]) /\ saved[i] \in Seq(1..asked)
        BY <1>0, <3>1, SMTT(60) DEF OrderTypes, Carries
      <4> DEFINE R == 1..asked
      <4>2. saved[i] \in Seq(R)
        BY <4>1
      <4> HIDE DEF R
      <4>3. saved[i][sent[i] + 1] \in R
        BY <4>1, <4>2
      <4> QED
        BY <1>0, <3>1, <4>3 DEF OrderTypes, R
    <3>3. inbox'[file] \in Seq((1..asked) \X BOOLEAN)
      <4> DEFINE C == (1..asked) \X BOOLEAN
      <4>1. c \in C /\ inbox[file] \in Seq(C) /\ inbox'[file] = Append(inbox[file], c)
        BY <1>0, <3>1, <3>2 DEF OrderTypes, Carries
      <4> HIDE DEF c, C
      <4>2. Append(inbox[file], c) \in Seq(C)
        BY <4>1
      <4> QED
        BY <4>1, <4>2 DEF C
    <3>4. \A j \in Instances : j # file => inbox'[j] = inbox[j]
      BY <1>0, <3>1 DEF OrderTypes
    <3> HIDE DEF c
    <3>5. \A j \in Instances : Carries(j)'
      BY <1>0, <3>1, <3>3, <3>4 DEF Carries
    <3>6. Bounds'
      BY <1>0, <3>1 DEF Bounds, Early, BoundInv
    <3> QED
      BY <3>1, <3>5, <3>6 DEF BoundInv
  <2>3. CASE Write(i)
    <3> DEFINE r == saved[i][sent[i] + 1]
    <3>1. /\ pc[i] = "write" /\ pc' = [pc EXCEPT ![i] = "send"]
          /\ inbox' = [j \in Instances |-> [k \in DOMAIN inbox[j] |->
                        IF inbox[j][k][1] = r THEN <<r, TRUE>> ELSE inbox[j][k]]]
          /\ sent' = [sent EXCEPT ![i] = sent[i] + 1]
          /\ UNCHANGED <<saved, queue, file, asked, taken, shown>>
      BY <2>3 DEF Write, Goes, places, history
    <3>2. ASSUME NEW j \in Instances PROVE inbox'[j] \in Seq((1..asked) \X BOOLEAN)
      <4> DEFINE C == (1..asked) \X BOOLEAN
                 w(k) == IF inbox[j][k][1] = r THEN <<r, TRUE>> ELSE inbox[j][k]
      <4>1. inbox[j] \in Seq(C) /\ DOMAIN inbox[j] = 1..Len(inbox[j])
        BY <1>0 DEF Carries
      <4>2. inbox'[j] = [k \in 1..Len(inbox[j]) |-> w(k)]
        BY <3>1, <4>1
      <4>3. \A k \in 1..Len(inbox[j]) : w(k) \in C
        <5> TAKE k \in 1..Len(inbox[j])
        <5>1. inbox[j][k] \in C
          BY <4>1
        <5>2. inbox[j][k][1] \in 1..asked
          BY <5>1
        <5> HIDE DEF r
        <5> QED
          BY <5>1, <5>2
      <4> HIDE DEF C, w
      <4>4. inbox'[j] \in Seq(C)
        BY <4>1, <4>2, <4>3
      <4> QED
        BY <4>4 DEF C
    <3>3. sent'[i] \in 0..asked /\ \A j \in Instances : j # i => sent'[j] = sent[j]
      BY <1>0, <3>1 DEF OrderTypes, BoundInv, Bounds, Early
    <3> HIDE DEF r
    <3>4. \A j \in Instances : Carries(j)'
      BY <1>0, <3>1, <3>2, <3>3 DEF Carries
    <3>5. Bounds'
      BY <1>0, <3>1, <3>3 DEF Bounds, Early, BoundInv
    <3> QED
      BY <3>1, <3>4, <3>5 DEF BoundInv
  <2>4. CASE StartsUp(i)
    <3>1. /\ pc[i] = "send" /\ pc' = [pc EXCEPT ![i] = "remove"]
          /\ taken' = [taken EXCEPT ![i] = saved[i]]
          /\ UNCHANGED <<sent, saved, inbox, queue, file, asked, shown>>
      BY <2>4 DEF StartsUp, Goes, places
    <3>2. taken'[i] = saved[i] /\ \A j \in Instances : j # i => taken'[j] = taken[j]
      BY <1>0, <3>1 DEF OrderTypes
    <3>3. \A j \in Instances : Carries(j)'
      BY <1>0, <3>1, <3>2 DEF Carries
    <3>4. Bounds'
      BY <1>0, <3>1 DEF Bounds, Early, BoundInv
    <3> QED
      BY <3>1, <3>3, <3>4 DEF BoundInv
  <2>5. CASE UiReady(i)
    <3>1. /\ pc[i] \in {"loop", "quitting"}
          /\ queue' = [queue EXCEPT ![i] = queue[i] \o saved[i]]
          /\ saved' = [saved EXCEPT ![i] = <<>>]
          /\ UNCHANGED <<pc, sent, inbox, file, asked, taken, shown>>
      BY <2>5 DEF UiReady, places, history
    <3>2. queue'[i] \in Seq(1..asked) /\ saved'[i] \in Seq(1..asked)
      <4>1. queue'[i] = queue[i] \o saved[i] /\ saved'[i] = <<>>
        BY <1>0, <3>1 DEF OrderTypes
      <4>2. queue[i] \o saved[i] \in Seq(1..asked)
        BY <1>0 DEF Carries
      <4> QED
        BY <4>1, <4>2
    <3>3. \A j \in Instances : j # i => queue'[j] = queue[j] /\ saved'[j] = saved[j]
      BY <1>0, <3>1 DEF OrderTypes
    <3>4. \A j \in Instances : Carries(j)'
      BY <1>0, <3>1, <3>2, <3>3 DEF Carries
    <3>5. Bounds'
      BY <1>0, <3>1, <3>3 DEF Bounds, Early, BoundInv
    <3> QED
      BY <3>1, <3>4, <3>5 DEF BoundInv
  <2>6. CASE Show(i)
    <3>1. /\ queue[i] # <<>>
          /\ shown' = [shown EXCEPT ![i] = Append(shown[i], Head(queue[i]))]
          /\ queue' = [queue EXCEPT ![i] = Tail(queue[i])]
          /\ UNCHANGED <<pc, sent, saved, inbox, file, asked, taken>>
      BY <2>6 DEF Show, places
    <3>2. queue'[i] \in Seq(1..asked) /\ shown'[i] \in Seq(1..asked)
      <4>1. queue'[i] = Tail(queue[i]) /\ shown'[i] = Append(shown[i], Head(queue[i]))
        BY <1>0, <3>1 DEF OrderTypes
      <4>2. Tail(queue[i]) \in Seq(1..asked) /\ Append(shown[i], Head(queue[i])) \in Seq(1..asked)
        <5> DEFINE R == 1..asked
        <5>1. queue[i] \in Seq(R) /\ shown[i] \in Seq(R)
          BY <1>0 DEF Carries
        <5> HIDE DEF R
        <5>2. Tail(queue[i]) \in Seq(R) /\ Append(shown[i], Head(queue[i])) \in Seq(R)
          BY <3>1, <5>1
        <5> QED
          BY <5>2 DEF R
      <4> QED
        BY <4>1, <4>2
    <3>3. \A j \in Instances : j # i => queue'[j] = queue[j] /\ shown'[j] = shown[j]
      BY <1>0, <3>1 DEF OrderTypes
    <3>4. \A j \in Instances : Carries(j)'
      BY <1>0, <3>1, <3>2, <3>3 DEF Carries
    <3> QED
      BY <3>1, <3>4 DEF BoundInv, Bounds, Early
  <2>7. CASE ReadRequest(i)
    <3> DEFINE r == Head(inbox[i])[1]
    <3>1. /\ pc[i] # "ended" /\ reading[i]
          /\ inbox' = [inbox EXCEPT ![i] = Tail(inbox[i])]
          /\ Receive(i, r)
          /\ UNCHANGED <<pc, sent, file, asked, shown>>
      BY <2>7 DEF ReadRequest, places
    <3>2. inbox[i] # <<>> /\ ~Early(i)
      BY <1>0, <3>1 DEF OrderTypes, OrderInv, Order, Fresh
    <3>3. r \in 1..asked
      <4>1. Head(inbox[i]) \in (1..asked) \X BOOLEAN
        BY <1>0, <3>2 DEF Carries
      <4> QED
        BY <4>1
    <3> HIDE DEF r
    <3>4. \A j \in Instances : Carries(j)'
      <4>1. r \in 1..asked' /\ asked' \in Nat /\ asked <= asked' /\ UNCHANGED <<shown, sent>>
        BY <1>0, <3>1, <3>3
      <4> QED
        BY <1>0, <3>1, <3>2, <4>1, Received
    <3>5. Bounds'
      BY <1>0, <3>1, <3>2 DEF Bounds, Early, BoundInv, Receive, OrderTypes
    <3> QED
      BY <3>1, <3>4, <3>5 DEF BoundInv
  <2>8. CASE FileOpen(i)
    <3>1. /\ ~Early(i) /\ asked < MaxRequests
          /\ asked' = asked + 1 /\ Receive(i, asked + 1)
          /\ UNCHANGED <<pc, sent, inbox, file, shown>>
      BY <2>8 DEF FileOpen, Handles, Early, places
    <3>2. asked + 1 \in 1..asked' /\ asked' \in 0..MaxRequests /\ asked <= asked'
      BY <1>0, <3>1
    <3>3. \A j \in Instances : Carries(j)'
      BY <1>0, <3>1, <3>2, Received
    <3>4. Bounds'
      <4>1. \A j \in Instances : Early(j) => saved'[j] = saved[j] /\ Len(saved[j]) \in Nat
        BY <1>0, <3>1, SMTT(60) DEF OrderTypes, Receive
      <4> QED
        BY <1>0, <3>1, <3>2, <4>1 DEF Bounds, Early, BoundInv
    <3> QED
      BY <3>1, <3>2, <3>3, <3>4 DEF BoundInv
  <2>9. CASE \/ AllSent(i) \/ RemoveServer(i) \/ Listen(i) \/ TryLock(i) \/ NodeUp(i)
             \/ TakeConnection(i) \/ Unlock(i) \/ Dismiss(i) \/ Close(i)
             \/ Quit(i) \/ Return(i) \/ Crash(i)
    <3>1. /\ file' \in {file, None, i}
          /\ UNCHANGED <<asked, sent, saved, inbox, queue, taken, shown>>
          /\ pc' = pc \/ \E to : pc' = [pc EXCEPT ![i] = to] /\ to \notin {"off", "send", "write"}
      BY <2>9 DEF AllSent, RemoveServer, Listen, TryLock, NodeUp, TakeConnection, Unlock, Dismiss,
         Close, Quit, Return, Crash, Goes, places, history
    <3>2. \A j \in Instances : Carries(j)'
      BY <1>0, <3>1 DEF Carries
    <3>3. Bounds'
      BY <1>0, <3>1 DEF Bounds, Early, BoundInv
    <3> QED
      BY <3>1, <3>2, <3>3 DEF BoundInv
  <2> QED
    BY <1>2, <2>1, <2>2, <2>3, <2>4, <2>5, <2>6, <2>7, <2>8, <2>9 DEF Main
<1> QED
  BY <1>1, <1>2 DEF Next

(* Every variable keeps its type: all that is sent, kept and shown are     *)
(* requests that were clicked.                                             *)
THEOREM TypeCorrect == Spec => []TypeOK
<1>1. LockInv /\ OrderInv /\ BoundInv => TypeOK
  <2> SUFFICES ASSUME LockInv, OrderInv, BoundInv PROVE TypeOK
    OBVIOUS
  <2>1. ASSUME NEW i \in Instances
        PROVE  /\ {saved[i], queue[i], taken[i], shown[i]} \subseteq Seq(1..asked)
               /\ inbox[i] \in Seq((1..asked) \X BOOLEAN)
               /\ sent[i] \in 0..asked
               /\ reading[i] => inbox[i] # <<>>
    BY DEF BoundInv, Carries, OrderInv, OrderTypes
  <2> QED
    BY <2>1 DEF TypeOK, LockInv, Places, OrderInv, OrderTypes, BoundInv
<1>2. Spec => []BoundInv
  BY BoundInit, BoundNext, LockInvariance, OrderInvariance, PTL DEF Spec
<1> QED
  BY <1>1, <1>2, LockInvariance, OrderInvariance, PTL

-----------------------------------------------------------------------------
LeftInv == Orderly => Left
OnceInv == Orderly => Once
SomewhereInv == Orderly /\ "client_lives" \in assumed => Somewhere

(* A process that is up and has nothing left has shown all it took.        *)
LEMMA Done ==
  ASSUME OrderInv, NEW i \in Instances, ~Early(i), pc[i] # "ended",
         queue[i] = <<>>, saved[i] = <<>>
  PROVE  taken[i] = shown[i]
<1>1. shown[i] \in Seq(Nat) /\ taken[i] = shown[i] \o <<>> \o <<>>
  BY DEF OrderInv, OrderTypes, Order, Whole
<1>2. shown[i] \o <<>> = shown[i]
  BY <1>1, ConcatEmptySeq, Zenon
<1> QED
  BY <1>1, <1>2

(* No step changes what is assumed.                                        *)
LEMMA StillOrderly ==
  ASSUME NEW i \in Instances, Orderly',
         StartAny(i) \/ Main(i) \/ FileOpen(i) \/ Quit(i) \/ Return(i) \/ Crash(i)
  PROVE  Orderly /\ assumed' = assumed
  BY DEF Orderly, Main, StartAny, Start, Connect, Write, AllSent, StartsUp, RemoveServer, Listen,
     TryLock, NodeUp, UiReady, Show, TakeConnection, ReadRequest, Unlock, Dismiss, Close, FileOpen,
     Quit, Return, Crash

(* Every step keeps LeftInv.                                               *)
LEMMA LeftNext ==
  LockInv /\ OrderInv /\ BoundInv /\ AloneInv /\ LeftInv /\ [Next]_vars => LeftInv'
<1> SUFFICES ASSUME LockInv, OrderInv, BoundInv, AloneInv, LeftInv, [Next]_vars, Orderly'
             PROVE  Left'
  BY DEF LeftInv
<1> USE PaymentAssumption
<1>0. /\ pc \in [Instances -> Places] /\ OrderTypes
  BY DEF LockInv, OrderInv
<1>1. CASE UNCHANGED vars
  <2>1. Orderly
    BY <1>1 DEF vars, Orderly
  <2> QED
    BY <1>1, <2>1 DEF vars, places, history, LeftInv, Left, Early
<1>2. ASSUME NEW i \in Instances,
             StartAny(i) \/ Main(i) \/ FileOpen(i) \/ Quit(i) \/ Return(i) \/ Crash(i)
      PROVE  Left'
  <2>0. Orderly /\ Alone /\ Left
    BY <1>2, StillOrderly DEF AloneInv, LeftInv
  <2> USE DEF Left, Early, Places
  <2>1. CASE StartAny(i)
    <3>1. PICK n \in 0..MaxLinks : Start(i, n)
      BY <2>1 DEF StartAny
    <3>2. /\ pc[i] = "off" /\ pc' = [pc EXCEPT ![i] = "send"]
          /\ \A j \in Instances : j # i => saved'[j] = saved[j]
          /\ UNCHANGED <<inbox, queue, taken, shown>>
      BY <1>0, <3>1 DEF Start, Goes, OrderTypes
    <3> QED
      BY <1>0, <2>0, <3>2
  <2>2. CASE Connect(i)
    <3>1. /\ pc[i] = "send" /\ pc' = [pc EXCEPT ![i] = "write"] /\ file \in listening
          /\ \A j \in Instances : j # file => inbox'[j] = inbox[j]
          /\ UNCHANGED <<saved, queue, taken, shown>>
      BY <1>0, <2>2 DEF Connect, Goes, Reachable, history, OrderTypes
    <3>2. file \in Instances /\ pc[file] \in {"init", "loop"} /\ file # i
      BY <1>0, <2>0, <3>1 DEF Alone, Up, Sending, Running, OrderTypes
    <3> QED
      BY <1>0, <2>0, <3>1, <3>2
  <2>3. CASE Write(i)
    <3>1. /\ pc[i] = "write" /\ pc' = [pc EXCEPT ![i] = "send"]
          /\ \A j \in Instances : DOMAIN inbox'[j] = DOMAIN inbox[j]
          /\ UNCHANGED <<saved, queue, taken, shown>>
      BY <2>3 DEF Write, Goes, history
    <3>2. ASSUME NEW j \in Instances, inbox[j] = <<>> PROVE inbox'[j] = <<>>
      <4>1. inbox'[j] = [k \in DOMAIN inbox[j] |->
                IF inbox[j][k][1] = saved[i][sent[i] + 1] THEN <<saved[i][sent[i] + 1], TRUE>>
                ELSE inbox[j][k]]
        BY <2>3 DEF Write
      <4> HIDE DEF Left, Early, Places
      <4>2. DOMAIN inbox[j] = {}
        BY <3>2
      <4> QED
        BY <4>1, <4>2
    <3> QED
      BY <1>0, <2>0, <3>1, <3>2
  <2>4. CASE AllSent(i)
    BY <1>0, <2>0, <2>4 DEF AllSent, Goes, history
  <2>5. CASE StartsUp(i)
    <3>1. /\ pc[i] = "send" /\ pc' = [pc EXCEPT ![i] = "remove"]
          /\ \A j \in Instances : j # i => taken'[j] = taken[j]
          /\ UNCHANGED <<saved, queue, inbox, shown>>
      BY <1>0, <2>5 DEF StartsUp, Goes, OrderTypes
    <3> QED
      BY <1>0, <2>0, <3>1
  <2>6. CASE RemoveServer(i) \/ Listen(i) \/ TryLock(i) \/ NodeUp(i) \/ Quit(i)
    <3>1. /\ UNCHANGED <<saved, queue, inbox, taken, shown>>
          /\ \E to \in {"listen", "lock", "init", "refused", "loop", "quitting"} :
               pc' = [pc EXCEPT ![i] = to]
      BY <2>6 DEF RemoveServer, Listen, TryLock, NodeUp, Quit, Goes, history
    <3> QED
      BY <1>0, <2>0, <3>1
  <2>7. CASE Return(i)
    <3>1. /\ pc' = [pc EXCEPT ![i] = "unlock"] /\ UNCHANGED <<saved, queue, inbox, taken, shown>>
          /\ saved[i] = <<>> /\ queue[i] = <<>> /\ inbox[i] = <<>>
      BY <2>0, <2>7 DEF Return, MayEnd, Busy, Orderly, history
    <3> QED
      BY <1>0, <2>0, <3>1
  <2>8. CASE UiReady(i) \/ Show(i) \/ TakeConnection(i)
    <3>1. /\ pc[i] \in {"init", "refused", "loop", "quitting"}
          /\ UNCHANGED <<pc, inbox, taken>>
          /\ \A j \in Instances : j # i => /\ saved'[j] = saved[j] /\ queue'[j] = queue[j]
                                           /\ shown'[j] = shown[j]
      BY <1>0, <2>8 DEF UiReady, Show, TakeConnection, Handles, history, OrderTypes
    <3> QED
      BY <1>0, <2>0, <3>1
  <2>9. CASE ReadRequest(i) \/ FileOpen(i)
    <3>1. /\ pc[i] \notin {"off", "send", "write", "ended", "unlock", "close"}
          /\ UNCHANGED <<pc, shown>>
          /\ \A j \in Instances : j # i => /\ saved'[j] = saved[j] /\ queue'[j] = queue[j]
                                           /\ inbox'[j] = inbox[j] /\ taken'[j] = taken[j]
      BY <1>0, <2>0, <2>9, SMTT(60) DEF ReadRequest, FileOpen, Receive, Handles, OrderTypes
    <3> QED
      BY <1>0, <2>0, <3>1
  <2>10. CASE Unlock(i)
    BY <1>0, <2>0, <2>10 DEF Unlock, Goes, history
  <2>11. CASE Dismiss(i)
    BY <1>0, <2>0, <2>11 DEF Dismiss, Goes, Alone
  <2>12. CASE Close(i)
    <3>1. /\ pc[i] = "close" /\ pc' = [pc EXCEPT ![i] = "ended"]
          /\ UNCHANGED <<saved, queue, inbox, taken, shown>>
      BY <2>12 DEF Close, Goes, history
    <3>2. taken[i] = shown[i]
      BY <2>0, <3>1, Done
    <3> QED
      BY <1>0, <2>0, <3>1, <3>2
  <2>13. CASE Crash(i)
    <3>1. /\ pc[i] \notin {"off", "ended"} /\ pc' = [pc EXCEPT ![i] = "ended"]
          /\ UNCHANGED <<saved, queue, inbox, taken, shown>>
          /\ ~Sending(i) => saved[i] = <<>> /\ queue[i] = <<>> /\ inbox[i] = <<>>
      BY <2>0, <2>13 DEF Crash, MayEnd, Busy, Orderly, history
    <3>2. taken[i] = shown[i] /\ inbox[i] = <<>>
      BY <1>0, <2>0, <3>1, Done DEF Sending
    <3> QED
      BY <1>0, <2>0, <3>1, <3>2
  <2> QED
    BY <1>2, <2>1, <2>2, <2>3, <2>4, <2>5, <2>6, <2>7, <2>8, <2>9, <2>10, <2>11, <2>12, <2>13
    DEF Main
<1> QED
  BY <1>1, <1>2 DEF Next

-----------------------------------------------------------------------------
(* After a step each request is still in one place.                        *)
Placed == Once' /\ ("client_lives" \in assumed /\ Somewhere => Somewhere')

(* The requests are where they were.                                       *)
LEMMA Stays ==
  ASSUME Once, asked' = asked,
         \A x \in Kinds, i \in Instances, k, r \in Nat : At(x, i, k, r)' <=> At(x, i, k, r)
  PROVE  Placed
  BY DEF Placed, Once, Somewhere

(* Every step leaves each request in one place, moves it from one to       *)
(* another, or puts a new one in one.                                      *)
LEMMA AtNext ==
  ASSUME LockInv, OrderInv, BoundInv, Alone, Left, Once, Orderly, Orderly', NEW i \in Instances,
         StartAny(i) \/ Main(i) \/ FileOpen(i) \/ Quit(i) \/ Return(i) \/ Crash(i)
  PROVE  Placed
<1> USE PaymentAssumption
<1>0. /\ pc \in [Instances -> Places] /\ OrderTypes
      /\ asked \in Nat /\ \A j \in Instances : Carries(j)
  BY DEF LockInv, OrderInv, BoundInv
<1>t. \A j \in Instances :
        /\ DOMAIN saved[j] = 1..Len(saved[j]) /\ Len(saved[j]) \in Nat
        /\ DOMAIN inbox[j] = 1..Len(inbox[j]) /\ Len(inbox[j]) \in Nat
        /\ DOMAIN taken[j] = 1..Len(taken[j]) /\ Len(taken[j]) \in Nat
        /\ sent[j] \in Nat
  BY <1>0 DEF OrderTypes
<1>b. \A x \in Kinds, j \in Instances, k, r \in Nat : At(x, j, k, r) => r \in 1..asked
  <2> SUFFICES ASSUME NEW x \in Kinds, NEW j \in Instances, NEW k \in Nat, NEW r \in Nat,
                      At(x, j, k, r)
               PROVE  r \in 1..asked
    OBVIOUS
  <2> DEFINE R == 1..asked
  <2>1. saved[j] \in Seq(R) /\ taken[j] \in Seq(R) /\ inbox[j] \in Seq(R \X BOOLEAN)
    BY <1>0 DEF Carries
  <2> HIDE DEF R
  <2>2. /\ \A m \in DOMAIN saved[j] : saved[j][m] \in R
        /\ \A m \in DOMAIN taken[j] : taken[j][m] \in R
        /\ \A m \in DOMAIN inbox[j] : inbox[j][m][1] \in R
    BY <2>1
  <2>3. r \in R
    BY <2>2 DEF At, Unsent
  <2> QED
    BY <2>3 DEF R
<1>1. CASE StartAny(i)
  <2>1. PICK n \in 0..MaxLinks : Start(i, n)
    BY <1>1 DEF StartAny
  <2>2. /\ pc[i] = "off" /\ pc' = [pc EXCEPT ![i] = "send"]
        /\ saved' = [saved EXCEPT ![i] = [k \in 1..n |-> asked + k]]
        /\ asked' = asked + n
        /\ UNCHANGED <<sent, inbox, taken>>
    BY <2>1 DEF Start, Goes
  <2>3. sent[i] = 0
    BY <2>2 DEF BoundInv, Bounds
  <2>4. /\ saved'[i] = [k \in 1..n |-> asked + k]
        /\ \A j \in Instances : j # i => saved'[j] = saved[j] /\ pc'[j] = pc[j]
        /\ pc'[i] = "send"
    BY <1>0, <2>2 DEF OrderTypes
  <2>5. ASSUME NEW x \in Kinds, NEW j \in Instances, NEW k \in Nat, NEW r \in Nat
        PROVE  At(x, j, k, r)' <=> \/ At(x, j, k, r)
                                   \/ x = "unsent" /\ j = i /\ k \in 1..n /\ r = asked + k
    <3>1. CASE x = "unsent" /\ j = i
      <4>1. ~At(x, j, k, r)
        BY <2>2, <3>1 DEF At, Unsent, Sending
      <4>2. At(x, j, k, r)' <=> k \in 1..n /\ k > 0 /\ asked + k = r
        BY <2>2, <2>3, <2>4, <3>1 DEF At, Unsent, Sending, Begun
      <4> QED
        BY <3>1, <4>1, <4>2
    <3>2. CASE x # "unsent" \/ j # i
      BY <2>2, <2>4, <3>2 DEF At, Unsent, Sending, Begun
    <3> QED
      BY <3>1, <3>2
  <2>6. Once'
    BY <1>0, <1>b, <2>5 DEF Once
  <2>7. Somewhere => Somewhere'
    <3> SUFFICES ASSUME Somewhere, NEW r \in 1..asked'
                 PROVE  \E x \in Kinds, j \in Instances, k \in Nat : At(x, j, k, r)'
      BY DEF Somewhere
    <3>1. CASE r \in 1..asked
      BY <2>5, <3>1 DEF Somewhere
    <3>2. CASE r \notin 1..asked
      <4>1. r - asked \in 1..n /\ r = asked + (r - asked) /\ "unsent" \in Kinds
        BY <1>0, <2>2, <3>2 DEF Kinds
      <4> QED
        BY <2>5, <4>1
    <3> QED
      BY <3>1, <3>2
  <2> QED
    BY <2>6, <2>7 DEF Placed
<1>2. CASE Connect(i)
  <2> DEFINE s == sent[i] + 1
             q == saved[i][s]
             L == Len(inbox[file]) + 1
  <2>1. /\ pc[i] = "send" /\ pc' = [pc EXCEPT ![i] = "write"]
        /\ sent[i] < Len(saved[i]) /\ file \in Instances
        /\ inbox' = [inbox EXCEPT ![file] = Append(inbox[file], <<q, FALSE>>)]
        /\ UNCHANGED <<sent, saved, asked, taken>>
    BY <1>0, <1>2 DEF Connect, Goes, Reachable, history, OrderTypes
  <2>2. /\ \A j \in Instances : pc'[j] = IF j = i THEN "write" ELSE pc[j]
        /\ \A j \in Instances : j # file => inbox'[j] = inbox[j]
    BY <1>0, <2>1 DEF OrderTypes
  <2>3. /\ DOMAIN inbox'[file] = 1..L
        /\ \A k \in 1..(L - 1) : inbox'[file][k] = inbox[file][k]
        /\ inbox'[file][L][1] = q
    <3>1. inbox'[file] = Append(inbox[file], <<q, FALSE>>) /\ inbox[file] \in Seq(Nat \X BOOLEAN)
      BY <1>0, <2>1 DEF OrderTypes
    <3> HIDE DEF q
    <3> QED
      BY <3>1
  <2>4. s \in Nat /\ L \in Nat /\ q \in Nat
    <3>1. saved[i] \in Seq(Nat)
      BY <1>0 DEF OrderTypes
    <3>2. s \in 1..Len(saved[i])
      BY <1>t, <2>1
    <3>3. saved[i][s] \in Nat
      BY <3>1, <3>2
    <3> QED
      BY <1>t, <2>1, <3>3
  <2> HIDE DEF q
  <2>5. ASSUME NEW x \in Kinds, NEW j \in Instances, NEW k \in Nat, NEW r \in Nat
        PROVE  At(x, j, k, r)' <=> \/ At(x, j, k, r) /\ ~(x = "unsent" /\ j = i /\ k = s)
                                   \/ x = "inbox" /\ j = file /\ k = L /\ r = q
    <3>1. CASE x = "unsent"
      <4>1. At(x, j, k, r) <=> Unsent(j, k) /\ saved[j][k] = r
        BY <3>1 DEF At
      <4>2. At(x, j, k, r)' <=> Unsent(j, k)' /\ saved[j][k] = r
        BY <2>1, <3>1 DEF At
      <4>3. Unsent(j, k)' <=> Unsent(j, k) /\ ~(j = i /\ k = s)
        BY <1>t, <2>1, <2>2 DEF Unsent, Sending, Begun
      <4> QED
        BY <3>1, <4>1, <4>2, <4>3
    <3>2. CASE x = "inbox" /\ j = file
      BY <1>t, <2>1, <2>3, <2>4, <3>2 DEF At
    <3>3. CASE x = "taken" \/ (x = "inbox" /\ j # file)
      BY <2>1, <2>2, <3>3 DEF At
    <3> QED
      BY <3>1, <3>2, <3>3 DEF Kinds
  <2>6. At("unsent", i, s, q) /\ \A r \in Nat : ~At("inbox", file, L, r)
    BY <1>t, <2>1 DEF At, Unsent, Sending, Begun, q
  <2>7. {"unsent", "inbox"} \subseteq Kinds /\ file \in Instances
    BY <2>1 DEF Kinds
  <2> HIDE DEF s, L
  <2>8. Once'
    BY <2>4, <2>5, <2>6, <2>7 DEF Once
  <2>9. Somewhere => Somewhere'
    <3> SUFFICES ASSUME Somewhere, NEW r \in 1..asked
                 PROVE  \E x \in Kinds, j \in Instances, k \in Nat : At(x, j, k, r)'
      BY <2>1 DEF Somewhere
    <3>1. PICK x \in Kinds, j \in Instances, k \in Nat : At(x, j, k, r)
      BY DEF Somewhere
    <3>2. CASE x = "unsent" /\ j = i /\ k = s
      <4>1. r = q
        BY <3>1, <3>2 DEF At, q
      <4> QED
        BY <2>4, <2>5, <2>7, <4>1
    <3>3. CASE ~(x = "unsent" /\ j = i /\ k = s)
      BY <2>5, <3>1, <3>3
    <3> QED
      BY <3>2, <3>3
  <2> QED
    BY <2>8, <2>9 DEF Placed
<1>3. CASE Write(i)
  <2> DEFINE q == saved[i][sent[i] + 1]
  <2>1. /\ pc[i] = "write" /\ pc' = [pc EXCEPT ![i] = "send"]
        /\ \A j \in Instances : inbox'[j] = [k \in DOMAIN inbox[j] |->
               IF inbox[j][k][1] = q THEN <<q, TRUE>> ELSE inbox[j][k]]
        /\ sent' = [sent EXCEPT ![i] = sent[i] + 1]
        /\ UNCHANGED <<saved, asked, taken>>
    BY <1>3 DEF Write, Goes, history
  <2> HIDE DEF q
  <2>2. \A j \in Instances : /\ DOMAIN inbox'[j] = DOMAIN inbox[j]
                             /\ \A k \in DOMAIN inbox[j] : inbox'[j][k][1] = inbox[j][k][1]
    <3> TAKE j \in Instances
    <3>1. DOMAIN inbox'[j] = DOMAIN inbox[j]
      BY <2>1
    <3>2. ASSUME NEW k \in DOMAIN inbox[j] PROVE inbox'[j][k][1] = inbox[j][k][1]
      <4>1. inbox'[j][k] = IF inbox[j][k][1] = q THEN <<q, TRUE>> ELSE inbox[j][k]
        BY <2>1
      <4>2. CASE inbox[j][k][1] = q
        BY <4>1, <4>2
      <4>3. CASE inbox[j][k][1] # q
        BY <4>1, <4>3
      <4> QED
        BY <4>2, <4>3
    <3> QED
      BY <3>1, <3>2
  <2>3. \A j \in Instances : /\ pc'[j] = IF j = i THEN "send" ELSE pc[j]
                             /\ sent'[j] = IF j = i THEN sent[i] + 1 ELSE sent[j]
    BY <1>0, <2>1 DEF OrderTypes
  <2>4. \A j \in Instances, k \in Nat : Unsent(j, k)' <=> Unsent(j, k)
    BY <1>t, <2>1, <2>3 DEF Unsent, Sending, Begun
  <2>5. \A x \in Kinds, j \in Instances, k, r \in Nat : At(x, j, k, r)' <=> At(x, j, k, r)
    BY <2>1, <2>2, <2>4 DEF At
  <2> QED
    BY <2>1, <2>5, Stays
<1>4. CASE AllSent(i)
  <2>1. /\ pc[i] = "send" /\ pc' = [pc EXCEPT ![i] = "ended"] /\ sent[i] = Len(saved[i])
        /\ UNCHANGED <<sent, saved, inbox, asked, taken>>
    BY <1>4 DEF AllSent, Goes, history
  <2>2. \A j \in Instances, k \in Nat : Unsent(j, k)' <=> Unsent(j, k)
    BY <1>0, <1>t, <2>1 DEF Unsent, Sending, Begun
  <2>3. \A x \in Kinds, j \in Instances, k, r \in Nat : At(x, j, k, r)' <=> At(x, j, k, r)
    BY <2>1, <2>2 DEF At
  <2> QED
    BY <2>1, <2>3, Stays
<1>5. CASE StartsUp(i)
  <2>1. /\ pc[i] = "send" /\ pc' = [pc EXCEPT ![i] = "remove"]
        /\ taken' = [taken EXCEPT ![i] = saved[i]]
        /\ saved[i] = <<>> \/ ~Reachable
        /\ UNCHANGED <<sent, saved, inbox, asked>>
    BY <1>5 DEF StartsUp, Goes
  <2>2. taken'[i] = saved[i] /\ taken[i] = <<>>
        /\ \A j \in Instances : j # i => taken'[j] = taken[j] /\ pc'[j] = pc[j]
    BY <1>0, <2>1 DEF OrderTypes, OrderInv, Order, Early, Fresh
  <2>3. saved[i] = <<>> \/ sent[i] = 0
    BY <1>t, <2>1 DEF Alone, Sending, Begun
  <2>4. ASSUME NEW x \in Kinds, NEW j \in Instances, NEW k \in Nat, NEW r \in Nat
        PROVE  At(x, j, k, r)' <=> \/ At(x, j, k, r) /\ ~(x = "unsent" /\ j = i)
                                   \/ x = "taken" /\ j = i /\ At("unsent", i, k, r)
    <3>1. CASE x = "unsent"
      <4>1. Unsent(j, k)' <=> Unsent(j, k) /\ j # i
        BY <1>0, <2>1, <2>2 DEF Unsent, Sending, Begun
      <4> QED
        BY <2>1, <3>1, <4>1 DEF At
    <3>2. CASE x = "taken" /\ j = i
      <4>1. At(x, j, k, r)' <=> k \in DOMAIN saved[i] /\ saved[i][k] = r
        BY <2>2, <3>2 DEF At
      <4>2. ~At(x, j, k, r)
        BY <2>2, <3>2 DEF At
      <4>3. k \in DOMAIN saved[i] <=> Unsent(i, k)
        <5>1. CASE saved[i] = <<>>
          BY <5>1 DEF Unsent
        <5>2. CASE sent[i] = 0
          BY <1>t, <2>1, <5>2 DEF Unsent, Sending, Begun
        <5> QED
          BY <2>3, <5>1, <5>2
      <4> QED
        BY <3>2, <4>1, <4>2, <4>3 DEF At
    <3>3. CASE x = "inbox" \/ (x = "taken" /\ j # i)
      BY <2>1, <2>2, <3>3 DEF At
    <3> QED
      BY <3>1, <3>2, <3>3 DEF Kinds
  <2>5. \A k, r \in Nat : ~At("taken", i, k, r)
    BY <2>2 DEF At
  <2>6. {"unsent", "taken"} \subseteq Kinds
    BY DEF Kinds
  <2>7. Once'
    BY <2>4, <2>5, <2>6 DEF Once
  <2>8. Somewhere => Somewhere'
    BY <2>1, <2>4, <2>6 DEF Somewhere
  <2> QED
    BY <2>7, <2>8 DEF Placed
<1>6. CASE ReadRequest(i)
  <2> DEFINE q == Head(inbox[i])[1]
             L == Len(taken[i]) + 1
  <2>1. /\ pc[i] # "ended" /\ reading[i]
        /\ inbox' = [inbox EXCEPT ![i] = Tail(inbox[i])]
        /\ taken' = [taken EXCEPT ![i] = Append(taken[i], q)]
        /\ \A j \in Instances : j # i => saved'[j] = saved[j]
        /\ UNCHANGED <<pc, sent, asked>>
    BY <1>0, <1>6 DEF ReadRequest, Receive, OrderTypes
  <2>2. inbox[i] # <<>> /\ ~Sending(i)
    BY <1>0, <2>1 DEF OrderTypes, Left, Early, Sending
  <2>3. /\ inbox[i] \in Seq(Nat \X BOOLEAN) /\ Head(inbox[i]) = inbox[i][1] /\ q \in Nat
        /\ DOMAIN Tail(inbox[i]) = 1..(Len(inbox[i]) - 1)
        /\ \A k \in 1..(Len(inbox[i]) - 1) : Tail(inbox[i])[k] = inbox[i][k + 1]
    <3> DEFINE C == Nat \X BOOLEAN
    <3>1. inbox[i] \in Seq(C)
      BY <1>0 DEF OrderTypes
    <3> HIDE DEF C
    <3>2. /\ Head(inbox[i]) \in C /\ Head(inbox[i]) = inbox[i][1]
          /\ DOMAIN Tail(inbox[i]) = 1..(Len(inbox[i]) - 1)
          /\ \A k \in 1..(Len(inbox[i]) - 1) : Tail(inbox[i])[k] = inbox[i][k + 1]
      BY <2>2, <3>1
    <3> QED
      BY <3>1, <3>2 DEF C
  <2>4. /\ inbox'[i] = Tail(inbox[i]) /\ \A j \in Instances : j # i => inbox'[j] = inbox[j]
        /\ taken'[i] = Append(taken[i], q) /\ \A j \in Instances : j # i => taken'[j] = taken[j]
    BY <1>0, <2>1 DEF OrderTypes
  <2> HIDE DEF q
  <2>5. /\ DOMAIN taken'[i] = 1..L /\ taken'[i][L] = q
        /\ \A k \in 1..(L - 1) : taken'[i][k] = taken[i][k]
    BY <1>0, <2>3, <2>4 DEF OrderTypes
  <2>6. ASSUME NEW x \in Kinds, NEW j \in Instances, NEW k \in Nat, NEW r \in Nat
        PROVE  At(x, j, k, r)' <=>
                 \/ At(x, j, k, r) /\ ~(x = "inbox" /\ j = i)
                 \/ x = "inbox" /\ j = i /\ k > 0 /\ At("inbox", i, k + 1, r)
                 \/ x = "taken" /\ j = i /\ k = L /\ r = q
    <3>1. CASE x = "unsent"
      <4>1. Unsent(j, k)' <=> Unsent(j, k)
        BY <2>1, <2>2 DEF Unsent, Sending, Begun
      <4> QED
        BY <2>1, <2>2, <3>1, <4>1 DEF At, Unsent
    <3>2. CASE x = "taken" /\ j = i
      BY <1>t, <2>5, <3>2, SMTT(60) DEF At
    <3>3. CASE x = "inbox" /\ j = i
      <4>1. At(x, j, k, r)' <=> k \in 1..(Len(inbox[i]) - 1) /\ inbox[i][k + 1][1] = r
        BY <2>3, <2>4, <3>3 DEF At
      <4>2. At("inbox", i, k + 1, r) <=> k + 1 \in 1..Len(inbox[i]) /\ inbox[i][k + 1][1] = r
        BY <1>t DEF At
      <4> QED
        BY <1>t, <3>3, <4>1, <4>2
    <3>4. CASE x \in {"inbox", "taken"} /\ j # i
      BY <2>4, <3>4 DEF At
    <3> QED
      BY <3>1, <3>2, <3>3, <3>4 DEF Kinds
  <2>7. At("inbox", i, 1, q) /\ \A r \in Nat : ~At("taken", i, L, r) /\ ~At("inbox", i, 0, r)
    <3>1. 1 \in DOMAIN inbox[i] /\ 0 \notin DOMAIN inbox[i] /\ L \notin DOMAIN taken[i]
      BY <1>t, <2>2, <2>3
    <3> QED
      BY <2>3, <3>1 DEF At, q
  <2>8. {"taken", "inbox"} \subseteq Kinds /\ L \in Nat
    BY <1>t DEF Kinds
  <2> HIDE DEF L
  <2>9. Once'
    <3> SUFFICES ASSUME NEW x \in Kinds, NEW y \in Kinds, NEW j \in Instances, NEW m \in Instances,
                        NEW k \in Nat, NEW l \in Nat, NEW r \in Nat,
                        At(x, j, k, r)', At(y, m, l, r)'
                 PROVE  x = y /\ j = m /\ k = l
      BY DEF Once
    <3> DEFINE Old(z, n, p) == At(z, n, p, r) /\ ~(z = "inbox" /\ n = i)
               Follows(z, n, p) == z = "inbox" /\ n = i /\ p > 0 /\ At("inbox", i, p + 1, r)
               New(z, n, p) == z = "taken" /\ n = i /\ p = L /\ r = q
    <3>1. /\ Old(x, j, k) \/ Follows(x, j, k) \/ New(x, j, k)
          /\ Old(y, m, l) \/ Follows(y, m, l) \/ New(y, m, l)
      BY <2>6
    <3>2. Old(x, j, k) /\ Old(y, m, l) => x = y /\ j = m /\ k = l
      BY DEF Once
    <3>3. ~(Old(x, j, k) /\ Follows(y, m, l)) /\ ~(Follows(x, j, k) /\ Old(y, m, l))
      BY <2>8 DEF Once
    <3>4. Follows(x, j, k) /\ Follows(y, m, l) => x = y /\ j = m /\ k = l
      <4>1. Follows(x, j, k) /\ Follows(y, m, l) => k + 1 = l + 1
        BY <2>8 DEF Once
      <4> QED
        BY <4>1
    <3>5. ~(Old(x, j, k) /\ New(y, m, l)) /\ ~(New(x, j, k) /\ Old(y, m, l))
      BY <2>7, <2>8 DEF Once
    <3>6. ~(Follows(x, j, k) /\ New(y, m, l)) /\ ~(New(x, j, k) /\ Follows(y, m, l))
      <4>1. \A p \in Nat : p > 0 => ~(At("inbox", i, p + 1, q))
        <5> TAKE p \in Nat
        <5>1. At("inbox", i, p + 1, q) => p + 1 = 1
          BY <2>3, <2>7, <2>8 DEF Once
        <5> QED
          BY <5>1
      <4> QED
        BY <4>1
    <3> QED
      BY <3>1, <3>2, <3>3, <3>4, <3>5, <3>6
  <2>10. Somewhere => Somewhere'
    <3> SUFFICES ASSUME Somewhere, NEW r \in 1..asked
                 PROVE  \E x \in Kinds, j \in Instances, k \in Nat : At(x, j, k, r)'
      BY <2>1 DEF Somewhere
    <3>1. PICK x \in Kinds, j \in Instances, k \in Nat : At(x, j, k, r)
      BY DEF Somewhere
    <3>2. CASE x = "inbox" /\ j = i /\ k = 1
      <4>1. r = q
        BY <2>3, <3>1, <3>2 DEF At, q
      <4> QED
        BY <2>3, <2>6, <2>8, <4>1
    <3>3. CASE x = "inbox" /\ j = i /\ k # 1
      <4>1. k # 0
        BY <2>7, <3>1, <3>3
      <4>2. k - 1 \in Nat /\ k - 1 > 0 /\ (k - 1) + 1 = k
        BY <3>3, <4>1
      <4>3. At("inbox", i, k - 1, r)'
        BY <2>6, <2>8, <3>1, <3>3, <4>2
      <4> QED
        BY <2>8, <4>2, <4>3
    <3>4. CASE ~(x = "inbox" /\ j = i)
      BY <2>6, <3>1, <3>4
    <3> QED
      BY <3>2, <3>3, <3>4
  <2> QED
    BY <2>9, <2>10 DEF Placed
<1>7. CASE FileOpen(i)
  <2> DEFINE L == Len(taken[i]) + 1
  <2>1. /\ ~Sending(i) /\ asked' = asked + 1
        /\ taken' = [taken EXCEPT ![i] = Append(taken[i], asked + 1)]
        /\ \A j \in Instances : j # i => saved'[j] = saved[j]
        /\ UNCHANGED <<pc, sent, inbox>>
    BY <1>0, <1>7 DEF FileOpen, Handles, Sending, Receive, OrderTypes
  <2>2. /\ taken'[i] = Append(taken[i], asked + 1) /\ taken[i] \in Seq(Nat)
        /\ \A j \in Instances : j # i => taken'[j] = taken[j]
    BY <1>0, <2>1 DEF OrderTypes
  <2>3. /\ DOMAIN taken'[i] = 1..L /\ taken'[i][L] = asked + 1
        /\ \A k \in 1..(L - 1) : taken'[i][k] = taken[i][k]
    BY <1>0, <2>2
  <2>4. ASSUME NEW x \in Kinds, NEW j \in Instances, NEW k \in Nat, NEW r \in Nat
        PROVE  At(x, j, k, r)' <=> \/ At(x, j, k, r)
                                   \/ x = "taken" /\ j = i /\ k = L /\ r = asked + 1
    <3>1. CASE x = "unsent"
      <4>1. Unsent(j, k)' <=> Unsent(j, k)
        BY <2>1 DEF Unsent, Sending, Begun
      <4> QED
        BY <2>1, <3>1, <4>1 DEF At, Unsent
    <3>2. CASE x = "taken" /\ j = i
      BY <1>t, <2>3, <3>2 DEF At
    <3>3. CASE x = "inbox" \/ (x = "taken" /\ j # i)
      BY <2>1, <2>2, <3>3 DEF At
    <3> QED
      BY <3>1, <3>2, <3>3 DEF Kinds
  <2>5. Once'
    BY <1>0, <1>b, <2>4 DEF Once
  <2>6. Somewhere => Somewhere'
    <3> SUFFICES ASSUME Somewhere, NEW r \in 1..asked'
                 PROVE  \E x \in Kinds, j \in Instances, k \in Nat : At(x, j, k, r)'
      BY DEF Somewhere
    <3>1. CASE r \in 1..asked
      BY <2>4, <3>1 DEF Somewhere
    <3>2. CASE r = asked + 1
      <4>1. L \in Nat /\ "taken" \in Kinds /\ r \in Nat
        BY <1>t DEF Kinds
      <4> QED
        BY <2>4, <3>2, <4>1
    <3> QED
      BY <1>0, <2>1, <3>1, <3>2
  <2> QED
    BY <2>5, <2>6 DEF Placed
<1>8. CASE UiReady(i)
  <2>1. /\ ~Sending(i) /\ UNCHANGED <<pc, sent, inbox, asked, taken>>
        /\ \A j \in Instances : j # i => saved'[j] = saved[j]
    BY <1>0, <1>8 DEF UiReady, Handles, Sending, history, OrderTypes
  <2>2. \A x \in Kinds, j \in Instances, k, r \in Nat : At(x, j, k, r)' <=> At(x, j, k, r)
    BY <2>1 DEF At, Unsent, Sending, Begun
  <2> QED
    BY <2>1, <2>2, Stays
<1>9. CASE Crash(i)
  <2>1. /\ pc[i] \notin {"off", "ended"} /\ pc' = [pc EXCEPT ![i] = "ended"]
        /\ Sending(i) => "client_lives" \notin assumed
        /\ UNCHANGED <<sent, saved, inbox, asked, taken>>
    BY <1>9 DEF Crash, history
  <2>2. \A j \in Instances, k \in Nat :
          Unsent(j, k)' <=> Unsent(j, k) /\ j # i
    BY <1>0, <2>1 DEF Unsent, Sending, Begun
  <2>3. \A x \in Kinds, j \in Instances, k, r \in Nat : At(x, j, k, r)' => At(x, j, k, r)
    BY <2>1, <2>2 DEF At
  <2>4. ~Sending(i) => \A x \in Kinds, j \in Instances, k, r \in Nat :
          At(x, j, k, r) => At(x, j, k, r)'
    BY <2>1, <2>2 DEF At, Unsent
  <2>5. Once'
    BY <2>3 DEF Once
  <2>6. "client_lives" \in assumed /\ Somewhere => Somewhere'
    BY <2>1, <2>4 DEF Somewhere
  <2> QED
    BY <2>5, <2>6 DEF Placed
<1>10. CASE \/ RemoveServer(i) \/ Listen(i) \/ TryLock(i) \/ NodeUp(i) \/ Show(i)
            \/ TakeConnection(i) \/ Unlock(i) \/ Dismiss(i) \/ Close(i) \/ Quit(i) \/ Return(i)
  <2>1. /\ ~Sending(i) /\ UNCHANGED <<sent, saved, inbox, asked, taken>>
        /\ pc' = pc \/ \E to : pc' = [pc EXCEPT ![i] = to] /\ to \notin {"send", "write"}
    BY <1>10 DEF RemoveServer, Listen, TryLock, NodeUp, Show, TakeConnection, Unlock, Dismiss,
       Close, Quit, Return, Handles, Goes, Sending, history
  <2>2. \A j \in Instances, k \in Nat : Unsent(j, k)' <=> Unsent(j, k)
    BY <1>0, <2>1 DEF Unsent, Sending, Begun
  <2>3. \A x \in Kinds, j \in Instances, k, r \in Nat : At(x, j, k, r)' <=> At(x, j, k, r)
    BY <2>1, <2>2 DEF At
  <2> QED
    BY <2>1, <2>3, Stays
<1> QED
  BY <1>1, <1>2, <1>3, <1>4, <1>5, <1>6, <1>7, <1>8, <1>9, <1>10 DEF Main

-----------------------------------------------------------------------------
(* What holds of the processes and their requests at any time.             *)
DeliveryInv ==
  LockInv /\ OrderInv /\ BoundInv /\ AloneInv /\ LeftInv /\ OnceInv /\ SomewhereInv

(* DeliveryInv holds before any process was started.                       *)
LEMMA DeliveryInit == Init => DeliveryInv
<1> SUFFICES ASSUME Init PROVE DeliveryInv
  OBVIOUS
<1>1. LockInv /\ OrderInv /\ BoundInv /\ AloneInv
  BY LockInit, OrderInit, BoundInit, AloneInit
<1>2. LeftInv
  BY DEF Init, LeftInv, Left
<1>3. \A x \in Kinds, i \in Instances, k, r \in Nat : ~At(x, i, k, r)
  BY DEF Init, At, Unsent
<1>4. OnceInv
  BY <1>3 DEF OnceInv, Once
<1>5. SomewhereInv
  BY DEF Init, SomewhereInv, Somewhere
<1> QED
  BY <1>1, <1>2, <1>4, <1>5 DEF DeliveryInv

(* Every step keeps DeliveryInv.                                           *)
LEMMA DeliveryNext == DeliveryInv /\ [Next]_vars => DeliveryInv'
<1> SUFFICES ASSUME DeliveryInv, [Next]_vars PROVE DeliveryInv'
  OBVIOUS
<1>1. LockInv' /\ OrderInv' /\ BoundInv'
  BY LockNext, OrderNext, BoundNext DEF DeliveryInv
<1>2. AloneInv'
  BY AloneNext DEF DeliveryInv, BoundInv
<1>3. LeftInv'
  BY LeftNext DEF DeliveryInv
<1>4. OnceInv' /\ SomewhereInv'
  <2>1. CASE UNCHANGED vars
    <3>1. /\ Orderly' = Orderly /\ assumed' = assumed /\ asked' = asked
          /\ \A x, i, k, r : At(x, i, k, r)' <=> At(x, i, k, r)
      BY <2>1 DEF vars, history, Orderly, At, Unsent, Sending, Begun
    <3> QED
      BY <3>1 DEF DeliveryInv, OnceInv, Once, SomewhereInv, Somewhere
  <2>2. CASE Next
    <3> SUFFICES ASSUME Orderly' PROVE Once' /\ ("client_lives" \in assumed' => Somewhere')
      BY DEF OnceInv, SomewhereInv
    <3>1. PICK i \in Instances :
            StartAny(i) \/ Main(i) \/ FileOpen(i) \/ Quit(i) \/ Return(i) \/ Crash(i)
      BY <2>2 DEF Next
    <3>2. Orderly /\ assumed' = assumed
      BY <3>1, StillOrderly
    <3>3. Alone /\ Left /\ Once /\ ("client_lives" \in assumed => Somewhere)
      BY <3>2 DEF DeliveryInv, AloneInv, LeftInv, OnceInv, SomewhereInv
    <3>4. Placed
      BY <3>1, <3>2, <3>3, AtNext DEF DeliveryInv
    <3> QED
      BY <3>2, <3>3, <3>4 DEF Placed
  <2> QED
    BY <2>1, <2>2
<1> QED
  BY <1>1, <1>2, <1>3, <1>4 DEF DeliveryInv

(* Where the processes and their requests are, at any time.                *)
THEOREM DeliveryInvariance == Spec => []DeliveryInv
  BY DeliveryInit, DeliveryNext, PTL DEF Spec

(* A wallet that runs can be reached by the next link: the socket's name   *)
(* leads to its own server (removeServer() and listen() of the             *)
(* constructor, ~QLocalServer()).                                          *)
THEOREM Reached ==
  ASSUME {"with_link", "alone", "ends_idle"} \subseteq Discipline
  PROVE  Spec => []WalletReachable
<1>1. DeliveryInv => WalletReachable
  BY DEF DeliveryInv, AloneInv, Orderly, Alone, WalletReachable, Given, Running
<1> QED
  BY <1>1, DeliveryInvariance, PTL

(* The elements of three sequences put together.                           *)
LEMMA Parts ==
  ASSUME NEW a \in Seq(Nat), NEW b \in Seq(Nat), NEW c \in Seq(Nat)
  PROVE  /\ DOMAIN (a \o b \o c) = 1..(Len(a) + Len(b) + Len(c))
         /\ \A k \in 1..Len(a) : (a \o b \o c)[k] = a[k]
         /\ \A k \in 1..Len(b) : (a \o b \o c)[Len(a) + k] = b[k]
         /\ \A k \in 1..Len(c) : (a \o b \o c)[Len(a) + Len(b) + k] = c[k]
<1> DEFINE d == a \o b
<1>1. /\ d \in Seq(Nat) /\ Len(d) = Len(a) + Len(b)
      /\ \A k \in 1..Len(a) : d[k] = a[k]
      /\ \A k \in 1..Len(b) : d[Len(a) + k] = b[k]
  <2>1. d \in Seq(Nat) /\ Len(d) = Len(a) + Len(b) /\ Len(a) \in Nat /\ Len(b) \in Nat
    OBVIOUS
  <2>2. \A k \in 1..Len(a) : d[k] = a[k]
    OBVIOUS
  <2>3. ASSUME NEW k \in 1..Len(b) PROVE d[Len(a) + k] = b[k]
    <3>1. Len(a) + k \in 1..(Len(a) + Len(b)) /\ ~(Len(a) + k <= Len(a))
      BY <2>1
    <3> QED
      BY <2>1, <3>1
  <2> QED
    BY <2>1, <2>2, <2>3
<1> HIDE DEF d
<1>2. /\ DOMAIN (d \o c) = 1..(Len(d) + Len(c))
      /\ \A k \in 1..Len(d) : (d \o c)[k] = d[k]
      /\ \A k \in 1..Len(c) : (d \o c)[Len(d) + k] = c[k]
  <2>0. d \in Seq(Nat)
    BY <1>1
  <2>1. DOMAIN (d \o c) = 1..(Len(d) + Len(c)) /\ Len(d) \in Nat /\ Len(c) \in Nat
    BY ONLY <2>0, c \in Seq(Nat)
  <2>2. \A k \in 1..Len(d) : (d \o c)[k] = d[k]
    BY <1>1
  <2>3. ASSUME NEW k \in 1..Len(c) PROVE (d \o c)[Len(d) + k] = c[k]
    <3>1. Len(d) + k \in 1..(Len(d) + Len(c)) /\ ~(Len(d) + k <= Len(d))
      BY <2>1
    <3> QED
      BY <1>1, <2>1, <3>1, SMTT(60)
  <2> QED
    BY <2>1, <2>2, <2>3
<1>3. Len(a) \in Nat /\ Len(b) \in Nat /\ Len(c) \in Nat
  OBVIOUS
<1>4. \A k \in 1..Len(a) : k \in 1..Len(d)
  BY <1>1, <1>3
<1>5. \A k \in 1..Len(b) : Len(a) + k \in 1..Len(d)
  BY <1>1, <1>3
<1> QED
  BY <1>1, <1>2, <1>3, <1>4, <1>5 DEF d

(* What a window was told of was taken by its process at the same place.   *)
LEMMA ShownTaken ==
  ASSUME OrderInv, NEW i \in Instances, NEW k \in DOMAIN shown[i]
  PROVE  k \in DOMAIN taken[i] /\ taken[i][k] = shown[i][k]
<1>1. /\ shown[i] \in Seq(Nat) /\ queue[i] \in Seq(Nat) /\ saved[i] \in Seq(Nat)
      /\ shown[i] # <<>>
  BY DEF OrderInv, OrderTypes
<1>2. taken[i] = shown[i] \o queue[i] \o saved[i]
  BY <1>1 DEF OrderInv, Order, Fresh, Whole
<1> DEFINE a == Len(shown[i])
           b == Len(queue[i])
           c == Len(saved[i])
           t == shown[i] \o queue[i] \o saved[i]
<1>3. k \in 1..a /\ a \in Nat /\ b \in Nat /\ c \in Nat
  BY <1>1
<1>4. /\ DOMAIN t = 1..(a + b + c)
      /\ \A m \in 1..a : t[m] = shown[i][m]
      /\ \A m \in 1..b : t[a + m] = queue[i][m]
      /\ \A m \in 1..c : t[a + b + m] = saved[i][m]
  BY ONLY <1>1, Parts, ZenonT(60)
<1>5. taken[i] = t
  BY <1>2
<1> HIDE DEF a, b, c, t
<1> QED
  BY <1>3, <1>4, <1>5

(* No link is shown twice, in one window or in two                         *)
(* (ipcSendCommandLine(), handleURIConnection(), uiReady()).               *)
THEOREM ShownAtMostOnce ==
  ASSUME {"with_link", "alone", "ends_idle"} \subseteq Discipline
  PROVE  Spec => []ShownOnce
<1>1. DeliveryInv => ShownOnce
  <2> SUFFICES ASSUME DeliveryInv, Given, NEW i \in Instances, NEW j \in Instances,
                      NEW k \in DOMAIN shown[i], NEW l \in DOMAIN shown[j],
                      shown[i][k] = shown[j][l]
               PROVE  i = j /\ k = l
    BY DEF ShownOnce
  <2>1. Once /\ OrderInv
    BY DEF DeliveryInv, OnceInv, Orderly, Given
  <2>2. /\ k \in Nat /\ l \in Nat /\ shown[i][k] \in Nat
    <3>1. shown[i] \in Seq(Nat) /\ shown[j] \in Seq(Nat)
      BY <2>1 DEF OrderInv, OrderTypes
    <3> QED
      BY <3>1, SMTT(60)
  <2>3. At("taken", i, k, shown[i][k]) /\ At("taken", j, l, shown[i][k])
    BY <2>1, ShownTaken DEF At
  <2> QED
    BY <2>1, <2>2, <2>3 DEF Once, Kinds
<1> QED
  BY <1>1, DeliveryInvariance, PTL

(* No link is lost: each is held by a process that runs, or was shown.     *)
THEOREM NoneLost ==
  ASSUME Discipline = Disciplines
  PROVE  Spec => []NothingLost
<1>1. DeliveryInv => NothingLost
  <2> SUFFICES ASSUME DeliveryInv, Given, NEW r \in 1..asked
               PROVE  Held(r) \/ \E i \in Instances : r \in ToSet(shown[i])
    BY DEF NothingLost
  <2>1. Somewhere /\ Left /\ OrderInv
    BY DEF DeliveryInv, SomewhereInv, LeftInv, Orderly, Given, Disciplines
  <2>2. PICK x \in Kinds, i \in Instances, k \in Nat : At(x, i, k, r)
    BY <2>1 DEF Somewhere
  <2>3. CASE x = "unsent"
    <3>1. pc[i] # "ended" /\ r \in ToSet(saved[i])
      BY <2>2, <2>3 DEF At, Unsent, Sending, ToSet
    <3> QED
      BY <3>1 DEF Held
  <2>4. CASE x = "inbox"
    <3>1. inbox[i][k] \in ToSet(inbox[i]) /\ inbox[i][k][1] = r /\ inbox[i] # <<>>
      BY <2>2, <2>4 DEF At, ToSet
    <3>2. pc[i] # "ended"
      BY <2>1, <3>1 DEF Left
    <3> QED
      BY <3>1, <3>2 DEF Held
  <2>5. CASE x = "taken"
    <3>1. k \in DOMAIN taken[i] /\ taken[i][k] = r
      BY <2>2, <2>5 DEF At
    <3>2. CASE taken[i] = shown[i]
      BY <3>1, <3>2 DEF ToSet
    <3>3. CASE taken[i] # shown[i]
      <4>1. /\ pc[i] # "ended" /\ taken[i] = shown[i] \o queue[i] \o saved[i]
            /\ shown[i] \in Seq(Nat) /\ queue[i] \in Seq(Nat) /\ saved[i] \in Seq(Nat)
        BY <2>1, <3>3 DEF Left, OrderInv, OrderTypes, Order, Whole
      <4>2. \/ k \in DOMAIN shown[i] /\ shown[i][k] = r
            \/ \E m \in DOMAIN queue[i] : queue[i][m] = r
            \/ \E m \in DOMAIN saved[i] : saved[i][m] = r
        <5> DEFINE a == Len(shown[i])
                   b == Len(queue[i])
                   c == Len(saved[i])
                   t == shown[i] \o queue[i] \o saved[i]
        <5>0. /\ a \in Nat /\ b \in Nat /\ c \in Nat /\ DOMAIN shown[i] = 1..a
              /\ DOMAIN queue[i] = 1..b /\ DOMAIN saved[i] = 1..c
          BY <4>1
        <5>p. /\ DOMAIN t = 1..(a + b + c)
              /\ \A m \in 1..a : t[m] = shown[i][m]
              /\ \A m \in 1..b : t[a + m] = queue[i][m]
              /\ \A m \in 1..c : t[a + b + m] = saved[i][m]
          BY ONLY <4>1, Parts, Zenon
        <5>1. k \in 1..(a + b + c) /\ t[k] = r
          BY <3>1, <4>1, <5>p
        <5> HIDE DEF a, b, c, t
        <5>2. CASE k <= a
          BY <5>0, <5>1, <5>p, <5>2
        <5>3. CASE a < k /\ k <= a + b
          <6>1. k - a \in 1..b /\ a + (k - a) = k
            BY <5>0, <5>1, <5>3
          <6> QED
            BY <5>0, <5>1, <5>p, <6>1, ZenonT(60)
        <5>4. CASE a + b < k
          <6>1. k - a - b \in 1..c /\ a + b + (k - a - b) = k
            BY <5>0, <5>1, <5>4
          <6> QED
            BY <5>0, <5>1, <5>p, <6>1, ZenonT(60)
        <5> QED
          BY <5>0, <5>1, <5>2, <5>3, <5>4
      <4> QED
        BY <4>1, <4>2 DEF Held, ToSet
    <3> QED
      BY <3>2, <3>3
  <2> QED
    BY <2>3, <2>4, <2>5 DEF Kinds
<1> QED
  BY <1>1, DeliveryInvariance, PTL
=============================================================================
