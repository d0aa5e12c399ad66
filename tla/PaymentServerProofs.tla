------------------------ MODULE PaymentServerProofs ------------------------
(***************************************************************************)
(* Two facts about the processes that payment links start, for any set of  *)
(* processes, any number of links and any timing: no discipline is assumed.*)
(*                                                                         *)
(* At most one process has the wallet.  The lock file alone ensures it, not*)
(* the socket: a process between its tryLock() and its unlock has made the *)
(* file that is there.  A lock is taken over only from a process that has  *)
(* ended, which is none of these.                                          *)
(*                                                                         *)
(* A window is told of the requests in the order its process took them on  *)
(* itself: what was taken is at any time what was shown, then what is      *)
(* posted to the window, then what is kept for it, and nothing is kept     *)
(* once the window is ready.                                               *)
(***************************************************************************)
EXTENDS PaymentServer, SequenceTheorems, TLAPS

Places == {"off", "send", "write", "remove", "listen", "lock", "init", "loop",
           "refused", "quitting", "unlock", "close", "ended"}

(* From tryLock() to the end of main().                                    *)
Inside == {"init", "loop", "quitting", "unlock"}
HasLock(i) == pc[i] \in Inside

(* Where the processes are, and that the lock is that of the one which     *)
(* went through it.                                                        *)
LockInv ==
  /\ pc \in [Instances -> Places]
  /\ lock \in Instances \union {None}
  /\ \A i \in Instances : HasLock(i) => lock = i

(* LockInv holds before any process was started.                           *)
LEMMA LockInit == Init => LockInv
  BY DEF Init, LockInv, Places, HasLock, Inside

(* A step that leaves the lock alone keeps LockInv if it moves one process *)
(* to a place outside, or to one inside from inside.                       *)
LEMMA Moves ==
  ASSUME LockInv, NEW i \in Instances, lock' = lock,
         \/ \E to \in Places \ Inside : pc' = [pc EXCEPT ![i] = to]
         \/ HasLock(i) /\ \E to \in Inside : pc' = [pc EXCEPT ![i] = to]
  PROVE  LockInv'
  BY DEF LockInv, Places, Inside, HasLock

(* Every step keeps LockInv.                                               *)
LEMMA LockNext == LockInv /\ [Next]_vars => LockInv'
<1> SUFFICES ASSUME LockInv, [Next]_vars PROVE LockInv'
  OBVIOUS
<1> USE PaymentAssumption
<1>1. CASE UNCHANGED vars
  BY <1>1 DEF vars, places, LockInv, HasLock
<1>2. ASSUME NEW i \in Instances,
             StartAny(i) \/ Main(i) \/ FileOpen(i) \/ Quit(i) \/ Return(i) \/ Crash(i)
      PROVE  LockInv'
  <2>1. CASE StartAny(i)
    <3>1. lock' = lock /\ \E to \in Places \ Inside : pc' = [pc EXCEPT ![i] = to]
      BY <2>1 DEF StartAny, Start, Goes, places, Places, Inside
    <3> QED
      BY <3>1, Moves
  <2>2. CASE Connect(i) \/ Write(i) \/ AllSent(i) \/ StartsUp(i)
    <3>1. lock' = lock /\ \E to \in Places \ Inside : pc' = [pc EXCEPT ![i] = to]
      BY <2>2 DEF Connect, Write, AllSent, StartsUp, Goes, places, Places, Inside
    <3> QED
      BY <3>1, Moves
  <2>3. CASE RemoveServer(i) \/ Listen(i) \/ Dismiss(i) \/ Close(i)
    <3>1. lock' = lock /\ \E to \in Places \ Inside : pc' = [pc EXCEPT ![i] = to]
      BY <2>3 DEF RemoveServer, Listen, Dismiss, Close, Goes, places, Places, Inside
    <3> QED
      BY <3>1, Moves
  <2>4. CASE TryLock(i)
    <3>1. CASE lock = None \/ pc[lock] = "ended"
      <4>1. pc' = [pc EXCEPT ![i] = "init"] /\ lock' = i
        BY <2>4, <3>1 DEF TryLock
      <4>2. \A j \in Instances : ~HasLock(j)
        BY <3>1 DEF LockInv, HasLock, Inside
      <4> QED
        BY <4>1, <4>2 DEF LockInv, HasLock, Inside, Places
    <3>2. CASE ~(lock = None \/ pc[lock] = "ended")
      <4>1. lock' = lock /\ pc' = [pc EXCEPT ![i] = "refused"]
        BY <2>4, <3>2 DEF TryLock
      <4> QED
        BY <4>1, Moves DEF Places, Inside
    <3> QED
      BY <3>1, <3>2
  <2>5. CASE NodeUp(i) \/ Quit(i) \/ Return(i)
    <3>1. /\ lock' = lock /\ HasLock(i)
          /\ \E to \in Inside : pc' = [pc EXCEPT ![i] = to]
      BY <2>5 DEF NodeUp, Quit, Return, Goes, places, HasLock, Inside
    <3> QED
      BY <3>1, Moves
  <2>6. CASE UiReady(i) \/ Show(i) \/ TakeConnection(i) \/ ReadRequest(i) \/ FileOpen(i)
    <3>1. pc' = pc /\ lock' = lock
      BY <2>6 DEF UiReady, Show, TakeConnection, ReadRequest, FileOpen, places
    <3> QED
      BY <3>1 DEF LockInv, HasLock, Inside
  <2>7. CASE Unlock(i)
    <3>1. pc[i] = "unlock" /\ pc' = [pc EXCEPT ![i] = "close"] /\ lock' = None
      BY <2>7 DEF Unlock, Goes
    <3>2. \A j \in Instances : HasLock(j) => j = i
      BY <3>1 DEF LockInv, HasLock, Inside
    <3> QED
      BY <3>1, <3>2 DEF LockInv, HasLock, Inside, Places
  <2>8. CASE Crash(i)
    <3>1. lock' = lock /\ pc' = [pc EXCEPT ![i] = "ended"]
      BY <2>8 DEF Crash
    <3> QED
      BY <3>1, Moves DEF Places, Inside
  <2> QED
    BY <1>2, <2>1, <2>2, <2>3, <2>4, <2>5, <2>6, <2>7, <2>8 DEF Main
<1> QED
  BY <1>1, <1>2 DEF Next

(* The processes hold the lock one at a time, from its file to its end.    *)
THEOREM LockInvariance == Spec => []LockInv
  BY LockInit, LockNext, PTL DEF Spec

(* Two processes never have the wallet's files at once.                    *)
THEOREM WalletExclusive == Spec => []OneWallet
<1>1. LockInv => OneWallet
  BY DEF LockInv, HasLock, Inside, OneWallet
<1> QED
  BY <1>1, LockInvariance, PTL

-----------------------------------------------------------------------------
(* The order of requests.                                                  *)

(* The types of what requests pass through.                                *)
OrderTypes ==
  /\ asked \in Nat /\ sent \in [Instances -> Nat]
  /\ saved \in [Instances -> Seq(Nat)] /\ queue \in [Instances -> Seq(Nat)]
  /\ taken \in [Instances -> Seq(Nat)] /\ shown \in [Instances -> Seq(Nat)]
  /\ saveURIs \in [Instances -> BOOLEAN] /\ reading \in [Instances -> BOOLEAN]
  /\ inbox \in [Instances -> Seq(Nat \X BOOLEAN)]
  /\ listening \subseteq Instances
  /\ \A i \in Instances : reading[i] => inbox[i] # <<>>

(* Before it starts up a process has taken nothing on itself and listens   *)
(* to nobody; what it has taken after is shown, posted or kept, in that    *)
(* order; nothing is kept once the window is ready.                        *)
Early(i) == pc[i] \in {"off", "send", "write"}
Fresh(i) == /\ taken[i] = <<>> /\ shown[i] = <<>> /\ queue[i] = <<>>
            /\ saveURIs[i] /\ ~reading[i]
Whole(i) == taken[i] = shown[i] \o queue[i] \o saved[i]
Order(i) ==
  /\ Early(i) => Fresh(i)
  /\ ~Early(i) => Whole(i) \/ (pc[i] = "ended" /\ shown[i] = <<>>)
  /\ ~saveURIs[i] => saved[i] = <<>>
OrderInv == OrderTypes /\ \A i \in Instances : Order(i)

(* OrderInv holds before any process was started.                          *)
LEMMA OrderInit == Init => OrderInv
  BY DEF Init, OrderInv, OrderTypes, Order, Early, Fresh

(* The rules of sequences that the steps below need.                       *)
LEMMA Assoc == \A s, t, u \in Seq(Nat) : (s \o t) \o u = s \o (t \o u)
  BY ONLY ConcatAssociative, SMTT(60)

LEMMA Keep ==
  ASSUME NEW a \in Seq(Nat), NEW b \in Seq(Nat), NEW c \in Seq(Nat), NEW r \in Nat
  PROVE  a \o b \o Append(c, r) = Append(a \o b \o c, r)
<1>1. a \o b \in Seq(Nat) /\ <<r>> \in Seq(Nat)
  OBVIOUS
<1>2. (a \o b) \o c \in Seq(Nat)
  BY <1>1
<1>3. (a \o b \o c) \o <<r>> = (a \o b) \o (c \o <<r>>)
  BY <1>1, Assoc, ZenonT(60)
<1>4. Append(c, r) = c \o <<r>>
  BY AppendIsConcat, Zenon
<1>5. Append(a \o b \o c, r) = (a \o b \o c) \o <<r>>
  BY <1>2, AppendIsConcat, Zenon
<1> QED
  BY <1>3, <1>4, <1>5, Zenon

LEMMA Post ==
  ASSUME NEW a \in Seq(Nat), NEW b \in Seq(Nat), NEW r \in Nat
  PROVE  a \o Append(b, r) \o <<>> = Append(a \o b \o <<>>, r)
<1>1. /\ <<r>> \in Seq(Nat) /\ Append(b, r) \in Seq(Nat) /\ a \o b \in Seq(Nat)
  OBVIOUS
<1>2. a \o Append(b, r) \in Seq(Nat)
  BY <1>1
<1>3. a \o Append(b, r) \o <<>> = a \o Append(b, r) /\ a \o b \o <<>> = a \o b
  BY ONLY <1>1, <1>2, ConcatEmptySeq, Zenon
<1>4. Append(b, r) = b \o <<r>>
  BY AppendIsConcat, Zenon
<1>5. Append(a \o b, r) = (a \o b) \o <<r>>
  BY <1>1, AppendIsConcat, Zenon
<1>6. (a \o b) \o <<r>> = a \o (b \o <<r>>)
  BY <1>1, Assoc, ZenonT(60)
<1> QED
  BY <1>3, <1>4, <1>5, <1>6, Zenon

LEMMA Release ==
  ASSUME NEW a \in Seq(Nat), NEW b \in Seq(Nat), NEW c \in Seq(Nat)
  PROVE  a \o (b \o c) \o <<>> = a \o b \o c
<1>1. b \o c \in Seq(Nat)
  OBVIOUS
<1>2. a \o (b \o c) \in Seq(Nat)
  BY <1>1
<1>3. a \o (b \o c) \o <<>> = a \o (b \o c)
  BY <1>2, ConcatEmptySeq, Zenon
<1>4. (a \o b) \o c = a \o (b \o c)
  BY Assoc, Zenon
<1> QED
  BY <1>3, <1>4, Zenon

LEMMA Tell ==
  ASSUME NEW a \in Seq(Nat), NEW b \in Seq(Nat), NEW c \in Seq(Nat), b # <<>>
  PROVE  Append(a, Head(b)) \o Tail(b) \o c = a \o b \o c
<1>1. Head(b) \in Nat /\ Tail(b) \in Seq(Nat)
  OBVIOUS
<1>2. b = <<Head(b)>> \o Tail(b)
  <2> DEFINE N == Nat
  <2>1. b \in Seq(N)
    OBVIOUS
  <2> HIDE DEF N
  <2> QED
    BY ONLY <2>1, b # <<>>, SMTT(30)
<1>3. <<Head(b)>> \in Seq(Nat)
  BY <1>1
<1>4. Append(a, Head(b)) = a \o <<Head(b)>>
  BY <1>1, AppendIsConcat, Zenon
<1>5. (a \o <<Head(b)>>) \o Tail(b) = a \o (<<Head(b)>> \o Tail(b))
  BY <1>1, <1>3, Assoc, ZenonT(60)
<1> QED
  BY <1>2, <1>4, <1>5, Zenon

(* A process that takes on a request has it kept or posted, and all else   *)
(* about it stays as it was.                                               *)
LEMMA Receives ==
  ASSUME OrderInv, NEW i \in Instances, NEW r \in Nat, Receive(i, r),
         ~Early(i), pc[i] # "ended", UNCHANGED <<pc, saveURIs, shown>>,
         reading' = reading \/ reading' = [reading EXCEPT ![i] = FALSE]
  PROVE  /\ saved' \in [Instances -> Seq(Nat)] /\ queue' \in [Instances -> Seq(Nat)]
         /\ taken' \in [Instances -> Seq(Nat)]
         /\ \A j \in Instances : Order(j)'
<1> USE DEF OrderInv, OrderTypes
<1>0. /\ saved[i] \in Seq(Nat) /\ queue[i] \in Seq(Nat)
      /\ shown[i] \in Seq(Nat) /\ taken[i] \in Seq(Nat)
  OBVIOUS
<1>1. Whole(i)
  BY DEF Order
<1>2. taken' = [taken EXCEPT ![i] = Append(taken[i], r)]
  BY DEF Receive
<1>3. CASE saveURIs[i]
  <2>1. queue' = queue /\ saved' = [saved EXCEPT ![i] = Append(saved[i], r)]
    BY <1>3 DEF Receive
  <2>2. shown[i] \o queue[i] \o Append(saved[i], r) = Append(shown[i] \o queue[i] \o saved[i], r)
    BY ONLY <1>0, r \in Nat, Keep, ZenonT(60)
  <2>3. Order(i)'
    BY <1>1, <1>2, <1>3, <2>1, <2>2 DEF Order, Early, Fresh, Whole
  <2>4. \A j \in Instances \ {i} : Order(j)'
    BY <1>2, <2>1 DEF Order, Early, Fresh, Whole
  <2>5. Append(saved[i], r) \in Seq(Nat) /\ Append(taken[i], r) \in Seq(Nat)
    OBVIOUS
  <2>6. saved' \in [Instances -> Seq(Nat)] /\ taken' \in [Instances -> Seq(Nat)]
    BY <1>2, <2>1, <2>5, Zenon
  <2> QED
    BY <2>1, <2>3, <2>4, <2>6
<1>4. CASE ~saveURIs[i]
  <2>1. saved' = saved /\ queue' = [queue EXCEPT ![i] = Append(queue[i], r)]
    BY <1>4 DEF Receive
  <2>2. saved[i] = <<>>
    BY <1>4 DEF Order
  <2>3. shown[i] \o Append(queue[i], r) \o <<>> = Append(shown[i] \o queue[i] \o <<>>, r)
    BY ONLY <1>0, r \in Nat, Post, Zenon
  <2>4. Order(i)'
    BY <1>1, <1>2, <1>4, <2>1, <2>2, <2>3 DEF Order, Early, Fresh, Whole
  <2>5. \A j \in Instances \ {i} : Order(j)'
    BY <1>2, <2>1 DEF Order, Early, Fresh, Whole
  <2>6. Append(queue[i], r) \in Seq(Nat) /\ Append(taken[i], r) \in Seq(Nat)
    OBVIOUS
  <2>7. queue' \in [Instances -> Seq(Nat)] /\ taken' \in [Instances -> Seq(Nat)]
    BY <1>2, <2>1, <2>6, Zenon
  <2> QED
    BY <2>1, <2>4, <2>5, <2>7
<1> QED
  BY <1>3, <1>4

(* A process that moves on and leaves its requests alone keeps the order,  *)
(* unless it moves from before its start-up to after it, or ended.         *)
LEMMA MovesOn ==
  ASSUME LockInv, OrderInv, NEW i \in Instances, NEW to,
         pc' = [pc EXCEPT ![i] = to], pc[i] # "ended",
         to \in {"off", "send", "write"} => Early(i),
         Early(i) => to \in {"off", "send", "write", "ended"},
         UNCHANGED <<saved, queue, taken, shown, saveURIs, reading>>
  PROVE  \A j \in Instances : Order(j)'
<1>1. Order(i)'
  BY DEF LockInv, OrderInv, Order, Early, Fresh, Whole
<1>2. ASSUME NEW j \in Instances \ {i} PROVE Order(j)'
  <2>1. Order(j) /\ pc'[j] = pc[j]
    BY DEF LockInv, OrderInv
  <2> QED
    BY <2>1 DEF Order, Early, Fresh, Whole
<1> QED
  BY <1>1, <1>2

(* Every step keeps OrderInv.                                              *)
LEMMA OrderNext == LockInv /\ OrderInv /\ [Next]_vars => OrderInv'
<1> SUFFICES ASSUME LockInv, OrderInv, [Next]_vars PROVE OrderInv'
  OBVIOUS
<1> USE PaymentAssumption
<1>1. CASE UNCHANGED vars
  BY <1>1 DEF vars, places, OrderInv, OrderTypes, Order, Early, Fresh, Whole
<1>2. ASSUME NEW i \in Instances,
             StartAny(i) \/ Main(i) \/ FileOpen(i) \/ Quit(i) \/ Return(i) \/ Crash(i)
      PROVE  OrderInv'
  <2>0. OrderTypes /\ Order(i)
    BY DEF OrderInv
  <2>1. CASE StartAny(i)
    <3>1. PICK n \in 0..MaxLinks : Start(i, n)
      BY <2>1 DEF StartAny
    <3>2. /\ pc[i] = "off" /\ pc' = [pc EXCEPT ![i] = "send"]
          /\ saved' = [saved EXCEPT ![i] = [k \in 1..n |-> asked + k]]
          /\ asked' = asked + n
          /\ UNCHANGED <<sent, saveURIs, inbox, reading, queue, listening, taken, shown>>
      BY <3>1 DEF Start, Goes, places
    <3>3. [k \in 1..n |-> asked + k] \in Seq(Nat)
      BY <2>0 DEF OrderTypes
    <3>4. saved' \in [Instances -> Seq(Nat)] /\ asked' \in Nat
      BY <2>0, <3>2, <3>3 DEF OrderTypes
    <3>5. Order(i)'
      BY <2>0, <3>2 DEF Order, Early, Fresh, LockInv, OrderTypes
    <3>6. ASSUME NEW j \in Instances \ {i} PROVE Order(j)'
      <4>1. Order(j) /\ pc'[j] = pc[j] /\ saved'[j] = saved[j]
        BY <2>0, <3>2 DEF LockInv, OrderInv, OrderTypes
      <4> QED
        BY <3>2, <4>1 DEF Order, Early, Fresh, Whole
    <3> QED
      BY <2>0, <3>2, <3>4, <3>5, <3>6 DEF OrderInv, OrderTypes
  <2>2. CASE Connect(i)
    <3>1. /\ pc[i] = "send" /\ pc' = [pc EXCEPT ![i] = "write"]
          /\ sent[i] < Len(saved[i]) /\ file \in listening
          /\ inbox' = [inbox EXCEPT ![file] = Append(inbox[file], <<saved[i][sent[i] + 1], FALSE>>)]
          /\ UNCHANGED <<sent, saved, saveURIs, reading, queue, listening, asked, taken, shown>>
      BY <2>2 DEF Connect, Goes, Reachable, places, history
    <3>2. saved[i][sent[i] + 1] \in Nat /\ file \in Instances
      BY <2>0, <3>1, SMTT(60) DEF OrderTypes
    <3>3. /\ inbox' \in [Instances -> Seq(Nat \X BOOLEAN)]
          /\ \A j \in Instances : reading'[j] => inbox'[j] # <<>>
      <4> DEFINE C == Nat \X BOOLEAN
                 c == <<saved[i][sent[i] + 1], FALSE>>
      <4>1. /\ c \in C /\ inbox \in [Instances -> Seq(C)] /\ file \in Instances
            /\ inbox' = [inbox EXCEPT ![file] = Append(inbox[file], c)]
        BY <2>0, <3>1, <3>2 DEF OrderTypes
      <4> HIDE DEF C, c
      <4>2. Append(inbox[file], c) \in Seq(C) /\ Append(inbox[file], c) # <<>>
        BY <4>1
      <4>3. inbox' \in [Instances -> Seq(C)]
        BY <4>1, <4>2
      <4>4. ASSUME NEW j \in Instances, reading'[j] PROVE inbox'[j] # <<>>
        BY <2>0, <3>1, <4>1, <4>2, <4>4 DEF OrderTypes
      <4> QED
        BY <4>3, <4>4 DEF C
    <3>4. \A j \in Instances : Order(j)'
      BY <3>1, MovesOn DEF Early
    <3> QED
      BY <2>0, <3>1, <3>3, <3>4 DEF OrderInv, OrderTypes
  <2>3. CASE Write(i)
    <3> DEFINE r == saved[i][sent[i] + 1]
    <3>1. /\ pc[i] = "write" /\ pc' = [pc EXCEPT ![i] = "send"]
          /\ inbox' = [j \in Instances |-> [k \in DOMAIN inbox[j] |->
                        IF inbox[j][k][1] = r THEN <<r, TRUE>> ELSE inbox[j][k]]]
          /\ sent' = [sent EXCEPT ![i] = sent[i] + 1]
          /\ UNCHANGED <<saved, saveURIs, reading, queue, listening, asked, taken, shown>>
      BY <2>3 DEF Write, Goes, places, history
    <3>2. ASSUME NEW j \in Instances
          PROVE  inbox'[j] \in Seq(Nat \X BOOLEAN) /\ (inbox[j] # <<>> => inbox'[j] # <<>>)
      <4>1. inbox[j] \in Seq(Nat \X BOOLEAN) /\ DOMAIN inbox[j] = 1..Len(inbox[j])
        BY <2>0 DEF OrderTypes
      <4>2. /\ inbox'[j] = [k \in 1..Len(inbox[j]) |->
                  IF inbox[j][k][1] = r THEN <<r, TRUE>> ELSE inbox[j][k]]
        BY <3>1, <4>1
      <4>3. \A k \in 1..Len(inbox[j]) :
              (IF inbox[j][k][1] = r THEN <<r, TRUE>> ELSE inbox[j][k]) \in Nat \X BOOLEAN
        <5> TAKE k \in 1..Len(inbox[j])
        <5>1. inbox[j][k] \in Nat \X BOOLEAN
          BY <4>1
        <5>2. inbox[j][k][1] \in Nat
          BY <5>1
        <5> HIDE DEF r
        <5> QED
          BY <5>1, <5>2
      <4> DEFINE C == Nat \X BOOLEAN
                 w(k) == IF inbox[j][k][1] = r THEN <<r, TRUE>> ELSE inbox[j][k]
      <4>4. /\ inbox[j] \in Seq(C) /\ inbox'[j] = [k \in 1..Len(inbox[j]) |-> w(k)]
            /\ \A k \in 1..Len(inbox[j]) : w(k) \in C
        BY <4>1, <4>2, <4>3
      <4>5. inbox'[j] \in Seq(C) /\ Len(inbox'[j]) = Len(inbox[j])
        <5> HIDE DEF C, w
        <5> QED
          BY <4>4
      <4> QED
        BY <4>1, <4>5
    <3>3. \A j \in Instances : Order(j)'
      BY <3>1, MovesOn DEF Early
    <3>4. inbox' \in [Instances -> Seq(Nat \X BOOLEAN)]
      <4> DEFINE S == Seq(Nat \X BOOLEAN)
                 f(j) == [k \in DOMAIN inbox[j] |->
                           IF inbox[j][k][1] = r THEN <<r, TRUE>> ELSE inbox[j][k]]
      <4>1. inbox' = [j \in Instances |-> f(j)] /\ \A j \in Instances : f(j) \in S
        BY <3>1, <3>2
      <4> HIDE DEF S, f
      <4>2. inbox' \in [Instances -> S]
        BY <4>1
      <4> QED
        BY <4>2 DEF S
    <3>5. sent' \in [Instances -> Nat]
      BY <2>0, <3>1 DEF OrderTypes
    <3> QED
      BY <2>0, <3>1, <3>2, <3>3, <3>4, <3>5 DEF OrderInv, OrderTypes
  <2>4. CASE StartsUp(i)
    <3>1. /\ pc[i] = "send" /\ pc' = [pc EXCEPT ![i] = "remove"]
          /\ taken' = [taken EXCEPT ![i] = saved[i]]
          /\ UNCHANGED <<sent, saved, saveURIs, inbox, reading, queue, listening, asked, shown>>
      BY <2>4 DEF StartsUp, Goes, places
    <3>2. taken' \in [Instances -> Seq(Nat)]
      BY <2>0, <3>1 DEF OrderTypes
    <3>3. saved[i] = <<>> \o <<>> \o saved[i]
      BY <2>0 DEF OrderTypes
    <3>4. Order(i)'
      BY <2>0, <3>1, <3>3 DEF Order, Early, Fresh, Whole, LockInv, OrderTypes
    <3>5. ASSUME NEW j \in Instances \ {i} PROVE Order(j)'
      <4>1. Order(j) /\ pc'[j] = pc[j] /\ taken'[j] = taken[j]
        BY <2>0, <3>1 DEF LockInv, OrderInv, OrderTypes
      <4> QED
        BY <3>1, <4>1 DEF Order, Early, Fresh, Whole
    <3> QED
      BY <2>0, <3>1, <3>2, <3>4, <3>5 DEF OrderInv, OrderTypes
  <2>5. CASE UiReady(i)
    <3>1. /\ pc[i] \in {"loop", "quitting"} /\ saveURIs[i]
          /\ saveURIs' = [saveURIs EXCEPT ![i] = FALSE]
          /\ queue' = [queue EXCEPT ![i] = queue[i] \o saved[i]]
          /\ saved' = [saved EXCEPT ![i] = <<>>]
          /\ UNCHANGED <<pc, sent, inbox, reading, listening, asked, taken, shown>>
      BY <2>5 DEF UiReady, places, history
    <3>2. /\ saved[i] \in Seq(Nat) /\ queue[i] \in Seq(Nat) /\ shown[i] \in Seq(Nat)
      BY <2>0 DEF OrderTypes
    <3>3. shown[i] \o (queue[i] \o saved[i]) \o <<>> = shown[i] \o queue[i] \o saved[i]
      BY ONLY <3>2, Release, Zenon
    <3>4. queue[i] \o saved[i] \in Seq(Nat) /\ <<>> \in Seq(Nat)
      BY <3>2
    <3>5. /\ queue' \in [Instances -> Seq(Nat)] /\ saved' \in [Instances -> Seq(Nat)]
          /\ saveURIs' \in [Instances -> BOOLEAN]
      BY <2>0, <3>1, <3>4 DEF OrderTypes
    <3>6. Whole(i)
      BY <2>0, <3>1 DEF Order, Early
    <3>7. /\ queue'[i] = queue[i] \o saved[i] /\ saved'[i] = <<>> /\ ~saveURIs'[i]
      BY <2>0, <3>1 DEF OrderTypes
    <3>8. Whole(i)'
      BY <3>1, <3>3, <3>6, <3>7, Zenon DEF Whole
    <3>9. Order(i)'
      BY <3>1, <3>7, <3>8 DEF Order, Early
    <3>10. ASSUME NEW j \in Instances \ {i} PROVE Order(j)'
      <4>1. Order(j) /\ saved'[j] = saved[j] /\ queue'[j] = queue[j] /\ saveURIs'[j] = saveURIs[j]
        BY <2>0, <3>1 DEF OrderInv, OrderTypes
      <4> QED
        BY <3>1, <4>1 DEF Order, Early, Fresh, Whole
    <3> QED
      BY <2>0, <3>1, <3>5, <3>9, <3>10 DEF OrderInv, OrderTypes
  <2>6. CASE Show(i)
    <3>1. /\ Handles(i) /\ queue[i] # <<>>
          /\ shown' = [shown EXCEPT ![i] = Append(shown[i], Head(queue[i]))]
          /\ queue' = [queue EXCEPT ![i] = Tail(queue[i])]
          /\ UNCHANGED <<pc, sent, saved, saveURIs, inbox, reading, listening, asked, taken>>
      BY <2>6 DEF Show, places
    <3>2. /\ saved[i] \in Seq(Nat) /\ queue[i] \in Seq(Nat) /\ shown[i] \in Seq(Nat)
      BY <2>0 DEF OrderTypes
    <3>3. Append(shown[i], Head(queue[i])) \o Tail(queue[i]) \o saved[i]
            = shown[i] \o queue[i] \o saved[i]
      BY ONLY <3>1, <3>2, Tell, Zenon
    <3>4. Append(shown[i], Head(queue[i])) \in Seq(Nat) /\ Tail(queue[i]) \in Seq(Nat)
      BY <3>1, <3>2
    <3>5. /\ queue' \in [Instances -> Seq(Nat)] /\ shown' \in [Instances -> Seq(Nat)]
      BY <2>0, <3>1, <3>4 DEF OrderTypes
    <3>6. Whole(i) /\ ~Early(i)
      BY <2>0, <3>1 DEF Order, Early, Handles
    <3>7. /\ queue'[i] = Tail(queue[i])
          /\ shown'[i] = Append(shown[i], Head(queue[i]))
      BY <2>0, <3>1 DEF OrderTypes
    <3>8. Whole(i)'
      BY <3>1, <3>3, <3>6, <3>7, Zenon DEF Whole
    <3>9. Order(i)'
      BY <2>0, <3>1, <3>6, <3>8 DEF Order, Early
    <3>10. ASSUME NEW j \in Instances \ {i} PROVE Order(j)'
      <4>1. Order(j) /\ queue'[j] = queue[j] /\ shown'[j] = shown[j]
        BY <2>0, <3>1 DEF OrderInv, OrderTypes
      <4> QED
        BY <3>1, <4>1 DEF Order, Early, Fresh, Whole
    <3> QED
      BY <2>0, <3>1, <3>5, <3>9, <3>10 DEF OrderInv, OrderTypes
  <2>7. CASE TakeConnection(i)
    <3>1. /\ ~Early(i) /\ inbox[i] # <<>>
          /\ reading' = [reading EXCEPT ![i] = TRUE]
          /\ UNCHANGED <<pc, sent, saved, saveURIs, inbox, queue, listening, asked, taken, shown>>
      BY <2>7 DEF TakeConnection, Handles, Early, places, history
    <3>2. /\ reading' \in [Instances -> BOOLEAN]
          /\ \A j \in Instances : reading'[j] => inbox'[j] # <<>>
      BY <2>0, <3>1 DEF OrderTypes
    <3>3. Order(i)'
      BY <2>0, <3>1 DEF Order, Early, Whole
    <3>4. ASSUME NEW j \in Instances \ {i} PROVE Order(j)'
      <4>1. Order(j) /\ reading'[j] = reading[j]
        BY <2>0, <3>1 DEF OrderInv, OrderTypes
      <4> QED
        BY <3>1, <4>1 DEF Order, Early, Fresh, Whole
    <3> QED
      BY <2>0, <3>1, <3>2, <3>3, <3>4 DEF OrderInv, OrderTypes
  <2>8. CASE ReadRequest(i)
    <3> DEFINE r == Head(inbox[i])[1]
    <3>1. /\ pc[i] # "ended" /\ reading[i]
          /\ reading' = [reading EXCEPT ![i] = FALSE]
          /\ inbox' = [inbox EXCEPT ![i] = Tail(inbox[i])]
          /\ Receive(i, r)
          /\ UNCHANGED <<pc, sent, saveURIs, listening, asked, shown>>
      BY <2>8 DEF ReadRequest, places
    <3>2. inbox[i] \in Seq(Nat \X BOOLEAN) /\ inbox[i] # <<>>
      BY <2>0, <3>1 DEF OrderTypes
    <3>3. Head(inbox[i]) \in Nat \X BOOLEAN /\ Tail(inbox[i]) \in Seq(Nat \X BOOLEAN)
      BY <3>2
    <3>4. r \in Nat
      BY <3>3
    <3>5. ~Early(i)
      BY <2>0, <3>1 DEF Order, Fresh
    <3> HIDE DEF r
    <3>6. /\ saved' \in [Instances -> Seq(Nat)] /\ queue' \in [Instances -> Seq(Nat)]
          /\ taken' \in [Instances -> Seq(Nat)] /\ \A j \in Instances : Order(j)'
      BY <3>1, <3>4, <3>5, Receives
    <3>7. /\ inbox' \in [Instances -> Seq(Nat \X BOOLEAN)] /\ reading' \in [Instances -> BOOLEAN]
          /\ \A j \in Instances : reading'[j] => inbox'[j] # <<>>
      BY <2>0, <3>1, <3>3 DEF OrderTypes
    <3> QED
      BY <2>0, <3>1, <3>6, <3>7 DEF OrderInv, OrderTypes
  <2>9. CASE FileOpen(i)
    <3>1. /\ ~Early(i) /\ pc[i] # "ended"
          /\ asked' = asked + 1 /\ Receive(i, asked + 1)
          /\ UNCHANGED <<pc, sent, saveURIs, inbox, reading, listening, shown>>
      BY <2>9 DEF FileOpen, Handles, Early, places
    <3>2. asked + 1 \in Nat
      BY <2>0 DEF OrderTypes
    <3>3. /\ saved' \in [Instances -> Seq(Nat)] /\ queue' \in [Instances -> Seq(Nat)]
          /\ taken' \in [Instances -> Seq(Nat)] /\ \A j \in Instances : Order(j)'
      BY <3>1, <3>2, Receives
    <3> QED
      BY <2>0, <3>1, <3>2, <3>3 DEF OrderInv, OrderTypes
  <2>10. CASE \/ AllSent(i) \/ RemoveServer(i) \/ Listen(i) \/ TryLock(i) \/ NodeUp(i)
              \/ Unlock(i) \/ Dismiss(i) \/ Close(i) \/ Quit(i) \/ Return(i) \/ Crash(i)
    <3>1. /\ pc[i] # "ended" /\ listening' \subseteq Instances
          /\ UNCHANGED <<asked, sent, saved, saveURIs, inbox, reading, queue, taken, shown>>
          /\ \E to : /\ pc' = [pc EXCEPT ![i] = to] /\ to \notin {"off", "send", "write"}
                     /\ Early(i) => to = "ended"
      BY <2>0, <2>10 DEF AllSent, RemoveServer, Listen, TryLock, NodeUp, Unlock, Dismiss, Close,
         Quit, Return, Crash, Goes, places, history, OrderTypes, Early
    <3>2. \A j \in Instances : Order(j)'
      BY <3>1, MovesOn
    <3> QED
      BY <2>0, <3>1, <3>2 DEF OrderInv, OrderTypes
  <2> QED
    BY <1>2, <2>1, <2>2, <2>3, <2>4, <2>5, <2>6, <2>7, <2>8, <2>9, <2>10 DEF Main
<1> QED
  BY <1>1, <1>2 DEF Next

(* What a process has taken, shown, posted and kept agree, at any time.    *)
THEOREM OrderInvariance == Spec => []OrderInv
  BY LockInvariance, OrderInit, OrderNext, PTL DEF Spec

(* What comes first is a prefix.                                           *)
LEMMA First ==
  ASSUME NEW a \in Seq(Nat), NEW b \in Seq(Nat), NEW c \in Seq(Nat)
  PROVE  IsPrefix(a, a \o b \o c)
<1>1. a \o b \o c = a \o (b \o c)
  BY Assoc, Zenon
<1>2. ASSUME NEW d \in Seq(Nat) PROVE IsPrefix(a, a \o d)
  <2>1. Len(a) \in Nat /\ Len(d) \in Nat /\ Len(a \o d) = Len(a) + Len(d)
    BY <1>2
  <2>2. CASE a = <<>>
    <3>1. SubSeq(a, 1, Len(a)) = <<>> /\ SubSeq(a \o d, 1, Len(a)) = <<>>
      BY <1>2, <2>1, <2>2
    <3> QED
      BY <2>1, <3>1 DEF IsPrefix
  <2>3. CASE a # <<>>
    <3>1. 1 \in 1..Len(a) /\ Len(a) \in 1..Len(a)
      BY <2>3
    <3>2. SubSeq(a \o d, 1, Len(a)) = SubSeq(a, 1, Len(a))
      BY <1>2, <3>1, SubSeqOfConcat1, Zenon
    <3> QED
      BY <2>1, <3>2 DEF IsPrefix
  <2> QED
    BY <2>2, <2>3
<1>3. b \o c \in Seq(Nat)
  OBVIOUS
<1>4. IsPrefix(a, a \o (b \o c))
  BY <1>2, <1>3, Zenon
<1> QED
  BY ONLY <1>1, <1>4, Zenon

(* A window is told of the requests in the order its process took them.    *)
THEOREM ToldInOrder == Spec => []InOrder
<1>1. ASSUME OrderInv, NEW i \in Instances PROVE IsPrefix(shown[i], taken[i])
  <2>1. /\ shown[i] \in Seq(Nat) /\ taken[i] \in Seq(Nat)
        /\ queue[i] \in Seq(Nat) /\ saved[i] \in Seq(Nat)
    BY <1>1 DEF OrderInv, OrderTypes
  <2>2. CASE shown[i] = <<>>
    BY <2>1, <2>2 DEF IsPrefix
  <2>3. CASE Whole(i)
    BY <2>1, <2>3, First DEF Whole
  <2> QED
    BY <1>1, <2>2, <2>3 DEF OrderInv, Order, Fresh
<1>2. OrderInv => InOrder
  BY <1>1 DEF InOrder
<1> QED
  BY <1>2, OrderInvariance, PTL
=============================================================================
