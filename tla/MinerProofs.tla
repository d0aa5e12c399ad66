----------------------------- MODULE MinerProofs -----------------------------
(***************************************************************************)
(* Theorems about Miner for any set of workers and any bounds: its types,  *)
(* that no thread is leaked, that mining has its full crew of threads, and *)
(* that no two threads hash the same nonce.                                *)
(***************************************************************************)
EXTENDS Miner, FiniteSetTheorems, TLAPS

(* Where the GUI thread is in a call tells how m_threads and the thread    *)
(* counts relate, and who may be waiting to be joined.                     *)
Phase ==
  /\ joining # {} => pc \in {"shrinking", "renonce", "joining", "stopping"}
  /\ pc \in {"spawning", "growing"} => Size <= target /\ target = total
  /\ pc = "shrinking" => target <= Size /\ target = total
  /\ pc \in {"renonce", "joining"} => Size = total
  /\ pc = "idle" /\ ~stopMining => Size = total
  /\ pc = "stopping" => stopMining /\ threads = {}

(* A thread exists exactly when it is in one of the two lists.             *)
Tracked ==
  /\ \A w \in Workers : wpc[w] # "free" <=> w \in threads \cup joining
  /\ threads \cap joining = {}

(* The threads in m_threads are numbered without gaps, and none is told    *)
(* to stop; one that has ended has seen m_stop_mining.                     *)
Crew ==
  /\ {index[w] : w \in threads} = 0..(Size - 1)
  /\ \A v, w \in threads : index[v] = index[w] => v = w
  /\ \A w \in threads : ~signal[w] /\ (wpc[w] = "exited" => stopMining)

(* Mining has a template, and no worker has one of a later version.        *)
Template ==
  /\ ~stopMining => templateNo > 0
  /\ \A w \in Workers : ver[w] <= templateNo

(* Each thread that has the current template keeps to its own sequence of  *)
(* nonces: its index, and on by the number of threads.                     *)
OnLane(w) == \E k \in Nat : nonce[w] = index[w] + k * total
Lanes ==
  ~stopMining /\ ~Resizing =>
    \A w \in threads : ver[w] = templateNo => OnLane(w)

IInv == TypeOK /\ Phase /\ Tracked /\ Crew /\ Template /\ Lanes

-----------------------------------------------------------------------------
(* The size of m_threads, and how adding and removing a thread changes it. *)
LEMMA SizeFacts ==
  ASSUME TypeOK
  PROVE  /\ IsFiniteSet(threads) /\ Size \in Nat
         /\ Size = 0 <=> threads = {}
         /\ \A w \in Workers \ threads : Cardinality(threads \cup {w}) = Size + 1
         /\ \A w \in threads : Cardinality(threads \ {w}) = Size - 1
<1>1. IsFiniteSet(threads)
  BY MinerAssumption, FS_Subset DEF TypeOK, MinerAssumption
<1>2. Size \in Nat
  BY <1>1, FS_CardinalityType DEF Size
<1>3. Size = 0 <=> threads = {}
  BY <1>1, FS_EmptySet DEF Size
<1>4. \A w \in Workers \ threads : Cardinality(threads \cup {w}) = Size + 1
  BY <1>1, FS_AddElement DEF Size
<1>5. \A w \in threads : Cardinality(threads \ {w}) = Size - 1
  BY <1>1, FS_RemoveElement DEF Size
<1> QED
  BY <1>1, <1>2, <1>3, <1>4, <1>5

(* A step by the number of threads stays on the sequence i, i + t, ...     *)
LEMMA NextOnLane ==
  ASSUME NEW i \in Nat, NEW t \in Nat, NEW k \in Nat
  PROVE  (i + k * t) + t = i + (k + 1) * t
  OBVIOUS

(* Sequences of two indexes below the number of threads have no nonce in   *)
(* common.                                                                 *)
LEMMA LanesApart ==
  ASSUME NEW t \in Nat, NEW i \in Nat, NEW j \in Nat, i < t, j < t,
         NEW k \in Nat, NEW m \in Nat, i + k * t = j + m * t
  PROVE  i = j
<1>1. CASE k = m
  BY <1>1
<1>2. CASE k < m
  <2>1. PICK d \in Nat : m = k + 1 + d
    <3>1. m - k - 1 \in Nat /\ m = k + 1 + (m - k - 1)
      BY <1>2
    <3> QED
      BY <3>1
  <2>2. m * t = k * t + t + d * t
    BY <2>1
  <2>3. d * t \in Nat /\ k * t \in Nat /\ m * t \in Nat
    OBVIOUS
  <2> QED
    BY <2>2, <2>3
<1>3. CASE m < k
  <2>1. PICK d \in Nat : k = m + 1 + d
    <3>1. k - m - 1 \in Nat /\ k = m + 1 + (k - m - 1)
      BY <1>3
    <3> QED
      BY <3>1
  <2>2. k * t = m * t + t + d * t
    BY <2>1
  <2>3. d * t \in Nat /\ k * t \in Nat /\ m * t \in Nat
    OBVIOUS
  <2> QED
    BY <2>2, <2>3
<1> QED
  BY <1>1, <1>2, <1>3

(* The initial state satisfies the invariant.                              *)
LEMMA InitInv == Init => IInv
<1> SUFFICES ASSUME Init PROVE IInv
  OBVIOUS
<1>1. TypeOK
  BY MinerAssumption DEF MinerAssumption, Init, TypeOK, Calls, Places
<1>2. Size = 0
  BY FS_EmptySet DEF Init, Size
<1> QED
  BY <1>1, <1>2 DEF Init, IInv, Phase, Tracked, Crew, Template, Lanes

(* Type correctness is preserved by every step.                            *)
LEMMA NextType == TypeOK /\ [Next]_vars => TypeOK'
<1> SUFFICES ASSUME TypeOK, [Next]_vars PROVE TypeOK'
  OBVIOUS
<1> USE MinerAssumption DEF MinerAssumption, TypeOK, Counts, Calls, Places, gui, local
<1>1. ASSUME NEW n \in Counts, Start(n) \/ StartFails(n) \/ SetCountIdle(n) \/ SetCount(n)
      PROVE  TypeOK'
  <2>1. CASE Start(n)
    <3>1. templateNo' \in Nat
      BY <2>1 DEF Start
    <3>2. total' \in 0..MaxThreads /\ target' \in 0..MaxThreads
      BY <2>1 DEF Start
    <3>3. stopMining' \in BOOLEAN /\ pc' \in Calls
      BY <2>1 DEF Start
    <3>4. UNCHANGED <<threads, joining, wpc, index, signal, ver, nonce>>
      BY <2>1 DEF Start
    <3> QED
      BY <3>1, <3>2, <3>3, <3>4
  <2>2. CASE StartFails(n)
    BY <2>2 DEF StartFails
  <2>3. CASE SetCountIdle(n)
    BY <2>3 DEF SetCountIdle
  <2>4. CASE SetCount(n)
    BY <2>4 DEF SetCount
  <2> QED
    BY <1>1, <2>1, <2>2, <2>3, <2>4
<1>2. ASSUME Stop \/ NewTemplate
      PROVE  TypeOK'
  <2>1. CASE Stop
    BY <2>1 DEF Stop
  <2>2. CASE NewTemplate
    <3>1. templateNo' \in Nat
      BY <2>2 DEF NewTemplate
    <3> QED
      BY <2>2, <3>1 DEF NewTemplate
  <2> QED
    BY <1>2, <2>1, <2>2
<1>3. ASSUME NEW w \in Workers, Spawn(w)
      PROVE  TypeOK'
  <2>1. Size \in 0..MaxThreads
    BY <1>3, SizeFacts DEF Spawn
  <2> QED
    BY <1>3, <2>1 DEF Spawn
<1>4. ASSUME NEW w \in Workers, SignalLast(w)
      PROVE  TypeOK'
  BY <1>4 DEF SignalLast
<1>5. ASSUME NEW w \in Workers, Join(w)
      PROVE  TypeOK'
  BY <1>5 DEF Join
<1>6. ASSUME Spawned \/ Signalled \/ Renonce \/ Joined
      PROVE  TypeOK'
  BY <1>6 DEF Spawned, Signalled, Renonce, Joined
<1>7. ASSUME NEW w \in Workers, WorkerStep(w)
      PROVE  TypeOK'
  <2>1. CASE Top(w)
    BY <2>1 DEF Top
  <2>2. CASE Look(w)
    BY <2>2 DEF Look
  <2>3. CASE Hash(w)
    BY <2>3 DEF Hash
  <2>4. CASE Step(w)
    BY <2>4 DEF Step
  <2> QED
    BY <1>7, <2>1, <2>2, <2>3, <2>4 DEF WorkerStep
<1>8. CASE UNCHANGED vars
  BY <1>8 DEF vars
<1> QED
  BY <1>1, <1>2, <1>3, <1>4, <1>5, <1>6, <1>7, <1>8 DEF Next, Call, InCall

(* The invariant is preserved by every step.  Each action is one step, and *)
(* under it one for each part of the invariant it can disturb.             *)
LEMMA NextInv == IInv /\ [Next]_vars => IInv'
<1> SUFFICES ASSUME IInv, [Next]_vars PROVE IInv'
  OBVIOUS
<1>t. TypeOK /\ TypeOK'
  BY NextType DEF IInv
<1>s. /\ IsFiniteSet(threads) /\ Size \in Nat
      /\ Size = 0 <=> threads = {}
      /\ \A w \in Workers \ threads : Cardinality(threads \cup {w}) = Size + 1
      /\ \A w \in threads : Cardinality(threads \ {w}) = Size - 1
  BY <1>t, SizeFacts
<1>e. Cardinality({}) = 0
  BY FS_EmptySet
<1> USE DEF IInv
<1>1. ASSUME NEW n \in Counts, Start(n)
      PROVE  IInv'
  <2> USE <1>1 DEF Start, local
  <2>1. Size' = 0 /\ Size = 0
    BY <1>e DEF Size
  <2>2. Phase'
    BY <2>1, <1>t DEF Phase, Counts
  <2>3. Tracked'
    BY DEF Tracked
  <2>4. Crew'
    BY <2>1 DEF Crew
  <2>5. Template'
    BY <1>t DEF Template, TypeOK
  <2>6. Lanes'
    BY DEF Lanes
  <2> QED
    BY <1>t, <2>2, <2>3, <2>4, <2>5, <2>6
<1>2. ASSUME NEW n \in Counts, StartFails(n) \/ SetCountIdle(n)
      PROVE  IInv'
  <2>1. /\ UNCHANGED <<stopMining, threads, joining, pc, target, wpc, index, signal, ver, nonce>>
        /\ stopMining /\ pc = "idle"
        /\ templateNo <= templateNo'
    BY <1>2, <1>t DEF StartFails, SetCountIdle, local, TypeOK
  <2>2. Phase'
    BY <2>1 DEF Phase, Size
  <2>3. Tracked' /\ Crew'
    BY <2>1 DEF Tracked, Crew, Size
  <2>4. Template'
    BY <2>1, <1>t DEF Template, TypeOK
  <2>5. Lanes'
    BY <2>1 DEF Lanes
  <2> QED
    BY <1>t, <2>2, <2>3, <2>4, <2>5
<1>3. ASSUME NEW n \in Counts, SetCount(n)
      PROVE  IInv'
  <2> USE <1>3 DEF SetCount, local
  <2>1. Size' = Size /\ pc' \in {"growing", "shrinking"}
    BY DEF Size
  <2>2. Phase'
    BY <2>1, <1>s DEF Phase, Counts
  <2>3. Tracked' /\ Crew' /\ Template'
    BY DEF Tracked, Crew, Template, Size
  <2>4. Lanes'
    BY <2>1 DEF Lanes, Resizing
  <2> QED
    BY <1>t, <2>2, <2>3, <2>4
<1>4. ASSUME NEW w \in Workers, Spawn(w)
      PROVE  IInv'
  <2> USE <1>4 DEF Spawn
  <2>1. w \notin threads /\ joining = {}
    BY DEF Tracked, Phase
  <2>2. Size' = Size + 1
    BY <2>1, <1>s DEF Size
  <2>3. /\ index'[w] = Size /\ ver'[w] = 0 /\ ~signal'[w] /\ wpc'[w] = "top"
        /\ \A v \in threads : /\ index'[v] = index[v] /\ ver'[v] = ver[v]
                             /\ signal'[v] = signal[v] /\ wpc'[v] = wpc[v]
                             /\ nonce'[v] = nonce[v]
    BY <2>1, <1>t DEF TypeOK
  <2>4. Phase'
    BY <2>1, <2>2, <1>s, <1>t DEF Phase, TypeOK
  <2>5. Tracked'
    BY <2>1, <1>t DEF Tracked, TypeOK
  <2>6. Crew'
    <3>i. /\ threads' = threads \cup {w}
          /\ index'[w] = Size
          /\ \A v \in threads : index'[v] = index[v]
      BY <2>3
    <3>1. {index'[v] : v \in threads'} = {index[v] : v \in threads} \cup {Size}
      <4> HIDE <1>4 DEF Spawn
      <4>1. ASSUME NEW i \in {index'[v] : v \in threads'}
            PROVE  i \in {index[v] : v \in threads} \cup {Size}
        BY <3>i, <4>1
      <4>2. ASSUME NEW i \in {index[v] : v \in threads} \cup {Size}
            PROVE  i \in {index'[v] : v \in threads'}
        <5>1. CASE i = Size
          BY <3>i, <5>1
        <5>2. CASE i \in {index[v] : v \in threads}
          BY <3>i, <5>2
        <5> QED
          BY <5>1, <5>2
      <4> QED
        BY <4>1, <4>2
    <3>a. {index[v] : v \in threads} = 0..(Size - 1)
      <4> HIDE <1>4 DEF Spawn
      <4> QED
        BY DEF Crew
    <3>b. (0..(Size - 1)) \cup {Size} = 0..(Size' - 1)
      <4> HIDE <1>4 DEF Spawn
      <4> QED
        BY <2>2, <1>s
    <3>2. {index'[v] : v \in threads'} = 0..(Size' - 1)
      BY <3>1, <3>a, <3>b
    <3>c. Size \notin 0..(Size - 1)
      BY <1>s
    <3>3. \A v \in threads : index[v] # Size
      BY <3>a, <3>c
    <3>4. \A u, v \in threads' : index'[u] = index'[v] => u = v
      BY <2>3, <3>3 DEF Crew
    <3>5. \A v \in threads' : ~signal'[v] /\ (wpc'[v] = "exited" => stopMining')
      BY <2>3 DEF Crew
    <3> QED
      BY <3>2, <3>4, <3>5 DEF Crew
  <2>7. Template'
    BY <1>t DEF Template, TypeOK
  <2>8. Lanes'
    <3>1. SUFFICES ASSUME ~stopMining', ~Resizing', NEW v \in threads', ver'[v] = templateNo'
                   PROVE  OnLane(v)'
      BY DEF Lanes
    <3>2. v \in threads /\ ~stopMining /\ ~Resizing /\ ver[v] = templateNo
      BY <3>1, <2>3 DEF Template, Resizing
    <3>3. OnLane(v)
      BY <3>2 DEF Lanes
    <3> QED
      BY <3>2, <3>3, <2>3 DEF OnLane
  <2> QED
    BY <1>t, <2>4, <2>5, <2>6, <2>7, <2>8
<1>5. ASSUME NEW w \in Workers, SignalLast(w)
      PROVE  IInv'
  <2> USE <1>5 DEF SignalLast
  <2>1. Size' = Size - 1
    BY <1>s DEF Size
  <2>2. Phase'
    BY <2>1, <1>s, <1>t DEF Phase, TypeOK
  <2>3. Tracked'
    BY <1>t DEF Tracked, TypeOK
  <2>4. Crew'
    <3>1. index[w] = Size - 1
      <4>1. index[w] \in 0..(Size - 1)
        BY DEF Crew
      <4>2. Size - 1 \in {index[v] : v \in threads}
        BY <4>1, <1>s DEF Crew
      <4>3. PICK v \in threads : index[v] = Size - 1
        BY <4>2
      <4> QED
        BY <4>1, <4>3, <1>s
    <3>2. \A v \in threads : v # w => index[v] # Size - 1
      BY <3>1 DEF Crew
    <3>3. {index[v] : v \in threads'} = {index[v] : v \in threads} \ {Size - 1}
      BY <3>1, <3>2
    <3>4. {index'[v] : v \in threads'} = 0..(Size' - 1)
      BY <3>3, <2>1, <1>s DEF Crew
    <3>5. \A v \in threads' : signal'[v] = signal[v]
      BY <1>t DEF TypeOK
    <3> QED
      BY <3>4, <3>5 DEF Crew
  <2>5. Template'
    BY DEF Template
  <2>6. Lanes'
    BY DEF Lanes, Resizing
  <2> QED
    BY <1>t, <2>2, <2>3, <2>4, <2>5, <2>6
<1>6. ASSUME NEW w \in Workers, Join(w)
      PROVE  IInv'
  <2> USE <1>6 DEF Join
  <2>1. w \notin threads /\ Size' = Size
    BY DEF Tracked, Size
  <2>2. \A v \in threads : /\ index'[v] = index[v] /\ ver'[v] = ver[v]
                           /\ signal'[v] = signal[v] /\ wpc'[v] = wpc[v]
                           /\ nonce'[v] = nonce[v]
    BY <2>1, <1>t DEF TypeOK
  <2>3. Phase'
    BY <2>1 DEF Phase
  <2>4. Tracked'
    BY <2>1, <1>t DEF Tracked, TypeOK
  <2>5. Crew'
    BY <2>1, <2>2 DEF Crew
  <2>6. Template'
    BY <1>t DEF Template, TypeOK
  <2>7. Lanes'
    <3>1. SUFFICES ASSUME ~stopMining, ~Resizing, NEW v \in threads, ver[v] = templateNo
                   PROVE  OnLane(v)'
      BY <2>2 DEF Lanes, Resizing
    <3>2. OnLane(v)
      BY <3>1 DEF Lanes
    <3> QED
      BY <3>2, <2>2 DEF OnLane
  <2> QED
    BY <1>t, <2>3, <2>4, <2>5, <2>6, <2>7
<1>7. ASSUME Spawned \/ Signalled \/ Joined
      PROVE  IInv'
  <2>1. UNCHANGED <<stopMining, templateNo, total, threads, joining, target,
                    wpc, index, signal, ver, nonce>>
    BY <1>7 DEF Spawned, Signalled, Joined, local
  <2>2. Size' = Size
    BY <2>1 DEF Size
  <2>3. Phase'
    BY <1>7, <2>1, <2>2 DEF Spawned, Signalled, Joined, Phase
  <2>4. Tracked' /\ Crew' /\ Template'
    BY <2>1, <2>2 DEF Tracked, Crew, Template
  <2>5. Lanes'
    <3>1. ~Resizing' => ~Resizing
      BY <1>7 DEF Spawned, Signalled, Joined, Resizing
    <3> QED
      BY <2>1, <3>1 DEF Lanes, OnLane
  <2> QED
    BY <1>t, <2>3, <2>4, <2>5
<1>8. CASE Renonce
  <2> USE <1>8 DEF Renonce, local
  <2>1. Size' = Size
    BY DEF Size
  <2>2. Phase'
    BY <2>1 DEF Phase
  <2>3. Tracked' /\ Crew'
    BY <2>1 DEF Tracked, Crew
  <2>4. Template' /\ \A w \in Workers : ver'[w] # templateNo'
    BY <1>t DEF Template, TypeOK
  <2>5. Lanes'
    BY <2>4, <1>t DEF Lanes, TypeOK
  <2> QED
    BY <1>t, <2>2, <2>3, <2>4, <2>5
<1>9. CASE Stop
  <2> USE <1>9 DEF Stop, local
  <2>1. joining = {} /\ Size' = 0
    BY <1>e DEF Phase, Size
  <2>2. Phase'
    BY DEF Phase
  <2>3. Tracked'
    BY <2>1 DEF Tracked
  <2>4. Crew'
    BY <2>1 DEF Crew
  <2>5. Template' /\ Lanes'
    BY DEF Template, Lanes
  <2> QED
    BY <1>t, <2>2, <2>3, <2>4, <2>5
<1>10. CASE NewTemplate
  <2> USE <1>10 DEF NewTemplate, gui, local
  <2>1. Size' = Size
    BY DEF Size
  <2>2. Phase' /\ Tracked' /\ Crew'
    BY <2>1 DEF Phase, Tracked, Crew
  <2>3. Template' /\ \A w \in Workers : ver'[w] # templateNo'
    BY <1>t DEF Template, TypeOK
  <2>4. Lanes'
    BY <2>3, <1>t DEF Lanes, TypeOK
  <2> QED
    BY <1>t, <2>2, <2>3, <2>4
<1>11. ASSUME NEW w \in Workers, Top(w)
       PROVE  IInv'
  <2> USE <1>11 DEF Top, gui, local
  <2>1. Size' = Size
    BY DEF Size
  <2>2. wpc'[w] \in {"exited", "look"} /\ \A v \in Workers : v # w => wpc'[v] = wpc[v]
    BY <1>t DEF TypeOK
  <2>3. Phase' /\ Template'
    BY <2>1 DEF Phase, Template
  <2>4. Tracked'
    BY <2>2 DEF Tracked
  <2>5. Crew'
    <3>1. \A v \in threads : wpc'[v] = "exited" => stopMining
      BY <2>2, <1>t DEF Crew, TypeOK
    <3> QED
      BY <2>1, <3>1 DEF Crew
  <2>6. Lanes'
    BY DEF Lanes, OnLane, Resizing
  <2> QED
    BY <1>t, <2>3, <2>4, <2>5, <2>6
<1>12. ASSUME NEW w \in Workers, Look(w)
       PROVE  IInv'
  <2> USE <1>12 DEF Look, gui
  <2>1. Size' = Size
    BY DEF Size
  <2>2. /\ ver'[w] = templateNo /\ wpc'[w] \in {"top", "hash"}
        /\ \A v \in Workers : v # w =>
             wpc'[v] = wpc[v] /\ ver'[v] = ver[v] /\ nonce'[v] = nonce[v]
    BY <1>t DEF TypeOK
  <2>3. Phase'
    BY <2>1 DEF Phase
  <2>4. Tracked'
    BY <2>2 DEF Tracked
  <2>5. Crew'
    BY <2>1, <2>2, <1>t DEF Crew, TypeOK
  <2>6. Template'
    BY <2>2, <1>t DEF Template, TypeOK
  <2>7. Lanes'
    <3>1. SUFFICES ASSUME ~stopMining, ~Resizing, NEW v \in threads, ver'[v] = templateNo
                   PROVE  OnLane(v)'
      BY DEF Lanes, Resizing
    <3>2. CASE v # w \/ ver[w] = templateNo
      <4>1. ver[v] = templateNo /\ nonce'[v] = nonce[v]
        BY <3>1, <3>2, <2>2, <1>t DEF TypeOK
      <4>2. OnLane(v)
        BY <3>1, <4>1 DEF Lanes
      <4> QED
        BY <4>1, <4>2 DEF OnLane
    <3>3. CASE v = w /\ ver[w] # templateNo
      <4>1. nonce'[v] = index[v] + 0 * total
        BY <3>3, <1>t DEF TypeOK
      <4> QED
        BY <4>1 DEF OnLane
    <3> QED
      BY <3>2, <3>3
  <2> QED
    BY <1>t, <2>3, <2>4, <2>5, <2>6, <2>7
<1>13. ASSUME NEW w \in Workers, Hash(w)
       PROVE  IInv'
  <2> USE <1>13 DEF Hash, gui, local
  <2>1. Size' = Size
    BY DEF Size
  <2>2. /\ wpc'[w] = "step" /\ \A v \in Workers : v # w => wpc'[v] = wpc[v]
        /\ stopMining => stopMining'
    BY <1>t DEF TypeOK
  <2>3. Phase' /\ Template'
    BY <2>1, <2>2 DEF Phase, Template
  <2>4. Tracked'
    BY <2>2 DEF Tracked
  <2>5. Crew'
    BY <2>1, <2>2 DEF Crew
  <2>6. Lanes'
    BY <2>2 DEF Lanes, OnLane, Resizing
  <2> QED
    BY <1>t, <2>3, <2>4, <2>5, <2>6
<1>14. ASSUME NEW w \in Workers, Step(w)
       PROVE  IInv'
  <2> USE <1>14 DEF Step, gui
  <2>1. Size' = Size
    BY DEF Size
  <2>2. /\ wpc'[w] = "top"
        /\ nonce'[w] \in {nonce[w], nonce[w] + total}
        /\ \A v \in Workers : v # w => wpc'[v] = wpc[v] /\ nonce'[v] = nonce[v]
    BY <1>t DEF TypeOK
  <2>3. Phase' /\ Template'
    BY <2>1 DEF Phase, Template
  <2>4. Tracked'
    BY <2>2 DEF Tracked
  <2>5. Crew'
    BY <2>1, <2>2 DEF Crew
  <2>6. Lanes'
    <3>1. SUFFICES ASSUME ~stopMining, ~Resizing, NEW v \in threads, ver[v] = templateNo
                   PROVE  OnLane(v)'
      BY DEF Lanes, Resizing
    <3>2. PICK k \in Nat : nonce[v] = index[v] + k * total
      BY <3>1 DEF Lanes, OnLane
    <3>3. CASE nonce'[v] = nonce[v]
      BY <3>2, <3>3 DEF OnLane
    <3>4. CASE nonce'[v] = nonce[v] + total
      <4>1. index[v] \in Nat /\ total \in Nat
        BY <1>t DEF TypeOK
      <4>2. nonce'[v] = index[v] + (k + 1) * total
        BY <3>2, <3>4, <4>1, NextOnLane
      <4>3. k + 1 \in Nat /\ index'[v] = index[v] /\ total' = total
        OBVIOUS
      <4> QED
        BY <4>2, <4>3 DEF OnLane
    <3> QED
      BY <3>3, <3>4, <2>2, <1>t DEF TypeOK
  <2> QED
    BY <1>t, <2>3, <2>4, <2>5, <2>6
<1>15. CASE UNCHANGED vars
  <2>1. Size' = Size
    BY <1>15 DEF Size, vars, gui
  <2> QED
    BY <1>15, <1>t, <2>1
       DEF vars, gui, local, Phase, Tracked, Crew, Template, Lanes, OnLane, Resizing
<1> QED
  BY <1>1, <1>2, <1>3, <1>4, <1>5, <1>6, <1>7, <1>8, <1>9, <1>10, <1>11, <1>12,
     <1>13, <1>14, <1>15 DEF Next, Call, InCall, WorkerStep

-----------------------------------------------------------------------------
(* The invariant holds in every reachable state.                           *)
THEOREM Invariance == Spec => []IInv
<1>1. Init => IInv
  BY InitInv
<1>2. IInv /\ [Next]_vars => IInv'
  BY NextInv
<1> QED
  BY <1>1, <1>2, PTL DEF Spec

(* Every variable keeps its type, for any set of workers and any bounds.   *)
THEOREM TypeCorrect == Spec => []TypeOK
<1>1. IInv => TypeOK
  BY DEF IInv
<1> QED
  BY <1>1, Invariance, PTL

(* No thread of the miner is leaked: each one that exists is in m_threads  *)
(* or waited for by the call in progress (worker_thread, stop and          *)
(* set_thread_count).                                                      *)
THEOREM NoLeak == Spec => []NoThreadLeaked
<1>1. IInv => NoThreadLeaked
  BY DEF IInv, Tracked, Phase, NoThreadLeaked
<1> QED
  BY <1>1, Invariance, PTL

(* Mining has exactly m_threads_total threads, numbered from 0, all of     *)
(* them running.                                                           *)
THEOREM CrewComplete == Spec => []FullCrew
<1>1. IInv => FullCrew
  <2> SUFFICES ASSUME IInv, pc = "idle", ~stopMining
               PROVE  /\ Size = total
                      /\ {index[w] : w \in threads} = 0..(total - 1)
                      /\ \A w \in threads : Running(w) /\ ~signal[w]
    BY DEF FullCrew
  <2>1. Size = total
    BY DEF IInv, Phase
  <2>2. {index[w] : w \in threads} = 0..(total - 1)
    BY <2>1 DEF IInv, Crew
  <2>3. \A w \in threads : Running(w) /\ ~signal[w]
    BY DEF IInv, Crew, Tracked, TypeOK, Places, Running
  <2> QED
    BY <2>1, <2>2, <2>3
<1> QED
  BY <1>1, Invariance, PTL

(* However many threads mine, and however often their number and the       *)
(* template change, no two hash the same nonce of the current template.    *)
THEOREM NoncesDistinct == Spec => []DistinctNonces
<1>1. IInv => DistinctNonces
  <2> SUFFICES ASSUME IInv, ~stopMining, ~Resizing, NEW v \in threads, NEW w \in threads,
                      v # w, ver[v] = templateNo, ver[w] = templateNo, nonce[v] = nonce[w]
               PROVE  FALSE
    BY DEF DistinctNonces
  <2>1. Size \in Nat /\ total \in Nat /\ index[v] \in Nat /\ index[w] \in Nat
    BY SizeFacts DEF IInv, TypeOK
  <2>2. Size <= total
    <3>1. pc \in {"idle", "spawning", "joining", "stopping"}
      BY DEF IInv, TypeOK, Calls, Resizing
    <3> QED
      BY <3>1, <2>1 DEF IInv, Phase
  <2>3. index[v] < total /\ index[w] < total
    <3>1. index[v] \in 0..(Size - 1) /\ index[w] \in 0..(Size - 1)
      BY DEF IInv, Crew
    <3> QED
      BY <3>1, <2>1, <2>2
  <2>4. PICK k \in Nat : nonce[v] = index[v] + k * total
    BY DEF IInv, Lanes, OnLane
  <2>5. PICK m \in Nat : nonce[w] = index[w] + m * total
    BY DEF IInv, Lanes, OnLane
  <2>6. index[v] = index[w]
    <3>1. index[v] + k * total = index[w] + m * total
      BY <2>4, <2>5
    <3> HIDE <2>4, <2>5
    <3> QED
      BY <2>1, <2>3, <3>1, LanesApart, Zenon
  <2> QED
    BY <2>6 DEF IInv, Crew
<1> QED
  BY <1>1, Invariance, PTL
=============================================================================
