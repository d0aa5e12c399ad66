-------------------------------- MODULE Miner --------------------------------
(***************************************************************************)
(* The solo miner of src/src/Miner.cpp: start(), set_thread_count(),       *)
(* stop() and the block template updates, which all run on the GUI thread, *)
(* and the worker threads.  The GUI thread and the workers share           *)
(* m_stop_mining, m_threads_total, the template (its version m_template_no *)
(* and m_starter_nonce change together under m_template_lock) and each     *)
(* worker's stop signal.                                                   *)
(*                                                                         *)
(* A nonce is counted from m_starter_nonce, so that worker i of t tries    *)
(* i, i + t, i + 2t, ...; the code's uint32_t arithmetic wraps around the  *)
(* same sequence.  m_threads is in index order and is modelled as the set  *)
(* of its workers, its last element being the one with the largest index.  *)
(***************************************************************************)
EXTENDS Integers, FiniteSets

CONSTANTS
  Workers,       \* thread identities, reused once a thread has been joined
  MaxThreads,    \* the most threads the user can ask for
  MaxTemplate,   \* bound: versions of the block template
  MaxNonce       \* bound: nonces tried on one template

ASSUME MinerAssumption ==
  /\ IsFiniteSet(Workers)
  /\ MaxThreads \in Nat \ {0} /\ MaxTemplate \in Nat /\ MaxNonce \in Nat

VARIABLES
  stopMining,   \* m_stop_mining
  templateNo,   \* m_template_no
  total,        \* m_threads_total
  threads,      \* m_threads
  joining,      \* threadsToJoin of set_thread_count() or stop()
  pc,           \* where the GUI thread is: "idle", or inside a call
  target,       \* threads_count, the argument of that call
  wpc,          \* where each worker is; "free" is a thread that is not there
  index,        \* th_local_index
  signal,       \* _thread_stop
  ver,          \* local_template_ver
  nonce         \* nonce, relative to m_starter_nonce

gui    == <<total, threads, joining, pc, target>>
local  == <<index, signal, ver, nonce>>
vars   == <<stopMining, templateNo, gui, wpc, local>>

Counts == 1..MaxThreads
Size == Cardinality(threads)

Init ==
  /\ stopMining = TRUE /\ templateNo = 0 /\ total = 0
  /\ threads = {} /\ joining = {}
  /\ pc = "idle" /\ target = 0
  /\ wpc = [w \in Workers |-> "free"]
  /\ index = [w \in Workers |-> 0]
  /\ signal = [w \in Workers |-> FALSE]
  /\ ver = [w \in Workers |-> 0]
  /\ nonce = [w \in Workers |-> 0]

-----------------------------------------------------------------------------
(* The GUI thread.                                                         *)

(* Mutant: the GUI thread is counted as a worker.                          *)
StartCountsItself(n) ==
  /\ pc = "idle" /\ stopMining /\ threads = {}
  /\ templateNo + 2 <= MaxTemplate
  /\ total' = n + 1 /\ target' = n
  /\ templateNo' = templateNo + 2
  /\ stopMining' = FALSE
  /\ pc' = "spawning"
  /\ UNCHANGED <<threads, joining, wpc, local>>

(* start(): refused while mining or while threads are left; the nonce      *)
(* sequence is reset and a template requested before the threads start.    *)
Start(n) ==
  /\ pc = "idle" /\ stopMining /\ threads = {}
  /\ templateNo + 2 <= MaxTemplate
  /\ total' = n /\ target' = n
  /\ templateNo' = templateNo + 2
  /\ stopMining' = FALSE
  /\ pc' = "spawning"
  /\ UNCHANGED <<threads, joining, wpc, local>>

(* start() without a block template: the thread count stays changed.       *)
StartFails(n) ==
  /\ pc = "idle" /\ stopMining /\ threads = {}
  /\ templateNo < MaxTemplate
  /\ total' = n
  /\ templateNo' = templateNo + 1
  /\ UNCHANGED <<stopMining, threads, joining, pc, target, wpc, local>>

(* set_thread_count() while not mining.                                    *)
SetCountIdle(n) ==
  /\ pc = "idle" /\ stopMining
  /\ total' = n
  /\ UNCHANGED <<stopMining, templateNo, threads, joining, pc, target, wpc, local>>

(* set_thread_count() while mining: start or stop the difference.          *)
SetCount(n) ==
  /\ pc = "idle" /\ ~stopMining /\ n # Size
  /\ templateNo < MaxTemplate
  /\ total' = n /\ target' = n
  /\ pc' = IF n > Size THEN "growing" ELSE "shrinking"
  /\ UNCHANGED <<stopMining, templateNo, threads, joining, wpc, local>>

(* The loops that start threads, with the next index.                      *)
Spawn(w) ==
  /\ pc \in {"spawning", "growing"} /\ Size < target
  /\ wpc[w] = "free"
  /\ threads' = threads \cup {w}
  /\ wpc' = [wpc EXCEPT ![w] = "top"]
  /\ index' = [index EXCEPT ![w] = Size]
  /\ signal' = [signal EXCEPT ![w] = FALSE]
  /\ ver' = [ver EXCEPT ![w] = 0]
  /\ nonce' = [nonce EXCEPT ![w] = Size]
  /\ UNCHANGED <<stopMining, templateNo, total, joining, pc, target>>

Spawned ==
  /\ pc \in {"spawning", "growing"} /\ Size = target
  /\ pc' = IF pc = "spawning" THEN "idle" ELSE "renonce"
  /\ UNCHANGED <<stopMining, templateNo, total, threads, joining, target, wpc, local>>

SignalFirst(w) ==           \* mutant: the threads that came first are stopped
  /\ pc = "shrinking" /\ Size > target
  /\ w \in threads /\ \A v \in threads : index[v] >= index[w]
  /\ signal' = [signal EXCEPT ![w] = TRUE]
  /\ threads' = threads \ {w} /\ joining' = joining \cup {w}
  /\ UNCHANGED <<stopMining, templateNo, total, pc, target, wpc, index, ver, nonce>>

(* The loop that signals threads to stop, the last one first.              *)
SignalLast(w) ==
  /\ pc = "shrinking" /\ Size > target
  /\ w \in threads /\ \A v \in threads : index[v] <= index[w]
  /\ signal' = [signal EXCEPT ![w] = TRUE]
  /\ threads' = threads \ {w} /\ joining' = joining \cup {w}
  /\ UNCHANGED <<stopMining, templateNo, total, pc, target, wpc, index, ver, nonce>>

Signalled ==
  /\ pc = "shrinking" /\ Size = target
  /\ pc' = "renonce"
  /\ UNCHANGED <<stopMining, templateNo, total, threads, joining, target, wpc, local>>

RenonceForgotten ==         \* mutant: the threads keep their nonces
  /\ pc = "renonce"
  /\ pc' = "joining"
  /\ UNCHANGED <<stopMining, templateNo, total, threads, joining, target, wpc, local>>

(* reset_nonce_sequence() at the end of set_thread_count().                *)
Renonce ==
  /\ pc = "renonce"
  /\ templateNo' = templateNo + 1
  /\ pc' = "joining"
  /\ UNCHANGED <<stopMining, total, threads, joining, target, wpc, local>>

StopForgets ==              \* mutant: m_threads is cleared, nothing is joined
  /\ pc = "idle"
  /\ stopMining' = TRUE
  /\ threads' = {}
  /\ pc' = "stopping"
  /\ UNCHANGED <<templateNo, total, joining, target, wpc, local>>

(* stop(), also called by on_block_chain_update() when there are no peers  *)
(* or no template: all threads are taken and joined.                       *)
Stop ==
  /\ pc = "idle"
  /\ stopMining' = TRUE
  /\ joining' = threads /\ threads' = {}
  /\ pc' = "stopping"
  /\ UNCHANGED <<templateNo, total, target, wpc, local>>

Join(w) ==
  /\ pc \in {"joining", "stopping"}
  /\ w \in joining /\ wpc[w] = "exited"
  /\ wpc' = [wpc EXCEPT ![w] = "free"]
  /\ index' = [index EXCEPT ![w] = 0]
  /\ signal' = [signal EXCEPT ![w] = FALSE]
  /\ ver' = [ver EXCEPT ![w] = 0]
  /\ nonce' = [nonce EXCEPT ![w] = 0]
  /\ joining' = joining \ {w}
  /\ UNCHANGED <<stopMining, templateNo, total, threads, pc, target>>

Joined ==
  /\ pc \in {"joining", "stopping"} /\ joining = {}
  /\ pc' = "idle"
  /\ UNCHANGED <<stopMining, templateNo, total, threads, joining, target, wpc, local>>

(* on_block_chain_update(): a new template while mining.                   *)
NewTemplate ==
  /\ pc = "idle" /\ ~stopMining
  /\ templateNo < MaxTemplate
  /\ templateNo' = templateNo + 1
  /\ UNCHANGED <<stopMining, gui, wpc, local>>

-----------------------------------------------------------------------------
(* worker_thread().                                                        *)

TopIgnoresStop(w) ==        \* mutant: only the thread's own signal ends it
  /\ wpc[w] = "top"
  /\ wpc' = [wpc EXCEPT ![w] = IF signal[w] THEN "exited" ELSE "look"]
  /\ UNCHANGED <<stopMining, templateNo, gui, local>>

(* The loop's condition.                                                   *)
Top(w) ==
  /\ wpc[w] = "top"
  /\ wpc' = [wpc EXCEPT ![w] = IF stopMining \/ signal[w] THEN "exited" ELSE "look"]
  /\ UNCHANGED <<stopMining, templateNo, gui, local>>

LookOnce(w) ==              \* mutant: only a first template is taken
  /\ wpc[w] = "look"
  /\ ver' = [ver EXCEPT ![w] = IF @ = 0 THEN templateNo ELSE @]
  /\ nonce' = [nonce EXCEPT ![w] = IF ver[w] = 0 THEN index[w] ELSE @]
  /\ wpc' = [wpc EXCEPT ![w] = IF templateNo = 0 THEN "top" ELSE "hash"]
  /\ UNCHANGED <<stopMining, templateNo, gui, index, signal>>

(* A template of another version is copied, and the nonce starts again;    *)
(* without a template the worker sleeps.                                   *)
Look(w) ==
  /\ wpc[w] = "look"
  /\ ver' = [ver EXCEPT ![w] = templateNo]
  /\ nonce' = [nonce EXCEPT ![w] = IF ver[w] # templateNo THEN index[w] ELSE @]
  /\ wpc' = [wpc EXCEPT ![w] = IF templateNo = 0 THEN "top" ELSE "hash"]
  /\ UNCHANGED <<stopMining, templateNo, gui, index, signal>>

(* The block is signed, hashed and perhaps submitted; an error of any of   *)
(* these stops all mining.                                                 *)
Hash(w) ==
  /\ wpc[w] = "hash"
  /\ stopMining' \in {stopMining, TRUE}
  /\ wpc' = [wpc EXCEPT ![w] = "step"]
  /\ UNCHANGED <<templateNo, gui, local>>

Step(w) ==
  /\ wpc[w] = "step"
  /\ nonce' = [nonce EXCEPT ![w] = IF @ + total <= MaxNonce THEN @ + total ELSE @]
  /\ wpc' = [wpc EXCEPT ![w] = "top"]
  /\ UNCHANGED <<stopMining, templateNo, gui, index, signal, ver>>

-----------------------------------------------------------------------------
Call == \/ \E n \in Counts : Start(n) \/ StartFails(n) \/ SetCountIdle(n) \/ SetCount(n)
        \/ Stop \/ NewTemplate

InCall == \/ \E w \in Workers : Spawn(w) \/ SignalLast(w) \/ Join(w)
          \/ Spawned \/ Signalled \/ Renonce \/ Joined

WorkerStep(w) == Top(w) \/ Look(w) \/ Hash(w) \/ Step(w)

Next == Call \/ InCall \/ \E w \in Workers : WorkerStep(w)

Spec == Init /\ [][Next]_vars

(* A call the GUI thread is in goes on, and no thread is starved.          *)
FairSpec == Spec /\ WF_vars(InCall) /\ \A w \in Workers : WF_vars(WorkerStep(w))

-----------------------------------------------------------------------------
Places == {"free", "top", "look", "hash", "step", "exited"}
Calls == {"idle", "spawning", "growing", "shrinking", "renonce", "joining", "stopping"}
Running(w) == wpc[w] \in {"top", "look", "hash", "step"}

(* Every variable has a value of its type.                                 *)
TypeOK ==
  /\ stopMining \in BOOLEAN
  /\ templateNo \in Nat /\ total \in 0..MaxThreads /\ target \in 0..MaxThreads
  /\ threads \subseteq Workers /\ joining \subseteq Workers
  /\ pc \in Calls
  /\ wpc \in [Workers -> Places]
  /\ index \in [Workers -> 0..MaxThreads]
  /\ signal \in [Workers -> BOOLEAN]
  /\ ver \in [Workers -> Nat]
  /\ nonce \in [Workers -> Nat]

(* No thread is leaked: a thread that exists is in m_threads or is being   *)
(* joined, never in both, so that stop() returns when none is left.        *)
NoThreadLeaked ==
  /\ \A w \in Workers : wpc[w] # "free" <=> w \in threads \cup joining
  /\ threads \cap joining = {}
  /\ pc = "idle" => joining = {}

(* While mining goes on, the threads are as many as m_threads_total says,  *)
(* with the indexes 0, 1, ..., none of them told to stop or gone.          *)
FullCrew ==
  pc = "idle" /\ ~stopMining =>
    /\ Size = total
    /\ {index[w] : w \in threads} = 0..(total - 1)
    /\ \A w \in threads : Running(w) /\ ~signal[w]

(* A resize is complete once the nonce sequence has been reset.            *)
Resizing == pc \in {"growing", "shrinking", "renonce"}

(* No two threads hash the same nonce of the current template, except for  *)
(* the moment a resize has changed the step and not yet the sequence.      *)
DistinctNonces ==
  ~stopMining /\ ~Resizing =>
    \A v, w \in threads :
      /\ v # w
      /\ wpc[v] = "hash" /\ wpc[w] = "hash"
      /\ ver[v] = templateNo /\ ver[w] = templateNo
      => nonce[v] # nonce[w]

(* stop() and set_thread_count() return: every join ends.                  *)
CallsReturn == pc # "idle" ~> pc = "idle"

(* A new template reaches every thread: a worker that mines on an old one  *)
(* takes the new one or ends.                                              *)
TemplateReachesAll ==
  \A w \in Workers : Running(w) /\ ver[w] # templateNo ~> (~Running(w) \/ ver[w] = templateNo)
=============================================================================
