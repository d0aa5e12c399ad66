------------------------- MODULE MiningFrameProofs -------------------------
(***************************************************************************)
(* Theorems about MiningFrame for any number of events and wallets: what   *)
(* the frame thinks of the miner is true or about to be corrected, a miner *)
(* that runs can be stopped, it pays to the wallet that is open, and what  *)
(* the user has stopped stays stopped.                                     *)
(*                                                                         *)
(* They need the three assumptions that Disciplines names, and no bound on *)
(* the queue: what matters of it is which signals it holds, whether the    *)
(* "shown" of a wallet is the last one, and whether a frame that thinks    *)
(* the wallet is closed hears of "opened" before anything that starts the  *)
(* miner.                                                                  *)
(***************************************************************************)
EXTENDS MiningFrame, TLAPS

(* The signals.                                                            *)
Message == [ev : {"initDone", "opened", "shown", "closed", "peers", "synced",
                  "minerStopped"}, ok : BOOLEAN]

(* The queue q holds the signal s, or one of the kind ev.                  *)
Holds(q, s) == \E i \in DOMAIN q : q[i] = s
HoldsEv(q, ev) == \E i \in DOMAIN q : q[i].ev = ev

IsShown == Signal("shown", TRUE)

(* After the "shown" of a wallet that has opened there is no other.        *)
ShownLast(q) ==
  \A i, j \in DOMAIN q : q[i] = IsShown /\ q[j].ev = "shown" => j <= i

(* What shows a wallet, or makes it mined for, comes after an "opened".    *)
OpenedFirst(q) ==
  \A i \in DOMAIN q : q[i] = IsShown \/ q[i].ev = "synced" =>
    \E j \in DOMAIN q : q[j].ev = "opened" /\ j < i

(* The frame knows of the miner: it has one pair of timers while it mines, *)
(* and only Stop to be clicked; the keys are those of the wallet opened    *)
(* last; no failed crew meets the signal of an earlier stop.               *)
Known ==
  /\ m_solo_mining => miner # "off" \/ HoldsEv(queue, "minerStopped")
  /\ miner # "off" => m_solo_mining
  /\ miner = "failed" => ~HoldsEv(queue, "minerStopped")
  /\ (m_solo_mining => timers = 1) /\ (~m_solo_mining => timers = 0)
  /\ m_solo_mining => stopOn /\ ~startOn /\ ~m_miningStoppedByNoPeers
  /\ miner = "on" => keys = id

(* There is a wallet, or reset() is about to open it again.                *)
HasWallet == wallet = "ready" \/ (wallet = "loading" /\ resetting)

(* Nothing is mined or shown without a wallet, nor may anything start the  *)
(* miner; a synchronisation is told of while the wallet is open.           *)
Kept ==
  /\ gui # "crash"
  /\ ~HasWallet => ~m_solo_mining /\ ~shown /\ (m_mining_was_stopped \/ ~m_sychronized)
  /\ syncing \/ HoldsEv(queue, "synced") => wallet = "ready" /\ gui = "loop"

(* While close() or reset() runs no signal of a load or a synchronisation  *)
(* is queued, and the frame hears of the close before the wallet goes.     *)
Closing ==
  /\ gui # "loop" =>
       /\ wallet = "ready"
       /\ ~HoldsEv(queue, "initDone") /\ ~HoldsEv(queue, "opened") /\ ~HoldsEv(queue, "shown")
       /\ m_wallet_closed \/ HoldsEv(queue, "closed")
       /\ ~resetting => m_wallet_closed /\ ~m_solo_mining /\ ~shown /\ m_mining_was_stopped
  /\ HoldsEv(queue, "closed") => gui = "events"

(* Queued signals of a load are true of the wallet there is.               *)
Loads ==
  /\ Holds(queue, Signal("initDone", FALSE)) => wallet # "ready" /\ ~resetting
  /\ Holds(queue, Signal("initDone", TRUE)) => wallet = "ready"
  /\ Holds(queue, IsShown) => wallet = "ready"
  /\ ShownLast(queue)
  /\ m_wallet_closed => OpenedFirst(queue)

(* A wallet that is ready is shown or will be, and then the frame hears    *)
(* that it has opened.                                                     *)
Shows ==
  wallet = "ready" /\ gui = "loop" =>
    /\ Holds(queue, IsShown) \/ (shown /\ ~HoldsEv(queue, "shown"))
    /\ m_wallet_closed => HoldsEv(queue, "opened")

(* The mining tab can be reached while mining, now or soon.                *)
Reachable ==
  m_solo_mining => \/ shown \/ HoldsEv(queue, "shown")
                   \/ resetting /\ (gui # "loop" \/ wallet = "loading")

(* Mining does not resume by itself.                                       *)
ForGood == m_mining_was_stopped /\ ~m_miningStoppedByNoPeers

(* What the user, or the end of a wallet, has stopped is stopped for good, *)
(* and a Stop that can be clicked while nothing is mined changes nothing.  *)
Stops ==
  /\ stopOn /\ ~m_solo_mining => ForGood
  /\ shown /\ (m_wallet_closed \/ gui # "loop") /\ ~m_solo_mining /\ (startOn \/ m_sychronized)
       => ForGood
  /\ stopped => ForGood /\ ~m_solo_mining

(* The inductive invariant.                                                *)
IInv == TypeOK /\ Known /\ Kept /\ Closing /\ Loads /\ Shows /\ Reachable /\ Stops

(* A queue that loses its head.                                            *)
LEMMA PopFacts ==
  ASSUME NEW q \in Seq(Message), q # <<>>
  PROVE  /\ Tail(q) \in Seq(Message) /\ Head(q) \in Message
         /\ Holds(q, Head(q)) /\ HoldsEv(q, Head(q).ev)
         /\ \A s : Holds(q, s) <=> Holds(Tail(q), s) \/ s = Head(q)
         /\ \A ev : HoldsEv(q, ev) <=> HoldsEv(Tail(q), ev) \/ ev = Head(q).ev
         /\ ShownLast(q) => ShownLast(Tail(q))
         /\ ShownLast(q) /\ Head(q) = IsShown => ~HoldsEv(Tail(q), "shown")
         /\ OpenedFirst(q) => /\ Head(q).ev # "opened" => OpenedFirst(Tail(q))
                              /\ Head(q) # IsShown /\ Head(q).ev # "synced"
<1>1. /\ Tail(q) \in Seq(Message) /\ Head(q) \in Message /\ Head(q) = q[1] /\ 1 \in DOMAIN q
      /\ \A i \in DOMAIN Tail(q) : i + 1 \in DOMAIN q /\ Tail(q)[i] = q[i + 1] /\ i \in Nat \ {0}
      /\ \A i \in DOMAIN q : i \in Nat \ {0}
      /\ \A i \in DOMAIN q : i # 1 => i - 1 \in DOMAIN Tail(q) /\ Tail(q)[i - 1] = q[i]
  OBVIOUS
<1>2. /\ Holds(q, Head(q)) /\ HoldsEv(q, Head(q).ev)
      /\ \A s : Holds(q, s) <=> Holds(Tail(q), s) \/ s = Head(q)
      /\ \A ev : HoldsEv(q, ev) <=> HoldsEv(Tail(q), ev) \/ ev = Head(q).ev
  BY <1>1 DEF Holds, HoldsEv
<1>3. ShownLast(q) => ShownLast(Tail(q))
  BY <1>1 DEF ShownLast
<1>4. ShownLast(q) /\ Head(q) = IsShown => ~HoldsEv(Tail(q), "shown")
  <2> SUFFICES ASSUME ShownLast(q), Head(q) = IsShown, NEW i \in DOMAIN Tail(q),
                      Tail(q)[i].ev = "shown"
               PROVE  FALSE
    BY DEF HoldsEv
  <2>1. i + 1 <= 1
    BY <1>1 DEF ShownLast
  <2> QED
    BY <1>1, <2>1
<1>5. OpenedFirst(q) => Head(q) # IsShown /\ Head(q).ev # "synced"
  <2> SUFFICES ASSUME OpenedFirst(q), Head(q) = IsShown \/ Head(q).ev = "synced"
               PROVE FALSE
    OBVIOUS
  <2>1. PICK j \in DOMAIN q : j < 1
    BY <1>1 DEF OpenedFirst
  <2> QED
    BY <1>1, <2>1
<1>6. OpenedFirst(q) /\ Head(q).ev # "opened" => OpenedFirst(Tail(q))
  <2> SUFFICES ASSUME OpenedFirst(q), Head(q).ev # "opened", NEW i \in DOMAIN Tail(q),
                      Tail(q)[i] = IsShown \/ Tail(q)[i].ev = "synced"
               PROVE  \E j \in DOMAIN Tail(q) : Tail(q)[j].ev = "opened" /\ j < i
    BY DEF OpenedFirst
  <2>1. PICK j \in DOMAIN q : q[j].ev = "opened" /\ j < i + 1
    BY <1>1 DEF OpenedFirst
  <2>2. j # 1
    BY <1>1, <2>1
  <2>3. j - 1 < i
    BY <1>1, <2>1
  <2> QED
    BY <1>1, <2>1, <2>2, <2>3
<1> QED
  BY <1>1, <1>2, <1>3, <1>4, <1>5, <1>6

(* A queue that gets a signal.                                             *)
LEMMA PostFacts ==
  ASSUME NEW q \in Seq(Message), NEW m \in Message
  PROVE  /\ Append(q, m) \in Seq(Message) /\ Append(q, m) # <<>>
         /\ \A s : Holds(Append(q, m), s) <=> Holds(q, s) \/ s = m
         /\ \A ev : HoldsEv(Append(q, m), ev) <=> HoldsEv(q, ev) \/ ev = m.ev
         /\ ShownLast(q) /\ (m.ev = "shown" => ~Holds(q, IsShown)) => ShownLast(Append(q, m))
         /\ OpenedFirst(q) /\ (m = IsShown \/ m.ev = "synced" => HoldsEv(q, "opened"))
              => OpenedFirst(Append(q, m))
<1>1. /\ Append(q, m) \in Seq(Message) /\ Append(q, m) # <<>>
      /\ DOMAIN Append(q, m) = DOMAIN q \union {Len(q) + 1}
      /\ \A i \in DOMAIN q : Append(q, m)[i] = q[i] /\ i \in Nat /\ i < Len(q) + 1
      /\ Append(q, m)[Len(q) + 1] = m /\ Len(q) + 1 \in Nat
  OBVIOUS
<1>2. /\ \A s : Holds(Append(q, m), s) <=> Holds(q, s) \/ s = m
      /\ \A ev : HoldsEv(Append(q, m), ev) <=> HoldsEv(q, ev) \/ ev = m.ev
  BY <1>1 DEF Holds, HoldsEv
<1>3. ShownLast(q) /\ (m.ev = "shown" => ~Holds(q, IsShown)) => ShownLast(Append(q, m))
  BY <1>1 DEF ShownLast, Holds
<1>4. OpenedFirst(q) /\ (m = IsShown \/ m.ev = "synced" => HoldsEv(q, "opened"))
        => OpenedFirst(Append(q, m))
  BY <1>1 DEF OpenedFirst, HoldsEv
<1> QED
  BY <1>1, <1>2, <1>3, <1>4

(* The signals of each kind.                                               *)
LEMMA SignalType ==
  \A ev \in {"initDone", "opened", "shown", "closed", "peers", "synced", "minerStopped"},
     ok \in BOOLEAN : Signal(ev, ok) \in Message /\ Signal(ev, ok).ev = ev
                      /\ Signal(ev, ok).ok = ok
  BY DEF Signal, Message


(* The kinds of signals that Miner::stop() does not send.                  *)
Others == {"initDone", "opened", "shown", "closed", "peers", "synced"}
News == [ev : Others, ok : BOOLEAN]
Stop == Signal("minerStopped", TRUE)

(* But for minerStopped the queue has lost its head, m.                    *)
Popped(m) ==
  /\ Holds(queue, m) /\ HoldsEv(queue, m.ev)
  /\ \A ev \in Others \ {m.ev} : HoldsEv(queue', ev) <=> HoldsEv(queue, ev)
  /\ m.ev \in Others /\ HoldsEv(queue', m.ev) => HoldsEv(queue, m.ev)
  /\ \A n \in News \ {m} : Holds(queue', n) <=> Holds(queue, n)
  /\ m \in News /\ Holds(queue', m) => Holds(queue, m)
  /\ ShownLast(queue) => ShownLast(queue') /\ (m = IsShown => ~HoldsEv(queue', "shown"))
  /\ OpenedFirst(queue) => /\ m.ev # "opened" => OpenedFirst(queue')
                           /\ m # IsShown /\ m.ev # "synced"

(* But for minerStopped the queue has got m at its end.                    *)
Posted(m) ==
  /\ HoldsEv(queue', m.ev) /\ Holds(queue', m)
  /\ \A ev \in Others \ {m.ev} : HoldsEv(queue', ev) <=> HoldsEv(queue, ev)
  /\ \A n \in News \ {m} : Holds(queue', n) <=> Holds(queue, n)
  /\ ShownLast(queue) /\ (m.ev = "shown" => ~Holds(queue, IsShown)) => ShownLast(queue')
  /\ OpenedFirst(queue) /\ (m = IsShown \/ m.ev = "synced" => HoldsEv(queue, "opened"))
              => OpenedFirst(queue')

(* The signal of Miner::stop() disturbs no other.                          *)
LEMMA StopFacts ==
  ASSUME NEW q \in Seq(Message)
  PROVE  /\ Append(q, Stop) \in Seq(Message) /\ HoldsEv(Append(q, Stop), "minerStopped")
         /\ \A ev \in Others : HoldsEv(Append(q, Stop), ev) <=> HoldsEv(q, ev)
         /\ \A n \in News : Holds(Append(q, Stop), n) <=> Holds(q, n)
         /\ ShownLast(q) => ShownLast(Append(q, Stop))
         /\ OpenedFirst(q) => OpenedFirst(Append(q, Stop))
<1>1. Stop \in Message /\ Stop.ev = "minerStopped" /\ Stop # IsShown
  BY DEF Stop, Signal, Message, IsShown
<1>2. "minerStopped" \notin Others /\ Stop \notin News
  BY <1>1 DEF Others, News
<1> QED
  BY <1>1, <1>2, PostFacts

(* A slot takes its signal from the queue, and may stop the miner.         *)
LEMMA Pops ==
  ASSUME queue \in Seq(Message), queue # <<>>,
         queue' = Tail(queue) \/ queue' = AfterStop(Tail(queue))
  PROVE  Popped(Head(queue))
<1>1. CASE queue' = Tail(queue)
  <2>1. News \subseteq Message
    BY DEF News, Others, Message
  <2> QED
    BY <1>1, <2>1, PopFacts DEF Popped
<1>2. CASE queue' = Append(Tail(queue), Stop)
  <2> DEFINE q == Tail(queue)
  <2>1. /\ q \in Seq(Message) /\ Head(queue) \in Message
        /\ Holds(queue, Head(queue)) /\ HoldsEv(queue, Head(queue).ev)
        /\ \A s : Holds(queue, s) <=> Holds(q, s) \/ s = Head(queue)
        /\ \A ev : HoldsEv(queue, ev) <=> HoldsEv(q, ev) \/ ev = Head(queue).ev
        /\ ShownLast(queue) => ShownLast(q)
        /\ ShownLast(queue) /\ Head(queue) = IsShown => ~HoldsEv(q, "shown")
        /\ OpenedFirst(queue) => /\ Head(queue).ev # "opened" => OpenedFirst(q)
                                 /\ Head(queue) # IsShown /\ Head(queue).ev # "synced"
    BY PopFacts
  <2>2. "shown" \in Others
    BY DEF Others
  <2> HIDE DEF q
  <2>3. queue' = Append(q, Stop)
    BY <1>2 DEF q
  <2> QED
    BY <2>1, <2>2, <2>3, StopFacts DEF Popped
<1> QED
  BY <1>1, <1>2 DEF AfterStop, Stop

(* A signal is posted, and the miner may be stopped before.                *)
LEMMA Posts ==
  ASSUME queue \in Seq(Message), NEW m \in News,
         queue' = Append(queue, m) \/ queue' = Append(AfterStop(queue), m)
  PROVE  Posted(m)
<1>0. m \in Message /\ News \subseteq Message /\ m.ev \in Others
  BY DEF News, Others, Message
<1>1. CASE queue' = Append(queue, m)
  BY <1>0, <1>1, PostFacts DEF Posted
<1>2. CASE queue' = Append(Append(queue, Stop), m)
  <2> DEFINE q == Append(queue, Stop)
  <2>1. /\ q \in Seq(Message)
        /\ \A ev \in Others : HoldsEv(q, ev) <=> HoldsEv(queue, ev)
        /\ \A n \in News : Holds(q, n) <=> Holds(queue, n)
        /\ ShownLast(queue) => ShownLast(q)
        /\ OpenedFirst(queue) => OpenedFirst(q)
    BY StopFacts
  <2>2. {"shown", "opened"} \subseteq Others /\ IsShown \in News
    BY DEF Others, News, IsShown, Signal
  <2> HIDE DEF q
  <2>3. queue' = Append(q, m)
    BY <1>2 DEF q
  <2> QED
    BY <1>0, <2>1, <2>2, <2>3, PostFacts DEF Posted
<1> QED
  BY <1>1, <1>2 DEF AfterStop, Stop

(* A stop posts no more than its own signal.                               *)
LEMMA StopPosts ==
  ASSUME queue \in Seq(Message), queue' = AfterStop(queue)
  PROVE  /\ \A ev \in Others : HoldsEv(queue', ev) <=> HoldsEv(queue, ev)
         /\ \A n \in News : Holds(queue', n) <=> Holds(queue, n)
         /\ ShownLast(queue) => ShownLast(queue')
         /\ OpenedFirst(queue) => OpenedFirst(queue')
  BY StopFacts DEF AfterStop, Stop

(* What is held is held as a signal of its kind.                           *)
LEMMA HoldsFacts ==
  ASSUME NEW q
  PROVE  /\ \A m : Holds(q, m) => HoldsEv(q, m.ev)
         /\ ~HoldsEv(q, "shown") /\ ~HoldsEv(q, "synced") => OpenedFirst(q)
         /\ q = <<>> => \A ev : ~HoldsEv(q, ev)
<1>1. \A m : Holds(q, m) => HoldsEv(q, m.ev)
  BY DEF Holds, HoldsEv
<1>2. ~HoldsEv(q, "shown") /\ ~HoldsEv(q, "synced") => OpenedFirst(q)
  BY DEF HoldsEv, OpenedFirst, IsShown, Signal
<1>3. q = <<>> => \A ev : ~HoldsEv(q, ev)
  BY DEF HoldsEv
<1> QED
  BY <1>1, <1>2, <1>3

(* minerStopped stays in the queue unless it is handled.                   *)
LEMMA StoppedKept ==
  ASSUME queue \in Seq(Message), NEW ev \in Others, NEW ok \in BOOLEAN,
         \/ queue # <<>> /\ Head(queue) = Signal(ev, ok) /\ queue' = Tail(queue)
         \/ queue' = Append(queue, Signal(ev, ok))
  PROVE  HoldsEv(queue', "minerStopped") <=> HoldsEv(queue, "minerStopped")
<1>1. Signal(ev, ok) \in Message /\ Signal(ev, ok).ev # "minerStopped"
  BY DEF Others, Signal, Message
<1>2. CASE queue # <<>> /\ Head(queue) = Signal(ev, ok) /\ queue' = Tail(queue)
  BY <1>1, <1>2, PopFacts
<1>3. CASE queue' = Append(queue, Signal(ev, ok))
  BY <1>1, <1>3, PostFacts
<1> QED
  BY <1>2, <1>3

(* The three slots of initCompleted are queued in their order.             *)
LEMMA LoadPosts ==
  ASSUME queue \in Seq(Message), NEW ok \in BOOLEAN, ~Holds(queue, IsShown),
         queue' = queue \o <<Signal("initDone", ok), Signal("opened", ok), Signal("shown", ok)>>
  PROVE  /\ \A ev \in {"synced", "closed", "minerStopped"} : HoldsEv(queue', ev) <=> HoldsEv(queue, ev)
         /\ HoldsEv(queue', "opened") /\ HoldsEv(queue', "shown") /\ HoldsEv(queue', "initDone")
         /\ \A b \in BOOLEAN : Holds(queue', Signal("initDone", b)) <=>
                                 Holds(queue, Signal("initDone", b)) \/ b = ok
         /\ Holds(queue', IsShown) <=> ok
         /\ ShownLast(queue) => ShownLast(queue')
         /\ OpenedFirst(queue) => OpenedFirst(queue')
<1> DEFINE a == Signal("initDone", ok)
           b == Signal("opened", ok)
           c == Signal("shown", ok)
           q1 == Append(queue, a)
           q2 == Append(q1, b)
<1>1. /\ a \in Message /\ b \in Message /\ c \in Message
      /\ a.ev = "initDone" /\ b.ev = "opened" /\ c.ev = "shown" /\ IsShown.ev = "shown"
      /\ IsShown # a /\ IsShown # b /\ (IsShown = c <=> ok)
      /\ \A d \in BOOLEAN : /\ Signal("initDone", d) = a <=> d = ok
                            /\ Signal("initDone", d) # b /\ Signal("initDone", d) # c
  BY DEF Signal, Message, IsShown
<1> HIDE DEF a, b, c
<1>2. queue' = Append(q2, c)
  BY <1>1 DEF a, b, c
<1>3. /\ q1 \in Seq(Message)
      /\ \A m : Holds(q1, m) <=> Holds(queue, m) \/ m = a
      /\ \A ev : HoldsEv(q1, ev) <=> HoldsEv(queue, ev) \/ ev = "initDone"
      /\ ShownLast(queue) => ShownLast(q1)
      /\ OpenedFirst(queue) => OpenedFirst(q1)
  BY <1>1, PostFacts
<1> HIDE DEF q1
<1>4. /\ q2 \in Seq(Message)
      /\ \A m : Holds(q2, m) <=> Holds(q1, m) \/ m = b
      /\ \A ev : HoldsEv(q2, ev) <=> HoldsEv(q1, ev) \/ ev = "opened"
      /\ ShownLast(q1) => ShownLast(q2)
      /\ OpenedFirst(q1) => OpenedFirst(q2)
  BY <1>1, <1>3, PostFacts
<1> HIDE DEF q2
<1>5. /\ \A m : Holds(queue', m) <=> Holds(q2, m) \/ m = c
      /\ \A ev : HoldsEv(queue', ev) <=> HoldsEv(q2, ev) \/ ev = "shown"
      /\ ShownLast(q2) => ShownLast(queue')
      /\ OpenedFirst(q2) => OpenedFirst(queue')
  <2>1. ~Holds(q2, IsShown) /\ HoldsEv(q2, "opened")
    BY <1>1, <1>3, <1>4
  <2>2. /\ \A m : Holds(Append(q2, c), m) <=> Holds(q2, m) \/ m = c
        /\ \A ev : HoldsEv(Append(q2, c), ev) <=> HoldsEv(q2, ev) \/ ev = "shown"
        /\ ShownLast(q2) => ShownLast(Append(q2, c))
        /\ OpenedFirst(q2) => OpenedFirst(Append(q2, c))
    BY <1>1, <1>4, <2>1, PostFacts
  <2> QED
    BY <1>2, <2>2, Zenon
<1> QED
  BY <1>1, <1>3, <1>4, <1>5

(* The types, one variable at a time.                                      *)
Flags ==
  /\ m_solo_mining \in BOOLEAN /\ m_wallet_closed \in BOOLEAN /\ m_sychronized \in BOOLEAN
  /\ m_mining_was_stopped \in BOOLEAN /\ m_miningStoppedByNoPeers \in BOOLEAN
  /\ startOn \in BOOLEAN /\ stopOn \in BOOLEAN /\ shown \in BOOLEAN /\ peers \in BOOLEAN
  /\ launch \in BOOLEAN /\ syncing \in BOOLEAN /\ resetting \in BOOLEAN /\ stopped \in BOOLEAN

Values ==
  /\ timers \in {0, 1} /\ checked \in {"start", "stop"} /\ miner \in {"off", "on", "failed"}
  /\ wallet \in {"null", "loading", "ready"} /\ id \in Nat /\ keys \in 0..id
  /\ gui \in {"loop", "events", "delete", "crash"} /\ events \in Nat

(* They are those of TypeOK.                                               *)
LEMMA Typed == TypeOK <=> Flags /\ Values /\ queue \in Seq(Message)
  BY DEF TypeOK, Flags, Values, Message

(* The invariant holds at first.                                           *)
LEMMA InitInv == Init => IInv
<1> SUFFICES ASSUME Init PROVE IInv
  OBVIOUS
<1>1. \A ev : ~HoldsEv(queue, ev)
  BY DEF Init, HoldsEv
<1>2. \A m : ~Holds(queue, m)
  BY DEF Init, Holds
<1>3. ShownLast(queue) /\ OpenedFirst(queue)
  BY DEF Init, ShownLast, OpenedFirst
<1>4. TypeOK
  <2>1. Flags
    BY DEF Init, Flags
  <2>2. Values
    BY DEF Init, Values
  <2>3. queue \in Seq(Message)
    BY DEF Init
  <2> QED
    BY <2>1, <2>2, <2>3, Typed
<1>5. Known /\ Kept /\ Closing
  BY <1>1 DEF Init, Known, Kept, Closing
<1>6. Loads /\ Shows /\ Reachable /\ Stops
  BY <1>1, <1>2, <1>3 DEF Init, Loads, Shows, Reachable, Stops
<1> QED
  BY <1>4, <1>5, <1>6 DEF IInv

(* startSolo() starts the miner, or stands by, or ends the program.        *)
Starts ==
  /\ peers /\ miner = "off" /\ wallet = "ready"
  /\ miner' = "on" /\ keys' = id /\ timers' = timers + 1
  /\ startOn' = FALSE /\ stopOn' = TRUE /\ checked' = "start"
  /\ m_solo_mining' = TRUE /\ m_miningStoppedByNoPeers' = FALSE
  /\ gui' = gui

StandsBy(byPeers) ==
  /\ startOn' = peers /\ stopOn' = FALSE /\ (checked' = "start" \/ checked' = checked)
  /\ m_miningStoppedByNoPeers' = byPeers
  /\ UNCHANGED <<m_solo_mining, timers, miner, keys, gui>>

LEMMA StartEffect ==
  ASSUME NEW pressed \in BOOLEAN, NEW byPeers \in BOOLEAN, StartSolo(pressed, byPeers)
  PROVE  \/ Starts
         \/ StandsBy(byPeers)
         \/ /\ peers /\ miner = "off" /\ wallet = "null"
            /\ gui' = "crash" /\ UNCHANGED <<mining, buttons>>
  BY DEF StartSolo, Starts, StandsBy

(* Every step keeps the types.                                             *)
LEMMA NextType == IInv /\ [Next]_vars => TypeOK'
<1> SUFFICES ASSUME IInv, [Next]_vars PROVE TypeOK'
  OBVIOUS
<1>1. queue \in Seq(Message)
  BY DEF IInv, TypeOK, Message
<1>2. \A ev : Queued(ev) <=> HoldsEv(queue, ev)
  BY DEF Queued, HoldsEv
<1>3. Stop \in Message /\ queue # <<>> => Tail(queue) \in Seq(Message)
  BY <1>1 DEF Stop, Signal, Message
<1>4. ASSUME NEW q \in Seq(Message) PROVE AfterStop(q) \in Seq(Message)
  BY <1>4, StopFacts DEF AfterStop, Stop
<1>5. queue' \in Seq(Message)
  <2>1. CASE UserStep \/ CloseEvents \/ CloseDelete
    <3>1. Signal("closed", TRUE) \in Message
      BY DEF Signal, Message
    <3>2. CASE queue' = queue \/ queue' = AfterStop(queue)
      BY <1>1, <1>4, <3>2
    <3>3. CASE queue' = Append(queue, Signal("closed", TRUE))
      BY <1>1, <3>1, <3>3, PostFacts
    <3>4. CASE queue' = Append(AfterStop(queue), Signal("closed", TRUE))
      <4>1. AfterStop(queue) \in Seq(Message)
        BY <1>1, <1>4
      <4> QED
        BY <3>1, <3>4, <4>1, PostFacts
    <3> QED
      BY <2>1, <3>2, <3>3, <3>4
         DEF UserStep, ClickStart, ClickStop, SetLaunch, Open, Close, Reset, CloseEvents,
             CloseDelete, StopSolo
  <2>2. CASE SignalStep
    <3>1. queue # <<>>
      BY <2>2 DEF SignalStep, OnInitDone, WalletOpened, OnShown, WalletClosed, OnPeersLost,
                  OnPeers, OnSynced, OnMinerStopped, Delivers
    <3>2. queue' = Tail(queue) \/ queue' = AfterStop(Tail(queue))
      BY <2>2 DEF SignalStep, OnInitDone, WalletOpened, OnShown, WalletClosed, OnPeersLost,
                  OnPeers, OnSynced, OnMinerStopped, StopSolo
    <3>3. Tail(queue) \in Seq(Message)
      BY <1>1, <3>1
    <3> QED
      BY <1>4, <3>2, <3>3
  <2>3. CASE OutsideStep
    <3>1. Signal("peers", ~peers) \in Message /\ Signal("synced", TRUE) \in Message
      BY DEF Signal, Message
    <3>2. \A ok \in BOOLEAN :
            <<Signal("initDone", ok), Signal("opened", ok), Signal("shown", ok)>> \in Seq(Message)
      BY DEF Signal, Message
    <3>3. CASE queue' = queue \/ queue' = AfterStop(queue)
      BY <1>1, <1>4, <3>3
    <3>4. CASE PeersChange \/ SyncEmit
      BY <1>1, <3>1, <3>4, PostFacts DEF PeersChange, SyncEmit
    <3>5. CASE LoadDone
      <4>1. PICK ok \in BOOLEAN :
              queue' = queue \o <<Signal("initDone", ok), Signal("opened", ok), Signal("shown", ok)>>
        BY <3>5 DEF LoadDone
      <4>2. PICK t \in Seq(Message) : queue' = queue \o t
        BY <3>2, <4>1
      <4> QED
        BY <1>1, <4>2
    <3> QED
      BY <2>3, <3>3, <3>4, <3>5
         DEF OutsideStep, ChainUpdateFails, WorkerFails, SyncBegin
  <2>4. CASE UNCHANGED vars
    BY <1>1, <2>4 DEF vars
  <2> QED
    BY <2>1, <2>2, <2>3, <2>4 DEF Next
<1>6. Flags /\ Values /\ Known
  BY Typed DEF IInv
<1>7. Flags' /\ Values' => TypeOK'
  BY <1>5 DEF TypeOK, Flags, Values, Message
<1> USE <1>6, MiningAssumption DEF frame, mining, buttons, outside, calls
<1>10. CASE ClickStart
  <2>1. Flags'
    BY <1>10 DEF ClickStart, Event, StartSolo, Flags
  <2>2. Values'
    <3>1. timers = 0
      BY <1>10 DEF ClickStart, Known
    <3>2. /\ \/ UNCHANGED <<timers, miner, keys>>
             \/ timers' = timers + 1 /\ miner' = "on" /\ keys' = id
          /\ checked' = "start" \/ checked' = checked
          /\ gui' = gui \/ gui' = "crash"
      <4>1. CASE m_wallet_closed
        <5>1. checked' = "start" /\ UNCHANGED <<mining, gui>>
          BY ONLY <1>10, <4>1, Zenon DEF ClickStart
        <5> QED
          BY <5>1
      <4>2. CASE StartSolo(TRUE, m_miningStoppedByNoPeers)
        <5>1. m_miningStoppedByNoPeers \in BOOLEAN
          BY <1>6 DEF Flags
        <5>2. CASE Starts
          BY <5>2 DEF Starts
        <5>3. CASE StandsBy(m_miningStoppedByNoPeers)
          BY <5>3 DEF StandsBy
        <5> QED
          BY <4>2, <5>1, <5>2, <5>3, StartEffect
      <4> QED
        BY <1>10, <4>1, <4>2 DEF ClickStart
    <3>3. UNCHANGED <<wallet, id>> /\ events' = events + 1
      BY <1>10 DEF ClickStart, Event
    <3> QED
      BY <3>1, <3>2, <3>3 DEF Values
  <2> QED
    BY <1>7, <2>1, <2>2
<1>11. CASE ClickStop
  <2>1. Flags'
    BY <1>11 DEF ClickStop, Event, StopSolo, Flags
  <2>2. Values'
    BY <1>11 DEF ClickStop, Event, StopSolo, Values, Known
  <2> QED
    BY <1>7, <2>1, <2>2
<1>12. CASE SetLaunch
  BY <1>7, <1>12 DEF SetLaunch, Event, Flags, Values, Known
<1>13. CASE Open
  <2>1. Flags'
    BY <1>13, ZenonT(60) DEF Open, Event, Flags
  <2>2. Values'
    BY <1>13 DEF Open, Event, Values, Known
  <2> QED
    BY <1>7, <2>1, <2>2
<1>14. CASE Close
  <2>1. Flags'
    BY <1>14 DEF Close, Event, stopMiningForShutdown, Flags
  <2>2. Values'
    BY <1>14 DEF Close, Event, stopMiningForShutdown, Values, Known
  <2> QED
    BY <1>7, <2>1, <2>2
<1>15. CASE Reset
  BY <1>7, <1>15 DEF Reset, Event, ShownClosed, Flags, Values, Known
<1>16. CASE CloseEvents
  BY <1>7, <1>16 DEF CloseEvents, Flags, Values, Known
<1>17. CASE CloseDelete
  BY <1>7, <1>17 DEF CloseDelete, Flags, Values, Known
<1>18. CASE OnInitDone
  BY <1>7, <1>18 DEF OnInitDone, Delivers, Flags, Values, Known
<1>19. CASE WalletOpened
  <2>1. Flags'
    BY <1>19, ZenonT(60) DEF WalletOpened, Delivers, StopSolo, Flags
  <2>2. Values'
    BY <1>19 DEF WalletOpened, Delivers, StopSolo, Values, Known
  <2> QED
    BY <1>7, <2>1, <2>2
<1>20. CASE OnShown
  BY <1>7, <1>20 DEF OnShown, Delivers, ShownClosed, Flags, Values, Known
<1>21. CASE WalletClosed
  BY <1>7, <1>21 DEF WalletClosed, Delivers, Flags, Values, Known
<1>22. CASE OnPeersLost
  <2>1. Flags'
    BY <1>22 DEF OnPeersLost, Delivers, StopSolo, Flags
  <2>2. Values'
    BY <1>22 DEF OnPeersLost, Delivers, StopSolo, Values, Known
  <2> QED
    BY <1>7, <2>1, <2>2
<1>23. CASE OnPeers
  <2>1. Flags'
    <3>1. UNCHANGED <<frame, shown, outside, resetting, stopped>>
      BY <1>23 DEF OnPeers, Delivers
    <3>2. CASE UNCHANGED <<mining, buttons>>
      BY <3>1, <3>2 DEF Flags
    <3>3. CASE StartSolo(FALSE, m_miningStoppedByNoPeers)
      <4>1. CASE Starts
        BY <3>1, <4>1 DEF Starts, Flags
      <4>2. CASE StandsBy(m_miningStoppedByNoPeers)
        BY <3>1, <4>2 DEF StandsBy, Flags
      <4> QED
        BY <3>2, <3>3, <4>1, <4>2, StartEffect DEF Flags
    <3>4. CASE startOn' = TRUE /\ stopOn' = FALSE /\ UNCHANGED mining
      BY <3>1, <3>4, ZenonT(60) DEF Flags
    <3> QED
      BY <1>23, <3>2, <3>3, <3>4 DEF OnPeers, EnableSolo
  <2>2. Values'
    BY <1>23 DEF OnPeers, Delivers, EnableSolo, Idle, StartSolo, Values, Known
  <2> QED
    BY <1>7, <2>1, <2>2
<1>24. CASE OnSynced
  <2>1. Flags'
    BY <1>24, ZenonT(60) DEF OnSynced, Delivers, EnableSolo, Idle, StartSolo, Flags
  <2>2. Values'
    BY <1>24 DEF OnSynced, Delivers, EnableSolo, Idle, StartSolo, Values, Known
  <2> QED
    BY <1>7, <2>1, <2>2
<1>25. CASE OnMinerStopped
  <2>1. Flags'
    BY <1>25, ZenonT(60) DEF OnMinerStopped, Delivers, Flags
  <2>2. Values'
    BY <1>25 DEF OnMinerStopped, Delivers, Values, Known
  <2> QED
    BY <1>7, <2>1, <2>2
<1>26. CASE ChainUpdateFails
  BY <1>7, <1>26 DEF ChainUpdateFails, Event, Flags, Values, Known
<1>27. CASE WorkerFails
  BY <1>7, <1>27 DEF WorkerFails, Happens, Flags, Values, Known
<1>28. CASE PeersChange
  BY <1>7, <1>28 DEF PeersChange, Happens, Flags, Values, Known
<1>29. CASE LoadDone
  BY <1>7, <1>29 DEF LoadDone, Flags, Values, Known
<1>30. CASE SyncBegin
  BY <1>7, <1>30 DEF SyncBegin, Happens, Flags, Values, Known
<1>31. CASE SyncEmit
  <2>1. Flags'
    BY <1>31, ZenonT(60) DEF SyncEmit, Flags
  <2>2. Values'
    BY <1>31 DEF SyncEmit, Values, Known
  <2> QED
    BY <1>7, <2>1, <2>2
<1>32. CASE UNCHANGED vars
  BY <1>32 DEF vars, TypeOK, IInv
<1> QED
  BY <1>10, <1>11, <1>12, <1>13, <1>14, <1>15, <1>16, <1>17, <1>18, <1>19, <1>20,
     <1>21, <1>22, <1>23, <1>24, <1>25, <1>26, <1>27, <1>28, <1>29, <1>30, <1>31, <1>32
  DEF Next, UserStep, SignalStep, OutsideStep

(* Every step keeps the invariant.                                         *)
LEMMA NextInv ==
  Discipline = Disciplines => (IInv /\ [Next]_vars => IInv')
<1> SUFFICES ASSUME Discipline = Disciplines, IInv, [Next]_vars PROVE IInv'
  OBVIOUS
<1>0. TypeOK'
  BY NextType
<1>1. queue \in Seq(Message)
  BY DEF IInv, TypeOK, Message
<1>2. \A ev : Queued(ev) <=> HoldsEv(queue, ev)
  BY DEF Queued, HoldsEv
<1>3. {"quiet_close", "reset_opens", "told_first"} = Discipline
  BY DEF Disciplines
<1>4. /\ IsShown \in News /\ IsShown.ev = "shown"
      /\ \A ok \in BOOLEAN : Signal("initDone", ok) \in News /\ Signal("initDone", ok).ev = "initDone"
                             /\ Signal("initDone", ok) # IsShown
      /\ Signal("initDone", TRUE) # Signal("initDone", FALSE)
      /\ Others = {"initDone", "opened", "shown", "closed", "peers", "synced"}
  BY DEF IsShown, Signal, News, Others
<1>5. /\ Holds(queue, IsShown) => HoldsEv(queue, "shown")
      /\ \A ok \in BOOLEAN : Holds(queue, Signal("initDone", ok)) => HoldsEv(queue, "initDone")
      /\ ~HoldsEv(queue, "shown") /\ ~HoldsEv(queue, "synced") => OpenedFirst(queue)
      /\ queue = <<>> => \A ev : ~HoldsEv(queue, ev)
  BY <1>4, HoldsFacts
<1> USE <1>0, <1>1, <1>2, <1>3, <1>4, <1>5
    DEF IInv, Known, HasWallet, Kept, Closing, Loads, Shows, Reachable, ForGood, Stops,
        frame, mining, buttons, outside, calls
<1>10. CASE ClickStart
  <2>q. queue' = queue
    BY <1>10 DEF ClickStart
  <2>a. startOn /\ ~m_solo_mining /\ timers = 0 /\ miner = "off"
    BY <1>10 DEF ClickStart
  <2>0. Known'
    <3>1. CASE m_wallet_closed
      BY <1>10, <2>q, <3>1 DEF ClickStart
    <3>2. CASE StartSolo(TRUE, m_miningStoppedByNoPeers)
      <4>1. CASE miner' = "on"
        BY <1>10, <2>q, <2>a, <3>2, <4>1 DEF ClickStart, StartSolo
      <4>2. CASE UNCHANGED mining
        BY <1>10, <2>q, <2>a, <4>2 DEF ClickStart
      <4> QED
        BY <2>a, <3>2, <4>1, <4>2 DEF StartSolo
    <3> QED
      BY <1>10, <3>1, <3>2 DEF ClickStart
  <2>1. Kept'
    BY <1>10, <2>q DEF ClickStart, Event, Handling, StartSolo
  <2>2. Closing'
    BY <1>10, <2>q DEF ClickStart, Event, Handling, StartSolo
  <2>3. Loads'
    BY <1>10, <2>q DEF ClickStart, Event, Handling, StartSolo
  <2>4. Shows'
    BY <1>10, <2>q DEF ClickStart, Event, Handling, StartSolo
  <2>5. Reachable'
    BY <1>10, <2>q DEF ClickStart, Event, Handling, StartSolo
  <2>6. Stops'
    BY <1>10, <2>q DEF ClickStart, Event, Handling, StartSolo
  <2> QED
    BY <2>0, <2>1, <2>2, <2>3, <2>4, <2>5, <2>6 DEF IInv
<1>11. CASE ClickStop
  <2>r. queue' = queue \/ queue' = AfterStop(queue)
    BY <1>11 DEF ClickStop, StopSolo
  <2>q. /\ \A ev \in Others : HoldsEv(queue', ev) <=> HoldsEv(queue, ev)
        /\ \A m \in News : Holds(queue', m) <=> Holds(queue, m)
        /\ ShownLast(queue) => ShownLast(queue')
        /\ OpenedFirst(queue) => OpenedFirst(queue')
    BY <2>r, StopPosts
  <2>0. Known'
    BY <1>11, <2>q DEF ClickStop, Event, Handling, StopSolo
  <2>1. Kept'
    BY <1>11, <2>q DEF ClickStop, Event, Handling, StopSolo
  <2>2. Closing'
    BY <1>11, <2>q DEF ClickStop, Event, Handling, StopSolo
  <2>3. Loads'
    BY <1>11, <2>q DEF ClickStop, Event, Handling, StopSolo
  <2>4. Shows'
    BY <1>11, <2>q DEF ClickStop, Event, Handling, StopSolo
  <2>5. Reachable'
    BY <1>11, <2>q DEF ClickStop, Event, Handling, StopSolo
  <2>6. Stops'
    BY <1>11, <2>q DEF ClickStop, Event, Handling, StopSolo
  <2> QED
    BY <2>0, <2>1, <2>2, <2>3, <2>4, <2>5, <2>6 DEF IInv
<1>12. CASE SetLaunch
  <2>q. queue' = queue
    BY <1>12 DEF SetLaunch
  <2> QED
    BY <1>12, <2>q DEF SetLaunch, Event, Handling
<1>13. CASE Open
  <2>q. queue' = queue
    BY <1>13 DEF Open
  <2> QED
    BY <1>13, <2>q DEF Open, Event, Handling
<1>14. CASE Close
  <2>q. Posted(Signal("closed", TRUE)) /\ Signal("closed", TRUE).ev = "closed"
    BY <1>14, Posts DEF Close, Signal, News, Others
  <2> QED
    BY <1>14, <2>q DEF Close, Event, Handling, CanClose, stopMiningForShutdown, Posted
<1>15. CASE Reset
  <2>q. Posted(Signal("closed", TRUE)) /\ Signal("closed", TRUE).ev = "closed"
    BY <1>15, Posts DEF Reset, Signal, News, Others
  <2>k. HoldsEv(queue', "minerStopped") <=> HoldsEv(queue, "minerStopped")
    BY <1>15, StoppedKept DEF Reset
  <2> QED
    BY <1>15, <2>q, <2>k DEF Reset, Event, Handling, CanClose, ShownClosed, Posted
<1>16. CASE CloseEvents
  <2>q. queue' = queue
    BY <1>16 DEF CloseEvents
  <2> QED
    BY <1>16, <2>q DEF CloseEvents
<1>17. CASE CloseDelete
  <2>q. queue' = queue
    BY <1>17 DEF CloseDelete
  <2> QED
    BY <1>17, <2>q DEF CloseDelete
<1>18. CASE OnInitDone
  <2>p. PICK ok \in BOOLEAN : OnInitDone!(ok)
    BY <1>18 DEF OnInitDone
  <2>h. queue # <<>> /\ Head(queue) = Signal("initDone", ok)
    BY <2>p DEF OnInitDone, Delivers
  <2>r. queue' = Tail(queue) \/ queue' = AfterStop(Tail(queue))
    BY <2>p DEF OnInitDone, StopSolo
  <2>q. Popped(Signal("initDone", ok)) /\ Signal("initDone", ok).ev = "initDone"
    BY <2>h, <2>r, Pops DEF Signal
  <2>k. HoldsEv(queue', "minerStopped") <=> HoldsEv(queue, "minerStopped")
    BY <2>p, <2>h, StoppedKept DEF OnInitDone
  <2> QED
    BY <2>p, <2>q, <2>k, ZenonT(60) DEF OnInitDone, Delivers, Handling, Popped
<1>19. CASE WalletOpened
  <2>p. PICK ok \in BOOLEAN : WalletOpened!(ok)
    BY <1>19 DEF WalletOpened
  <2>h. queue # <<>> /\ Head(queue) = Signal("opened", ok)
    BY <2>p DEF WalletOpened, Delivers
  <2>r. queue' = Tail(queue) \/ queue' = AfterStop(Tail(queue))
    BY <2>p DEF WalletOpened, StopSolo
  <2>q. Popped(Signal("opened", ok)) /\ Signal("opened", ok).ev = "opened"
    BY <2>h, <2>r, Pops DEF Signal
  <2>0. Known'
    BY <2>p, <2>q DEF WalletOpened, Delivers, Handling, StopSolo, Popped
  <2>1. Kept'
    BY <2>p, <2>q DEF WalletOpened, Delivers, Handling, StopSolo, Popped
  <2>2. Closing'
    BY <2>p, <2>q DEF WalletOpened, Delivers, Handling, StopSolo, Popped
  <2>3. Loads'
    BY <2>p, <2>q DEF WalletOpened, Delivers, Handling, StopSolo, Popped
  <2>4. Shows'
    BY <2>p, <2>q DEF WalletOpened, Delivers, Handling, StopSolo, Popped
  <2>5. Reachable'
    BY <2>p, <2>q DEF WalletOpened, Delivers, Handling, StopSolo, Popped
  <2>6. Stops'
    BY <2>p, <2>q DEF WalletOpened, Delivers, Handling, StopSolo, Popped
  <2> QED
    BY <2>0, <2>1, <2>2, <2>3, <2>4, <2>5, <2>6 DEF IInv
<1>20. CASE OnShown
  <2>p. PICK ok \in BOOLEAN : OnShown!(ok)
    BY <1>20 DEF OnShown
  <2>h. queue # <<>> /\ Head(queue) = Signal("shown", ok)
    BY <2>p DEF OnShown, Delivers
  <2>r. queue' = Tail(queue) \/ queue' = AfterStop(Tail(queue))
    BY <2>p DEF OnShown, StopSolo
  <2>q. Popped(Signal("shown", ok)) /\ Signal("shown", ok).ev = "shown"
    BY <2>h, <2>r, Pops DEF Signal
  <2>k. HoldsEv(queue', "minerStopped") <=> HoldsEv(queue, "minerStopped")
    BY <2>p, <2>h, StoppedKept DEF OnShown
  <2>l. Signal("shown", ok) = IsShown <=> ok
    BY DEF IsShown, Signal
  <2> QED
    BY <2>p, <2>q, <2>k, <2>l, ZenonT(60) DEF OnShown, Delivers, Handling, ShownClosed, Popped
<1>21. CASE WalletClosed
  <2>h. queue # <<>> /\ Head(queue) = Signal("closed", TRUE)
    BY <1>21 DEF WalletClosed, Delivers
  <2>r. queue' = Tail(queue) \/ queue' = AfterStop(Tail(queue))
    BY <1>21 DEF WalletClosed, StopSolo
  <2>q. Popped(Signal("closed", TRUE)) /\ Signal("closed", TRUE).ev = "closed"
    BY <2>h, <2>r, Pops DEF Signal
  <2>k. HoldsEv(queue', "minerStopped") <=> HoldsEv(queue, "minerStopped")
    BY <1>21, <2>h, StoppedKept DEF WalletClosed
  <2> QED
    BY <1>21, <2>q, <2>k DEF WalletClosed, Delivers, Handling, Popped
<1>22. CASE OnPeersLost
  <2>h. queue # <<>> /\ Head(queue) = Signal("peers", FALSE)
    BY <1>22 DEF OnPeersLost, Delivers
  <2>r. queue' = Tail(queue) \/ queue' = AfterStop(Tail(queue))
    BY <1>22 DEF OnPeersLost, StopSolo
  <2>q. Popped(Signal("peers", FALSE)) /\ Signal("peers", FALSE).ev = "peers"
    BY <2>h, <2>r, Pops DEF Signal
  <2>0. Known'
    BY <1>22, <2>q DEF OnPeersLost, Delivers, Handling, StopSolo, Popped
  <2>1. Kept'
    BY <1>22, <2>q DEF OnPeersLost, Delivers, Handling, StopSolo, Popped
  <2>2. Closing'
    BY <1>22, <2>q DEF OnPeersLost, Delivers, Handling, StopSolo, Popped
  <2>3. Loads'
    BY <1>22, <2>q DEF OnPeersLost, Delivers, Handling, StopSolo, Popped
  <2>4. Shows'
    BY <1>22, <2>q DEF OnPeersLost, Delivers, Handling, StopSolo, Popped
  <2>5. Reachable'
    BY <1>22, <2>q DEF OnPeersLost, Delivers, Handling, StopSolo, Popped
  <2>6. Stops'
    BY <1>22, <2>q DEF OnPeersLost, Delivers, Handling, StopSolo, Popped
  <2> QED
    BY <2>0, <2>1, <2>2, <2>3, <2>4, <2>5, <2>6 DEF IInv
<1>23. CASE OnPeers
  <2>h. queue # <<>> /\ Head(queue) = Signal("peers", TRUE)
    BY <1>23 DEF OnPeers, Delivers
  <2>r. queue' = Tail(queue) \/ queue' = AfterStop(Tail(queue))
    BY <1>23 DEF OnPeers, StopSolo
  <2>q. Popped(Signal("peers", TRUE)) /\ Signal("peers", TRUE).ev = "peers"
    BY <2>h, <2>r, Pops DEF Signal
  <2>k. HoldsEv(queue', "minerStopped") <=> HoldsEv(queue, "minerStopped")
    BY <1>23, <2>h, StoppedKept DEF OnPeers
  <2>0. Known'
    BY <1>23, <2>q, <2>k DEF OnPeers, Delivers, Handling, EnableSolo, Idle, StartSolo, Popped
  <2>1. Kept'
    BY <1>23, <2>q, <2>k DEF OnPeers, Delivers, Handling, EnableSolo, Idle, StartSolo, Popped
  <2>2. Closing'
    BY <1>23, <2>q, <2>k DEF OnPeers, Delivers, Handling, EnableSolo, Idle, StartSolo, Popped
  <2>3. Loads'
    BY <1>23, <2>q, <2>k DEF OnPeers, Delivers, Handling, EnableSolo, Idle, StartSolo, Popped
  <2>4. Shows'
    BY <1>23, <2>q, <2>k DEF OnPeers, Delivers, Handling, EnableSolo, Idle, StartSolo, Popped
  <2>5. Reachable'
    BY <1>23, <2>q, <2>k DEF OnPeers, Delivers, Handling, EnableSolo, Idle, StartSolo, Popped
  <2>6. Stops'
    BY <1>23, <2>q, <2>k DEF OnPeers, Delivers, Handling, EnableSolo, Idle, StartSolo, Popped
  <2> QED
    BY <2>0, <2>1, <2>2, <2>3, <2>4, <2>5, <2>6 DEF IInv
<1>24. CASE OnSynced
  <2>h. queue # <<>> /\ Head(queue) = Signal("synced", TRUE)
    BY <1>24 DEF OnSynced, Delivers
  <2>r. queue' = Tail(queue) \/ queue' = AfterStop(Tail(queue))
    BY <1>24 DEF OnSynced, StopSolo
  <2>q. Popped(Signal("synced", TRUE)) /\ Signal("synced", TRUE).ev = "synced"
    BY <2>h, <2>r, Pops DEF Signal
  <2>k. HoldsEv(queue', "minerStopped") <=> HoldsEv(queue, "minerStopped")
    BY <1>24, <2>h, StoppedKept DEF OnSynced
  <2>0. Known'
    BY <1>24, <2>q, <2>k DEF OnSynced, Delivers, Handling, EnableSolo, Idle, StartSolo, Popped
  <2>1. Kept'
    BY <1>24, <2>q, <2>k DEF OnSynced, Delivers, Handling, EnableSolo, Idle, StartSolo, Popped
  <2>2. Closing'
    BY <1>24, <2>q, <2>k DEF OnSynced, Delivers, Handling, EnableSolo, Idle, StartSolo, Popped
  <2>3. Loads'
    BY <1>24, <2>q, <2>k DEF OnSynced, Delivers, Handling, EnableSolo, Idle, StartSolo, Popped
  <2>4. Shows'
    BY <1>24, <2>q, <2>k DEF OnSynced, Delivers, Handling, EnableSolo, Idle, StartSolo, Popped
  <2>5. Reachable'
    BY <1>24, <2>q, <2>k DEF OnSynced, Delivers, Handling, EnableSolo, Idle, StartSolo, Popped
  <2>6. Stops'
    BY <1>24, <2>q, <2>k DEF OnSynced, Delivers, Handling, EnableSolo, Idle, StartSolo, Popped
  <2> QED
    BY <2>0, <2>1, <2>2, <2>3, <2>4, <2>5, <2>6 DEF IInv
<1>25. CASE OnMinerStopped
  <2>h. queue # <<>> /\ Head(queue) = Signal("minerStopped", TRUE)
    BY <1>25 DEF OnMinerStopped, Delivers
  <2>r. queue' = Tail(queue) \/ queue' = AfterStop(Tail(queue))
    BY <1>25 DEF OnMinerStopped, StopSolo
  <2>q. Popped(Signal("minerStopped", TRUE)) /\ Signal("minerStopped", TRUE).ev = "minerStopped"
    BY <2>h, <2>r, Pops DEF Signal
  <2>k. HoldsEv(queue', "minerStopped") => HoldsEv(queue, "minerStopped")
    BY <1>25, <2>h, PopFacts DEF OnMinerStopped
  <2>0. Known'
    <3>1. miner # "failed"
      BY <2>q DEF Popped
    <3>2. CASE ~m_solo_mining \/ miner = "on"
      BY <1>25, <2>k, <3>1, <3>2 DEF OnMinerStopped
    <3>3. CASE m_solo_mining /\ miner = "off"
      BY <1>25, <2>k, <3>3 DEF OnMinerStopped
    <3> QED
      BY <3>1, <3>2, <3>3 DEF TypeOK
  <2>1. Kept'
    BY <1>25, <2>q, <2>k DEF OnMinerStopped, Delivers, Handling, Popped
  <2>2. Closing'
    BY <1>25, <2>q, <2>k DEF OnMinerStopped, Delivers, Handling, Popped
  <2>3. Loads'
    BY <1>25, <2>q, <2>k DEF OnMinerStopped, Delivers, Handling, Popped
  <2>4. Shows'
    BY <1>25, <2>q, <2>k DEF OnMinerStopped, Delivers, Handling, Popped
  <2>5. Reachable'
    BY <1>25, <2>q, <2>k DEF OnMinerStopped, Delivers, Handling, Popped
  <2>6. Stops'
    BY <1>25, <2>q, <2>k DEF OnMinerStopped, Delivers, Handling, Popped
  <2> QED
    BY <2>0, <2>1, <2>2, <2>3, <2>4, <2>5, <2>6 DEF IInv
<1>26. CASE ChainUpdateFails
  <2>r. queue' = queue \/ queue' = AfterStop(queue)
    BY <1>26 DEF ChainUpdateFails, StopSolo
  <2>q. /\ \A ev \in Others : HoldsEv(queue', ev) <=> HoldsEv(queue, ev)
        /\ \A m \in News : Holds(queue', m) <=> Holds(queue, m)
        /\ ShownLast(queue) => ShownLast(queue')
        /\ OpenedFirst(queue) => OpenedFirst(queue')
    BY <2>r, StopPosts
  <2>k. HoldsEv(queue', "minerStopped")
    BY <1>26, StopFacts DEF ChainUpdateFails, AfterStop, Stop
  <2> QED
    BY <1>26, <2>q, <2>k DEF ChainUpdateFails, Event, Handling
<1>27. CASE WorkerFails
  <2>q. queue' = queue
    BY <1>27 DEF WorkerFails
  <2> QED
    BY <1>27, <2>q DEF WorkerFails, Happens
<1>28. CASE PeersChange
  <2>q. Posted(Signal("peers", peers')) /\ Signal("peers", peers').ev = "peers"
    BY <1>28, Posts DEF PeersChange, Signal, News, Others, Happens, TypeOK
  <2>k. HoldsEv(queue', "minerStopped") <=> HoldsEv(queue, "minerStopped")
    BY <1>28, StoppedKept DEF PeersChange, Happens, TypeOK
  <2> QED
    BY <1>28, <2>q, <2>k, ZenonT(60) DEF PeersChange, Happens, Posted
<1>29. CASE LoadDone
  <2>p. PICK ok \in BOOLEAN :
          /\ resetting /\ "reset_opens" \in Discipline => ok
          /\ wallet' = IF ok THEN "ready" ELSE "loading"
          /\ queue' = queue \o <<Signal("initDone", ok), Signal("opened", ok), Signal("shown", ok)>>
    BY <1>29 DEF LoadDone
  <2>p1. wallet' = IF ok THEN "ready" ELSE "loading"
    BY <2>p, Zenon
  <2>o. wallet = "loading" /\ ~Holds(queue, IsShown) /\ ~HoldsEv(queue, "initDone")
    BY <1>29 DEF LoadDone
  <2>u. UNCHANGED <<frame, mining, buttons, shown, id, peers, launch, syncing, calls, stopped>>
    BY <1>29 DEF LoadDone
  <2>w. \/ wallet' = "ready" /\ ok
        \/ wallet' = "loading" /\ ~ok /\ ~resetting
    <3>1. CASE ok
      <4>1. wallet' = "ready"
        BY <2>p1, <3>1, Zenon
      <4> QED
        BY <3>1, <4>1
    <3>2. CASE ~ok
      <4>1. ~resetting
        BY ONLY <2>p, <3>2, <1>3
      <4> QED
        BY <2>p1, <3>2, <4>1
    <3> QED
      BY <3>1, <3>2
  <2>q. /\ \A ev \in {"synced", "closed", "minerStopped"} :
              HoldsEv(queue', ev) <=> HoldsEv(queue, ev)
        /\ HoldsEv(queue', "opened") /\ HoldsEv(queue', "shown") /\ HoldsEv(queue', "initDone")
        /\ \A b \in BOOLEAN : Holds(queue', Signal("initDone", b)) <=>
                                 Holds(queue, Signal("initDone", b)) \/ b = ok
        /\ Holds(queue', IsShown) <=> ok
        /\ ShownLast(queue) => ShownLast(queue')
        /\ OpenedFirst(queue) => OpenedFirst(queue')
    BY <2>p, <2>o, LoadPosts
  <2>0. Known'
    BY <2>u, <2>w, <2>o, <2>q
  <2>1. Kept'
    BY <2>u, <2>w, <2>o, <2>q
  <2>2. Closing'
    BY <2>u, <2>w, <2>o, <2>q
  <2>3. Loads'
    <3>1. ~Holds(queue, Signal("initDone", TRUE)) /\ ~Holds(queue, Signal("initDone", FALSE))
      BY <2>o
    <3>2. Holds(queue', Signal("initDone", TRUE)) <=> ok
      BY <2>q, <3>1
    <3>3. Holds(queue', Signal("initDone", FALSE)) <=> ~ok
      BY <2>q, <3>1
    <3>4. ShownLast(queue') /\ (m_wallet_closed => OpenedFirst(queue'))
      BY <2>q
    <3> QED
      BY <2>u, <2>w, <2>q, <3>2, <3>3, <3>4
  <2>4. Shows'
    BY <2>u, <2>w, <2>o, <2>q
  <2>5. Reachable'
    BY <2>u, <2>w, <2>o, <2>q
  <2>6. Stops'
    BY <2>u, <2>w, <2>o, <2>q
  <2> QED
    BY <2>0, <2>1, <2>2, <2>3, <2>4, <2>5, <2>6 DEF IInv
<1>30. CASE SyncBegin
  <2>q. queue' = queue
    BY <1>30 DEF SyncBegin
  <2> QED
    BY <1>30, <2>q DEF SyncBegin, Happens
<1>31. CASE SyncEmit
  <2>q. Posted(Signal("synced", TRUE)) /\ Signal("synced", TRUE).ev = "synced"
    BY <1>31, Posts DEF SyncEmit, Signal, News, Others
  <2>k. HoldsEv(queue', "minerStopped") <=> HoldsEv(queue, "minerStopped")
    BY <1>31, StoppedKept DEF SyncEmit
  <2> QED
    BY <1>31, <2>q, <2>k DEF SyncEmit, Posted
<1>32. CASE UNCHANGED vars
  BY <1>32, ZenonT(60) DEF vars
<1> QED
  BY <1>10, <1>11, <1>12, <1>13, <1>14, <1>15, <1>16, <1>17, <1>18, <1>19, <1>20,
     <1>21, <1>22, <1>23, <1>24, <1>25, <1>26, <1>27, <1>28, <1>29, <1>30, <1>31, <1>32
  DEF Next, UserStep, SignalStep, OutsideStep

-----------------------------------------------------------------------------
(* The invariant holds in every reachable state.                           *)
THEOREM Invariance ==
  ASSUME Discipline = Disciplines
  PROVE  Spec => []IInv
<1>1. Init => IInv
  BY InitInv
<1>2. IInv /\ [Next]_vars => IInv'
  BY NextInv
<1> QED
  BY <1>1, <1>2, PTL DEF Spec

(* Every variable keeps its type: there are never two pairs of timers.     *)
THEOREM TypeCorrect ==
  ASSUME Discipline = Disciplines
  PROVE  Spec => []TypeOK
<1>1. IInv => TypeOK
  BY DEF IInv
<1> QED
  BY <1>1, Invariance, PTL

(* The frame's m_solo_mining and the miner agree, but for a minerStopped   *)
(* that is queued or a worker that failed (startSolo, stopSolo and         *)
(* onMinerStopped of MiningFrame).                                         *)
THEOREM MinerKnown ==
  ASSUME Discipline = Disciplines
  PROVE  Spec => []SoloIsKnown
<1>1. IInv => SoloIsKnown
  BY DEF IInv, Known, SoloIsKnown, Queued, HoldsEv
<1> QED
  BY <1>1, Invariance, PTL

(* A miner that runs can be stopped by its button, on a tab that can be    *)
(* reached (startSolo, enableSolo, and MainWindow's walletOpened and       *)
(* walletClosed).                                                          *)
THEOREM StopAtHand ==
  ASSUME Discipline = Disciplines
  PROVE  Spec => []StopReachable
<1>1. IInv => StopReachable
  BY DEF IInv, Known, Reachable, StopReachable, Queued, HoldsEv
<1> QED
  BY <1>1, Invariance, PTL

(* The miner pays to the wallet that is open, and is never started without *)
(* one (Miner::start with WalletAdapter::getAccountKeys).                  *)
THEOREM WalletPaid ==
  ASSUME Discipline = Disciplines
  PROVE  Spec => []PaysOpenWallet
<1>1. IInv => PaysOpenWallet
  BY DEF IInv, Known, Kept, PaysOpenWallet, KeysHaveWallet
<1> QED
  BY <1>1, Invariance, PTL

(* What the user has stopped is started only by the user: not by peers     *)
(* that come back, nor by a synchronisation that completes.                *)
THEOREM StoppedStays ==
  ASSUME Discipline = Disciplines
  PROVE  Spec => UserStopStays
<1>1. IInv /\ [Next]_vars =>
        [stopped /\ miner = "off" /\ miner' = "on" => stopped' = FALSE]_vars
  <2> SUFFICES ASSUME IInv, Next, stopped, miner = "off", miner' = "on"
               PROVE  stopped' = FALSE
    OBVIOUS
  <2>1. m_mining_was_stopped /\ ~m_miningStoppedByNoPeers
    BY DEF IInv, Stops, ForGood
  <2>2. ~EnableSolo(FALSE, m_miningStoppedByNoPeers)
    BY <2>1 DEF EnableSolo, mining
  <2>3. CASE UserStep
    BY <2>3 DEF UserStep, ClickStart, ClickStop, StopSolo, SetLaunch, Open, Close,
                stopMiningForShutdown, Reset, mining
  <2>4. CASE CloseEvents \/ CloseDelete
    BY <2>4 DEF CloseEvents, CloseDelete, mining
  <2>5. CASE SignalStep
    <3>1. CASE OnPeers
      BY <2>2, <3>1 DEF OnPeers, mining
    <3>2. CASE OnSynced
      <4>1. \E b \in BOOLEAN : EnableSolo(m_miningStoppedByNoPeers /\ peers, b)
        BY <3>2, Zenon DEF OnSynced
      <4> QED
        BY <2>1, <4>1 DEF EnableSolo, mining
    <3> QED
      BY <2>5, <3>1, <3>2 DEF SignalStep, OnInitDone, WalletOpened, OnShown, WalletClosed,
                              OnPeersLost, OnMinerStopped, StopSolo, mining
  <2>6. CASE OutsideStep
    BY <2>6 DEF OutsideStep, ChainUpdateFails, WorkerFails, PeersChange, LoadDone, SyncBegin,
                SyncEmit, mining
  <2> QED
    BY <2>3, <2>4, <2>5, <2>6 DEF Next
<1> QED
  BY <1>1, Invariance, PTL DEF Spec, UserStopStays
==============================================================================
