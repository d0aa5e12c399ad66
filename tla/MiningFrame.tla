---------------------------- MODULE MiningFrame ----------------------------
(***************************************************************************)
(* When mining starts and stops: src/src/gui/MiningFrame.cpp, with the     *)
(* embedded node.                                                          *)
(*                                                                         *)
(* Everything here runs on the GUI thread, but tells of what happened      *)
(* elsewhere and earlier: the wallet library, the node and the miner send  *)
(* signals that are queued, and between a signal and its slot the user may *)
(* click, the wallet may be closed and peers may come and go.  The miner   *)
(* is what Miner.start(), stop() and is_mining() show of it; the wallet is *)
(* what this frame and MainWindow see of WalletAdapter.                    *)
(***************************************************************************)
EXTENDS Integers, Sequences

CONSTANTS
  MaxEvents,    \* bound: clicks, menu commands, and what happens outside
  MaxWallets,   \* bound: wallets opened
  Discipline    \* assumptions in force, see below

(* What a run may take for granted and the code does not ensure.           *)
(*   "quiet_close"   the wallet is closed or reset only while no signal    *)
(*                   of a completed synchronisation is on its way          *)
(*   "reset_opens"   the wallet that is reset opens again, which it does   *)
(*                   not when it has a password: reset opens it with ""    *)
(*   "told_first"    no worker fails while the signal of an earlier stop   *)
(*                   is queued                                             *)
Disciplines == {"quiet_close", "reset_opens", "told_first"}

ASSUME MiningAssumption ==
  /\ MaxEvents \in Nat /\ MaxWallets \in Nat
  /\ Discipline \subseteq Disciplines

VARIABLES
  m_solo_mining, m_wallet_closed, m_sychronized, m_mining_was_stopped,
  m_miningStoppedByNoPeers,
  timers,       \* pairs of hash rate and routine timers that run
  startOn,      \* the Start button is enabled
  stopOn,       \* the Stop button is enabled
  checked,      \* the one of the two that is down
  shown,        \* the user can reach the mining tab
  miner,        \* "off", "on", or "failed": stopped by a worker's error, with
                \* its threads not yet joined
  keys,         \* the wallet the miner was started for
  wallet,       \* m_wallet: "null", "loading", "ready"
  id,           \* the wallet opened last
  peers,        \* NodeAdapter::getPeerCount() > 0
  launch,       \* the setting "mining on launch"
  syncing,      \* the library is in synchronizationCompleted
  queue,        \* signals queued for the GUI thread
  gui,          \* "loop", in close() or reset(): "events" or "delete", "crash"
  resetting,    \* what runs is reset(), not close()
  stopped,      \* the user's last click was on Stop
  events

frame   == <<m_wallet_closed, m_sychronized, m_mining_was_stopped>>
mining  == <<m_solo_mining, m_miningStoppedByNoPeers, timers, miner, keys>>
buttons == <<startOn, stopOn, checked>>
outside == <<wallet, id, peers, launch, syncing>>
calls   == <<gui, resetting>>
vars == <<frame, mining, buttons, shown, outside, queue, calls, stopped, events>>

Signal(ev, ok) == [ev |-> ev, ok |-> ok]
Queued(ev) == \E i \in DOMAIN queue : queue[i].ev = ev

Init ==
  /\ m_solo_mining = FALSE /\ m_wallet_closed = FALSE /\ m_sychronized = FALSE
  /\ m_mining_was_stopped = FALSE /\ m_miningStoppedByNoPeers = FALSE
  /\ timers = 0 /\ miner = "off" /\ keys = 0
  /\ startOn = FALSE /\ stopOn = FALSE /\ checked = "stop" /\ shown = FALSE
  /\ wallet = "null" /\ id = 0 /\ peers \in BOOLEAN /\ launch \in BOOLEAN
  /\ syncing = FALSE /\ queue = <<>>
  /\ gui = "loop" /\ resetting = FALSE
  /\ stopped = FALSE /\ events = 0

-----------------------------------------------------------------------------
(* What the handlers are made of.                                          *)

(* Events are handled by the event loop and by close()'s processEvents().  *)
Handling == gui \in {"loop", "events"}

Event == Handling /\ events < MaxEvents /\ events' = events + 1

Happens == gui # "crash" /\ events < MaxEvents /\ events' = events + 1

(* Mutant: a stop that nobody is told of.                                  *)
StoppedSilently(rest) == rest

(* The queue after Miner::stop(), which tells of it unless there was       *)
(* nothing to stop.                                                        *)
AfterStop(rest) ==
  IF miner = "off" THEN rest ELSE Append(rest, Signal("minerStopped", TRUE))

(* Mutant: the Start button stays enabled.                                 *)
StartSoloLeavesStart(pressed, byPeers) ==
  \/ /\ peers /\ miner = "off" /\ wallet = "ready"
     /\ miner' = "on" /\ keys' = id /\ timers' = timers + 1
     /\ startOn' = startOn /\ stopOn' = stopOn /\ checked' = "start"
     /\ m_solo_mining' = TRUE /\ m_miningStoppedByNoPeers' = FALSE
     /\ UNCHANGED gui
  \/ /\ startOn' = peers /\ stopOn' = FALSE
     /\ checked' = IF pressed THEN "start" ELSE checked
     /\ m_miningStoppedByNoPeers' = byPeers
     /\ UNCHANGED <<m_solo_mining, timers, miner, keys, gui>>

(* startSolo().  The miner refuses without peers, with threads that are    *)
(* not joined, without the keys of a loaded wallet or a block template,    *)
(* and asks for the keys with a null m_wallet at its peril.                *)
StartSolo(pressed, byPeers) ==
  \/ /\ peers /\ miner = "off" /\ wallet = "ready"
     /\ miner' = "on" /\ keys' = id /\ timers' = timers + 1
     /\ startOn' = FALSE /\ stopOn' = TRUE /\ checked' = "start"
     /\ m_solo_mining' = TRUE /\ m_miningStoppedByNoPeers' = FALSE
     /\ UNCHANGED gui
  \/ /\ peers /\ miner = "off" => wallet # "null"
     /\ startOn' = peers /\ stopOn' = FALSE
     /\ checked' = IF pressed THEN "start" ELSE checked
     /\ m_miningStoppedByNoPeers' = byPeers
     /\ UNCHANGED <<m_solo_mining, timers, miner, keys, gui>>
  \/ /\ peers /\ miner = "off" /\ wallet = "null"
     /\ gui' = "crash"
     /\ UNCHANGED <<mining, buttons>>

(* stopSolo() while mining; rest is the queue without this handler's       *)
(* signal.                                                                 *)
StopSolo(byPeers, rest) ==
  /\ timers' = timers - 1
  /\ miner' = "off" /\ queue' = AfterStop(rest)
  /\ m_solo_mining' = FALSE
  /\ m_mining_was_stopped' = ~byPeers /\ m_miningStoppedByNoPeers' = byPeers
  /\ UNCHANGED keys

Delivers(ev, ok) ==
  /\ Handling
  /\ queue # <<>> /\ Head(queue) = Signal(ev, ok)
  /\ UNCHANGED <<events, stopped>>

Idle == ~m_solo_mining /\ miner # "on"

(* What the user has when MainWindow::walletClosed() has run.              *)
ShownClosed == m_solo_mining

-----------------------------------------------------------------------------
(* The user.                                                               *)

(* Start: nothing but the buttons moves while the wallet is closed.        *)
ClickStart ==
  /\ Event /\ shown /\ startOn
  /\ stopped' = FALSE
  /\ IF m_wallet_closed
     THEN /\ checked' = "start"
          /\ startOn' = (checked = "start") /\ stopOn' = (stopOn \/ checked = "stop")
          /\ UNCHANGED <<mining, gui>>
     ELSE StartSolo(TRUE, m_miningStoppedByNoPeers)
  /\ UNCHANGED <<frame, shown, outside, queue, resetting>>

(* Mutant: a click on Stop that does not say who stopped.                  *)
ClickStopByPeers ==
  /\ Event /\ shown /\ stopOn
  /\ stopped' = TRUE
  /\ checked' = "stop" /\ startOn' = ~m_wallet_closed /\ stopOn' = FALSE
  /\ IF m_solo_mining THEN StopSolo(TRUE, queue)
     ELSE UNCHANGED <<mining, m_mining_was_stopped, queue>>
  /\ UNCHANGED <<m_wallet_closed, m_sychronized, shown, outside, calls>>

ClickStop ==
  /\ Event /\ shown /\ stopOn
  /\ stopped' = TRUE
  /\ checked' = "stop" /\ startOn' = ~m_wallet_closed /\ stopOn' = FALSE
  /\ IF m_solo_mining THEN StopSolo(FALSE, queue)
     ELSE UNCHANGED <<mining, m_mining_was_stopped, queue>>
  /\ UNCHANGED <<m_wallet_closed, m_sychronized, shown, outside, calls>>

SetLaunch ==
  /\ Event /\ launch' = ~launch
  /\ UNCHANGED <<frame, mining, buttons, shown, wallet, id, peers, syncing, queue,
                 calls, stopped>>

(* Opening a wallet: the library loads it, or refuses at once.             *)
Open ==
  /\ Event /\ gui = "loop" /\ wallet = "null" /\ id < MaxWallets
  /\ id' = id + 1
  /\ wallet' \in {"null", "loading"}
  /\ resetting' = FALSE
  /\ UNCHANGED <<frame, mining, buttons, shown, peers, launch, syncing, queue, gui, stopped>>

(* A wallet is closed once it has been shown; WalletAdapter has the rest.  *)
CanClose ==
  /\ gui = "loop" /\ wallet = "ready"
  /\ ~Queued("initDone") /\ ~Queued("opened") /\ ~Queued("shown")
  /\ "quiet_close" \in Discipline => ~syncing /\ ~Queued("synced")

(* Mutants of stopMiningForShutdown(): a timer is forgotten; so is the     *)
(* miner; so is that mining was stopped.                                   *)
ShutdownKeepsTimers ==
  /\ m_wallet_closed' = TRUE /\ m_mining_was_stopped' = TRUE
  /\ miner' = "off" /\ m_solo_mining' = FALSE /\ timers' = timers
ShutdownKeepsMining ==
  /\ m_wallet_closed' = TRUE /\ m_mining_was_stopped' = TRUE
  /\ UNCHANGED <<miner, m_solo_mining, timers>>

stopMiningForShutdown ==
  /\ m_wallet_closed' = TRUE /\ m_mining_was_stopped' = TRUE
  /\ miner' = "off" /\ m_solo_mining' = FALSE /\ timers' = 0

(* MainWindow::closeWallet(): stopMiningForShutdown(), then close() up to  *)
(* its processEvents(); MainWindow::walletClosed() runs at once,           *)
(* MiningFrame::walletClosed() from the queue.                             *)
Close ==
  /\ Event /\ CanClose
  /\ stopMiningForShutdown
  /\ queue' = Append(AfterStop(queue), Signal("closed", TRUE))
  /\ shown' = FALSE
  /\ gui' = "events" /\ resetting' = FALSE
  /\ UNCHANGED <<m_sychronized, m_miningStoppedByNoPeers, keys, buttons, outside, stopped>>

(* MainWindow::resetWallet() does not stop the miner.                      *)
Reset ==
  /\ Event /\ CanClose /\ shown
  /\ queue' = Append(queue, Signal("closed", TRUE))
  /\ shown' = ShownClosed
  /\ gui' = "events" /\ resetting' = TRUE
  /\ UNCHANGED <<frame, mining, buttons, outside, stopped>>

CloseEvents ==
  /\ gui = "events" /\ queue = <<>>
  /\ gui' = "delete"
  /\ UNCHANGED <<frame, mining, buttons, shown, outside, queue, resetting, stopped, events>>

CloseDelete ==
  /\ gui = "delete" /\ ~syncing
  /\ \/ wallet' = "null" /\ (resetting => "reset_opens" \notin Discipline)
     \/ resetting /\ wallet' = "loading"
  /\ gui' = "loop"
  /\ UNCHANGED <<frame, mining, buttons, shown, id, peers, launch, syncing, queue,
                 resetting, stopped, events>>

-----------------------------------------------------------------------------
(* The signals.                                                            *)

(* WalletAdapter::onWalletInitCompleted deletes what did not load.         *)
OnInitDone ==
  \E ok \in BOOLEAN :
    /\ Delivers("initDone", ok)
    /\ queue' = Tail(queue)
    /\ wallet' = IF ok THEN wallet ELSE "null"
    /\ UNCHANGED <<frame, mining, buttons, shown, id, peers, launch, syncing, calls>>

(* walletOpened(), of a wallet that opened or did not.                     *)
WalletOpened ==
  \E ok \in BOOLEAN :
    /\ Delivers("opened", ok)
    /\ m_wallet_closed' = FALSE
    /\ IF m_solo_mining
       THEN /\ StopSolo(FALSE, Tail(queue))
            /\ IF m_wallet_closed THEN UNCHANGED <<startOn, stopOn>>
               ELSE startOn' = TRUE /\ stopOn' = FALSE
       ELSE /\ queue' = Tail(queue)
            /\ UNCHANGED <<mining, m_mining_was_stopped, startOn, stopOn>>
    /\ UNCHANGED <<m_sychronized, checked, shown, outside, calls>>

(* MainWindow::walletOpened().                                             *)
OnShown ==
  \E ok \in BOOLEAN :
    /\ Delivers("shown", ok)
    /\ queue' = Tail(queue)
    /\ shown' = (ok \/ ShownClosed)
    /\ UNCHANGED <<frame, mining, buttons, outside, calls>>

WalletClosed ==
  /\ Delivers("closed", TRUE)
  /\ queue' = Tail(queue)
  /\ m_wallet_closed' = TRUE
  /\ UNCHANGED <<m_sychronized, m_mining_was_stopped, mining, buttons, shown, outside, calls>>

(* onPeerCountUpdated(): none left.                                        *)
OnPeersLost ==
  /\ Delivers("peers", FALSE)
  /\ m_sychronized' = FALSE
  /\ IF m_solo_mining THEN StopSolo(TRUE, Tail(queue))
     ELSE queue' = Tail(queue) /\ UNCHANGED <<mining, m_mining_was_stopped>>
  /\ startOn' = FALSE /\ stopOn' = FALSE
  /\ UNCHANGED <<m_wallet_closed, checked, shown, outside, calls>>

(* enableSolo() with what follows it: start if start is wanted.            *)
EnableSolo(start, byPeers) ==
  IF ~Idle THEN UNCHANGED <<mining, buttons, gui>>
  ELSE IF start \/ (~m_mining_was_stopped /\ launch)
  THEN StartSolo(FALSE, byPeers)
  ELSE startOn' = TRUE /\ stopOn' = FALSE /\ UNCHANGED <<mining, checked, gui>>

(* onPeerCountUpdated(): there are peers.                                  *)
OnPeers ==
  /\ Delivers("peers", TRUE)
  /\ queue' = Tail(queue)
  /\ IF m_sychronized /\ ~m_wallet_closed
     THEN EnableSolo(FALSE, m_miningStoppedByNoPeers)
     ELSE UNCHANGED <<mining, buttons, gui>>
  /\ UNCHANGED <<frame, shown, outside, resetting>>

(* onSynchronizationCompleted(): enableSolo(), and mining that stopped for *)
(* want of peers resumes.                                                  *)
OnSynced ==
  /\ Delivers("synced", TRUE)
  /\ queue' = Tail(queue)
  /\ m_sychronized' = TRUE
  /\ LET resume == m_miningStoppedByNoPeers /\ peers
     IN EnableSolo(resume, m_miningStoppedByNoPeers /\ ~resume)
  /\ UNCHANGED <<m_wallet_closed, m_mining_was_stopped, shown, outside, resetting>>

(* onMinerStopped(): news only if mining is thought to go on and does not. *)
OnMinerStopped ==
  /\ Delivers("minerStopped", TRUE)
  /\ queue' = Tail(queue)
  /\ IF ~m_solo_mining \/ miner = "on"
     THEN UNCHANGED <<mining, m_mining_was_stopped, startOn, stopOn>>
     ELSE /\ timers' = timers - 1
          /\ m_solo_mining' = FALSE
          /\ m_mining_was_stopped' = TRUE /\ m_miningStoppedByNoPeers' = FALSE
          /\ IF m_wallet_closed THEN UNCHANGED <<startOn, stopOn>>
             ELSE startOn' = TRUE /\ stopOn' = FALSE
          /\ UNCHANGED <<miner, keys>>
  /\ UNCHANGED <<m_wallet_closed, m_sychronized, checked, shown, outside, calls>>

-----------------------------------------------------------------------------
(* The miner, the node and the library.                                    *)

(* Miner::on_block_chain_update(), from the routine timer, a new block or  *)
(* a change of the pool, finds no peers or gets no template.               *)
ChainUpdateFails ==
  /\ Event /\ miner = "on"
  /\ miner' = "off" /\ queue' = AfterStop(queue)
  /\ UNCHANGED <<frame, m_solo_mining, m_miningStoppedByNoPeers, timers, keys, buttons,
                 shown, outside, calls, stopped>>

(* A worker's error stops the workers and tells the frame no more than the *)
(* error.                                                                  *)
WorkerFails ==
  /\ Happens /\ miner = "on"
  /\ "told_first" \in Discipline => ~Queued("minerStopped")
  /\ miner' = "failed"
  /\ UNCHANGED <<frame, m_solo_mining, m_miningStoppedByNoPeers, timers, keys, buttons,
                 shown, outside, queue, calls, stopped>>

PeersChange ==
  /\ Happens
  /\ peers' = ~peers
  /\ queue' = Append(queue, Signal("peers", peers'))
  /\ UNCHANGED <<frame, mining, buttons, shown, wallet, id, launch, syncing, calls, stopped>>

(* initCompleted: the signal has slots in WalletAdapter, MiningFrame and   *)
(* MainWindow, connected in this order.                                    *)
LoadDone ==
  /\ wallet = "loading" /\ gui # "crash" /\ ~Queued("initDone")
  /\ \E ok \in BOOLEAN :
       /\ resetting /\ "reset_opens" \in Discipline => ok
       /\ wallet' = IF ok THEN "ready" ELSE "loading"
       /\ queue' = queue \o <<Signal("initDone", ok), Signal("opened", ok), Signal("shown", ok)>>
  /\ UNCHANGED <<frame, mining, buttons, shown, id, peers, launch, syncing, calls,
                 stopped, events>>

(* synchronizationCompleted, begun while the wallet is observed.           *)
SyncBegin ==
  /\ Happens /\ wallet = "ready" /\ gui = "loop" /\ ~syncing
  /\ syncing' = TRUE
  /\ UNCHANGED <<frame, mining, buttons, shown, wallet, id, peers, launch, queue, calls, stopped>>

SyncEmit ==
  /\ syncing /\ gui # "crash"
  /\ syncing' = FALSE
  /\ queue' = Append(queue, Signal("synced", TRUE))
  /\ UNCHANGED <<frame, mining, buttons, shown, wallet, id, peers, launch, calls,
                 stopped, events>>

UserStep == ClickStart \/ ClickStop \/ SetLaunch \/ Open \/ Close \/ Reset

SignalStep == OnInitDone \/ WalletOpened \/ OnShown \/ WalletClosed \/ OnPeersLost
              \/ OnPeers \/ OnSynced \/ OnMinerStopped

OutsideStep == ChainUpdateFails \/ WorkerFails \/ PeersChange \/ LoadDone
               \/ SyncBegin \/ SyncEmit

Next == UserStep \/ CloseEvents \/ CloseDelete \/ SignalStep \/ OutsideStep

Spec == Init /\ [][Next]_vars

-----------------------------------------------------------------------------
(* Every variable has a value of its type.                                 *)
TypeOK ==
  /\ {m_solo_mining, m_wallet_closed, m_sychronized, m_mining_was_stopped,
      m_miningStoppedByNoPeers, startOn, stopOn, shown, peers, launch, syncing,
      resetting, stopped} \subseteq BOOLEAN
  /\ timers \in {0, 1}
  /\ checked \in {"start", "stop"} /\ miner \in {"off", "on", "failed"}
  /\ wallet \in {"null", "loading", "ready"} /\ id \in Nat /\ keys \in 0..id
  /\ queue \in Seq([ev : {"initDone", "opened", "shown", "closed", "peers", "synced",
                          "minerStopped"}, ok : BOOLEAN])
  /\ gui \in {"loop", "events", "delete", "crash"} /\ events \in Nat

(* The frame thinks that it mines only when it does, or the signal that    *)
(* says otherwise is on its way, or a worker has failed (which nothing     *)
(* tells the frame of: it shows "Mining" until the user stops it).  It     *)
(* never mines unknown to the frame, and no failed crew is left unknown,   *)
(* which could be neither started again nor stopped.                       *)
SoloIsKnown ==
  /\ m_solo_mining => miner # "off" \/ Queued("minerStopped")
  /\ miner # "off" => m_solo_mining

(* A miner that runs can be stopped: Stop is enabled and Start is not, so  *)
(* that no second pair of timers is started, and the mining tab can be     *)
(* reached, at the latest when the wallet being opened or reset has opened *)
(* or not.                                                                 *)
StopReachable ==
  m_solo_mining =>
    /\ stopOn /\ ~startOn /\ timers = 1
    /\ \/ shown \/ Queued("shown")
       \/ resetting /\ (gui # "loop" \/ wallet = "loading")

(* The miner asks for the keys of a wallet there is: Q_CHECK_PTR(m_wallet) *)
(* in getAccountKeys().                                                    *)
KeysHaveWallet == gui # "crash"

(* The miner is started with the keys of a wallet there is, and never pays *)
(* to one that is no longer open: not after another one was opened,        *)
(* whatever was queued.                                                    *)
PaysOpenWallet == KeysHaveWallet /\ (miner = "on" => keys = id)

(* What the user has stopped starts again only when the user says so.      *)
UserStopStays ==
  [][stopped /\ miner = "off" /\ miner' = "on" => stopped' = FALSE]_vars
=============================================================================
