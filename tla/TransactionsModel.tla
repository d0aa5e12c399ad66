------------------------- MODULE TransactionsModel -------------------------
(***************************************************************************)
(* The list of transactions: src/src/gui/TransactionsModel.cpp, and how    *)
(* src/src/WalletAdapter.cpp tells it of them.                             *)
(*                                                                         *)
(* While the wallet synchronises, the library's thread only notes the id   *)
(* of the last transaction and a timer tells the model of it; otherwise    *)
(* each is told by a queued signal.  The model fills the gap up to the id  *)
(* it is told.  Closing a wallet resets the model by a signal that close() *)
(* itself delivers before it deletes the wallet.                           *)
(***************************************************************************)
EXTENDS Integers, Sequences, FiniteSets

CONSTANTS
  MaxTx,        \* bound: transactions of a wallet
  MaxWallets,   \* bound: wallets opened
  MaxEvents,    \* bound: callbacks of the library that bring no transaction
  TransferCount,\* transfers of each transaction
  Discipline,   \* assumptions the properties rely on, see below
  Cases         \* what a behaviour may assume: sets of assumptions

(* What a run may take for granted and the code does not ensure.           *)
(*   "quiet_close"   a wallet is closed only when it is loaded and the     *)
(*                   library is in no callback, nor is the end of a send   *)
(*                   or of the load queued                                 *)
(*   "notify_whole"  the library notes no id while the GUI thread is in    *)
(*                   notifyAboutLastTransaction()                          *)
Disciplines == {"quiet_close", "notify_whole"}

ASSUME ModelAssumption ==
  /\ MaxTx \in Nat \ {0} /\ MaxWallets \in Nat /\ MaxEvents \in Nat
  /\ TransferCount \in [0..(MaxTx - 1) -> Nat]
  /\ Discipline \subseteq Disciplines /\ Cases \subseteq SUBSET Disciplines

VARIABLES
  assumed,          \* the assumptions in force, chosen once
  m_transfers,      \* the rows: their transactions
  m_transactionRow, \* first row and number of rows by transaction
  owner,            \* the wallet that m_transfers was filled from
  m_isSynchronized, m_lastWalletTransactionId,
  timer,            \* m_newTransactionsNotificationTimer runs
  wallet,           \* "null", "loading" or "ready"
  id,               \* the wallet opened last
  count,            \* its transactions
  failed,           \* history: those that could not be sent
  callback,         \* the transaction whose callback is in progress, and
                    \* how it came
  gui,              \* "loop", in close() "closing", "crash"
  notifying,        \* in notifyAboutLastTransaction(), after the signal
  queue, events

rows == <<m_transfers, m_transactionRow, owner>>
notes == <<m_isSynchronized, m_lastWalletTransactionId, timer>>
vars == <<assumed, rows, notes, wallet, id, count, failed, callback, gui, notifying, queue, events>>

NoTx == -1
(* A transaction was found by the synchronisation or sent by the user; one *)
(* that could not be sent stays in the wallet.                             *)
Kinds == {"found", "sent", "failed"}
Idle == [tx |-> NoTx, kind |-> "found"]
Signal(ev, tx) == [ev |-> ev, tx |-> tx]

Init ==
  /\ assumed \in Cases
  /\ m_transfers = <<>> /\ m_transactionRow = <<>> /\ owner = 0
  /\ m_isSynchronized = FALSE /\ m_lastWalletTransactionId = NoTx /\ timer = FALSE
  /\ wallet = "null" /\ id = 0 /\ count = 0 /\ failed = {} /\ callback = Idle
  /\ gui = "loop" /\ notifying = FALSE /\ queue = <<>> /\ events = 0

-----------------------------------------------------------------------------
(* Filling the model.                                                      *)

Rows == [transfers |-> m_transfers, row |-> m_transactionRow]

Put(f, tx, value) == [t \in DOMAIN f \union {tx} |-> IF t = tx THEN value ELSE f[t]]

(* appendTransaction(tx, row_count): one row for each transfer, or one for *)
(* none; a transaction the wallet does not have is left out.               *)
AppendOne(m, tx) ==
  LET n == IF TransferCount[tx] = 0 THEN 1 ELSE TransferCount[tx]
  IN IF tx >= count THEN m
     ELSE [transfers |-> m.transfers \o [i \in 1..n |-> tx],
           row |-> Put(m.row, tx, [first |-> Len(m.transfers), n |-> n])]

(* One transaction after the other, from the first to the last.            *)
Fill(m, first, last) ==
  LET filled[k \in Nat] == IF k = 0 THEN m ELSE AppendOne(filled[k - 1], first + k - 1)
  IN filled[IF first <= last THEN last - first + 1 ELSE 0]

(* Mutant: only the transaction that is told of is appended.               *)
AppendThis(m, tx) == IF tx \in DOMAIN m.row THEN m ELSE Fill(m, tx, tx)

(* appendTransaction(tx).                                                  *)
AppendUpTo(m, tx) ==
  IF tx \in DOMAIN m.row THEN m ELSE Fill(m, Cardinality(DOMAIN m.row), tx)

(* The model after a slot that reads the wallet, which has to exist.       *)
Becomes(m) ==
  IF wallet = "null" THEN gui' = "crash" /\ UNCHANGED rows
  ELSE /\ m_transfers' = m.transfers /\ m_transactionRow' = m.row /\ owner' = id
       /\ UNCHANGED gui

Delivers(ev) ==
  /\ gui # "crash" /\ ~notifying
  /\ queue # <<>> /\ Head(queue).ev = ev

-----------------------------------------------------------------------------
(* The GUI thread: wallets are opened and closed.                          *)

Open ==
  /\ gui = "loop" /\ ~notifying /\ wallet = "null" /\ id < MaxWallets
  /\ wallet' = "loading" /\ id' = id + 1
  /\ count' \in 0..MaxTx /\ failed' = {}
  /\ UNCHANGED <<assumed, rows, notes, callback, gui, notifying, queue, events>>

Pending == \E i \in DOMAIN queue : queue[i].ev \in {"initDone", "sendDone"}

(* Mutant: the noted id is kept.                                           *)
CloseKeepsLast ==
  /\ gui = "loop" /\ ~notifying /\ wallet = "ready"
  /\ "quiet_close" \in assumed => callback = Idle /\ ~Pending
  /\ gui' = "closing"
  /\ m_isSynchronized' = FALSE /\ timer' = FALSE /\ UNCHANGED m_lastWalletTransactionId
  /\ queue' = Append(queue, Signal("closed", NoTx))
  /\ UNCHANGED <<assumed, rows, wallet, id, count, failed, callback, notifying, events>>

(* close() up to its processEvents().                                      *)
Close ==
  /\ gui = "loop" /\ ~notifying /\ wallet = "ready"
  /\ "quiet_close" \in assumed => callback = Idle /\ ~Pending
  /\ gui' = "closing"
  /\ m_isSynchronized' = FALSE /\ timer' = FALSE /\ m_lastWalletTransactionId' = NoTx
  /\ queue' = Append(queue, Signal("closed", NoTx))
  /\ UNCHANGED <<assumed, rows, wallet, id, count, failed, callback, notifying, events>>

(* What was queued before has been handled; what came later may have been. *)
CloseDelete ==
  /\ gui = "closing" /\ ~notifying
  /\ \A i \in DOMAIN queue : queue[i].ev # "closed"
  /\ gui' = "loop" /\ wallet' = "null"
  /\ UNCHANGED <<assumed, rows, notes, id, count, failed, callback, notifying, queue, events>>

-----------------------------------------------------------------------------
(* The GUI thread: signals.                                                *)

(* onWalletInitCompleted(): the transactions are to be reloaded, or the    *)
(* wallet that did not load is deleted.                                    *)
OnInitDone ==
  /\ Delivers("initDone")
  /\ IF Head(queue).tx = NoTx THEN wallet' = "null" /\ queue' = Tail(queue)
     ELSE UNCHANGED wallet /\ queue' = Append(Tail(queue), Signal("reload", NoTx))
  /\ UNCHANGED <<assumed, rows, notes, id, count, failed, callback, gui, notifying, events>>

(* reloadWalletTransactions().                                             *)
OnReload ==
  /\ Delivers("reload")
  /\ queue' = Tail(queue)
  /\ Becomes(Fill([transfers |-> <<>>, row |-> <<>>], 0, count - 1))
  /\ UNCHANGED <<assumed, notes, wallet, id, count, failed, callback, notifying, events>>

OnCreated ==
  /\ Delivers("created")
  /\ queue' = Tail(queue)
  /\ IF Head(queue).tx \in DOMAIN m_transactionRow THEN UNCHANGED <<rows, gui>>
     ELSE Becomes(AppendUpTo(Rows, Head(queue).tx))
  /\ UNCHANGED <<assumed, notes, wallet, id, count, failed, callback, notifying, events>>

(* onWalletSendTransactionCompleted(): an error is not passed on; of the   *)
(* others, a transaction of this wallet, and one with transfers, is told   *)
(* of.                                                                     *)
OnSendDone ==
  /\ Delivers("sendDone")
  /\ LET tx == Head(queue).tx
         ok == tx # NoTx
         told == wallet # "null" /\ tx < count /\ TransferCount[tx] > 0
     IN /\ queue' = IF ok /\ told THEN Append(Tail(queue), Signal("created", tx)) ELSE Tail(queue)
        /\ gui' = IF ok /\ wallet = "null" THEN "crash" ELSE gui
  /\ UNCHANGED <<assumed, rows, notes, wallet, id, count, failed, callback, notifying, events>>

(* Mutant: the rows are kept.                                              *)
OnClosedKeeps ==
  /\ Delivers("closed")
  /\ queue' = Tail(queue)
  /\ UNCHANGED <<assumed, rows, notes, wallet, id, count, failed, callback, gui, notifying, events>>

(* reset().                                                                *)
OnClosed ==
  /\ Delivers("closed")
  /\ queue' = Tail(queue)
  /\ m_transfers' = <<>> /\ m_transactionRow' = <<>>
  /\ UNCHANGED <<assumed, owner, notes, wallet, id, count, failed, callback, gui, notifying,
                 events>>

OnProgress ==
  /\ Delivers("progress")
  /\ queue' = Tail(queue)
  /\ timer' = TRUE
  /\ UNCHANGED <<assumed, rows, m_isSynchronized, m_lastWalletTransactionId, wallet, id, count,
                 failed, callback, gui, notifying, events>>

(* notifyAboutLastTransaction() tells of the id ...                        *)
Notify(rest) ==
  IF m_lastWalletTransactionId = NoTx THEN queue' = rest /\ UNCHANGED notifying
  ELSE /\ queue' = Append(rest, Signal("created", m_lastWalletTransactionId))
       /\ notifying' = TRUE

(* ... and then forgets it.                                                *)
NotifyEnds ==
  /\ notifying
  /\ notifying' = FALSE
  /\ m_lastWalletTransactionId' = NoTx
  /\ UNCHANGED <<assumed, rows, m_isSynchronized, timer, wallet, id, count, failed, callback,
                 gui, queue, events>>

(* Mutant: the end of the synchronisation only stops the timer.            *)
OnSyncedStops ==
  /\ Delivers("synced")
  /\ timer' = FALSE
  /\ queue' = Tail(queue) /\ UNCHANGED notifying
  /\ UNCHANGED <<assumed, rows, m_isSynchronized, m_lastWalletTransactionId, wallet, id, count,
                 failed, callback, gui, events>>

OnSynced ==
  /\ Delivers("synced")
  /\ timer' = FALSE
  /\ Notify(Tail(queue))
  /\ UNCHANGED <<assumed, rows, m_isSynchronized, m_lastWalletTransactionId, wallet, id, count,
                 failed, callback, gui, events>>

Tick ==
  /\ timer /\ gui # "crash" /\ ~notifying
  /\ m_lastWalletTransactionId # NoTx
  /\ Notify(queue)
  /\ UNCHANGED <<assumed, rows, notes, wallet, id, count, failed, callback, gui, events>>

-----------------------------------------------------------------------------
(* The library's threads.  After removeObserver() only the callback that   *)
(* has begun is still made.                                                *)

Calls == gui = "loop" /\ callback = Idle

LoadDone ==
  /\ Calls /\ wallet = "loading"
  /\ \A i \in DOMAIN queue : queue[i].ev # "initDone"
  /\ \/ wallet' = "ready" /\ queue' = Append(queue, Signal("initDone", 0))
     \/ wallet' = wallet /\ queue' = Append(queue, Signal("initDone", NoTx))
  /\ UNCHANGED <<assumed, rows, notes, id, count, failed, callback, gui, notifying, events>>

(* A transaction is in the wallet: one the synchronisation has found, or   *)
(* one the user has sent, which has transfers, or has failed to send.      *)
NewTransaction ==
  /\ Calls /\ wallet = "ready" /\ count < MaxTx
  /\ count' = count + 1
  /\ \E kind \in Kinds :
       /\ kind = "found" \/ TransferCount[count] > 0
       /\ callback' = [tx |-> count, kind |-> kind]
       /\ failed' = IF kind = "failed" THEN failed \union {count} ELSE failed
  /\ UNCHANGED <<assumed, rows, notes, wallet, id, gui, notifying, queue, events>>

(* externalTransactionCreated() and sendTransactionCompleted().            *)
Callback ==
  /\ callback # Idle /\ gui # "crash"
  /\ callback' = Idle
  /\ IF callback.kind # "found"
     THEN /\ LET tx == IF callback.kind = "sent" THEN callback.tx ELSE NoTx
             IN queue' = Append(queue, Signal("sendDone", tx))
          /\ UNCHANGED notes
     ELSE IF m_isSynchronized
     THEN queue' = Append(queue, Signal("created", callback.tx)) /\ UNCHANGED notes
     ELSE /\ "notify_whole" \in assumed => ~notifying
          /\ m_lastWalletTransactionId' = callback.tx
          /\ UNCHANGED <<m_isSynchronized, timer, queue>>
  /\ UNCHANGED <<assumed, rows, wallet, id, count, failed, gui, notifying, events>>

Progress ==
  /\ Calls /\ wallet = "ready" /\ events < MaxEvents
  /\ m_isSynchronized' = FALSE
  /\ queue' = Append(queue, Signal("progress", NoTx))
  /\ events' = events + 1
  /\ UNCHANGED <<assumed, rows, m_lastWalletTransactionId, timer, wallet, id, count, failed,
                 callback, gui, notifying>>

Synced ==
  /\ Calls /\ wallet = "ready" /\ ~m_isSynchronized
  /\ m_isSynchronized' = TRUE
  /\ queue' = Append(queue, Signal("synced", NoTx))
  /\ UNCHANGED <<assumed, rows, m_lastWalletTransactionId, timer, wallet, id, count, failed,
                 callback, gui, notifying, events>>

Slots == OnInitDone \/ OnReload \/ OnCreated \/ OnSendDone \/ OnClosed \/ OnProgress
         \/ OnSynced

Next == Open \/ Close \/ CloseDelete \/ Slots \/ NotifyEnds \/ Tick
        \/ LoadDone \/ NewTransaction \/ Callback \/ Progress \/ Synced

Spec == Init /\ [][Next]_vars

(* The event loop and the timer run, the library ends its callbacks and    *)
(* completes every synchronisation.                                        *)
FairSpec ==
  Spec /\ WF_vars(Slots) /\ WF_vars(NotifyEnds) /\ WF_vars(Tick) /\ WF_vars(Callback)
       /\ WF_vars(Synced)

-----------------------------------------------------------------------------
(* Every variable has a value of its type, and the noted transaction is    *)
(* one of the wallet that is open.                                         *)
TypeOK ==
  /\ m_transfers \in Seq(0..(MaxTx - 1)) /\ DOMAIN m_transactionRow \subseteq 0..(MaxTx - 1)
  /\ owner \in 0..id /\ id \in 0..MaxWallets /\ count \in 0..MaxTx
  /\ {m_isSynchronized, timer, notifying} \subseteq BOOLEAN /\ failed \subseteq 0..(count - 1)
  /\ m_lastWalletTransactionId \in NoTx..(IF wallet = "null" THEN NoTx ELSE count - 1)
  /\ callback.tx \in NoTx..(MaxTx - 1) /\ callback.kind \in Kinds
  /\ wallet \in {"null", "loading", "ready"} /\ gui \in {"loop", "closing", "crash"}
  /\ queue \in Seq([ev : {"initDone", "reload", "created", "sendDone", "closed",
                          "progress", "synced"}, tx : NoTx..(MaxTx - 1)])
  /\ events \in 0..MaxEvents

(* The rows of a transaction are where the map says, each row belongs to   *)
(* one, and the transactions of the model are the first ones of the        *)
(* wallet: the gap that appendTransaction() fills begins at their number.  *)
RowsMatch ==
  /\ DOMAIN m_transactionRow = 0..(Cardinality(DOMAIN m_transactionRow) - 1)
  /\ \A i \in DOMAIN m_transfers :
       /\ m_transfers[i] \in DOMAIN m_transactionRow
       /\ LET r == m_transactionRow[m_transfers[i]] IN r.first < i /\ i <= r.first + r.n
  /\ \A tx \in DOMAIN m_transactionRow :
       LET r == m_transactionRow[tx]
       IN r.n > 0 /\ \A i \in (r.first + 1)..(r.first + r.n) : m_transfers[i] = tx

(* No slot reads a wallet that is deleted: Q_CHECK_PTR(m_wallet) in        *)
(* getTransaction() and getTransactionCount().                             *)
WalletAtHand == gui # "crash"

(* Rows that are shown are of the wallet that is open, and of a wallet     *)
(* that exists: data() reads the transaction from it, as the slots do that *)
(* made the rows.                                                          *)
RowsOfOpenWallet ==
  WalletAtHand /\ (m_transfers # <<>> => owner = id /\ wallet # "null")

(* The assumptions in force are those the property relies on.              *)
Given == Discipline \subseteq assumed

(* The transactions of a wallet that stays open are all shown at last,     *)
(* whether they come while the wallet synchronises or after.  Those that   *)
(* could not be sent are left out: the list is not told of them.           *)
AllShown ==
  []<>(Given /\ wallet = "ready" /\ gui = "loop" =>
         0..(count - 1) \ failed \subseteq DOMAIN m_transactionRow)

(* getToolTipRole() has a text for a "Canceled or failed transaction": so  *)
(* those that could not be sent are shown, too.  They are not until        *)
(* another transaction comes.                                              *)
FailedShown ==
  []<>(Given /\ wallet = "ready" /\ gui = "loop" => failed \subseteq DOMAIN m_transactionRow)
=============================================================================
