# A TLA+ development of the Karbo wallet

This directory models the parts of the Karbo wallet (a Qt desktop program,
`src/src`) whose correctness depends on the order in which things happen:
threads, callbacks, queued signals, crashes and restarts. Each module is
translated from the C++ source; `PROJECT.json` maps every definition to its
lines. The modules' `MC` companions give them values for the checker, and their
`Proofs` companions hold the theorems.

## The system

The program is a GUI over the CryptoNote library (a git submodule, not part of
the repository, and so modelled only from how this code uses it). One **GUI
thread** runs every slot and dialog. The library runs threads of its own that
load, save and send, and calls observers back from them. The miner has worker
threads. A signal emitted on another thread is queued for the GUI thread.

| Component | State | Operations | What is hard | Correct when |
|---|---|---|---|---|
| `WalletAdapter` | `m_wallet`, `m_file`, `m_mutex`, `m_isBackupInProgress`, the files on disk | open, create, save, backup, change password, send, close, reset; callbacks `initCompleted`, `saveCompleted`, `sendTransactionCompleted` | a mutex locked by one thread and unlocked by another, a flag set after the call it is about, a file replaced after the unlock, signals delivered after close, crashes | the wallet on disk is never lost and never goes back; no stream without the lock; close ends |
| `Miner` | `m_threads`, `m_threads_total`, the template and its version, stop signals | start, set thread count, stop, new template; `worker_thread` | resizing while threads run, worker errors, joins on the GUI thread | no thread leaked, the full crew runs, no nonce tried twice, stop returns, templates reach all |
| `MiningFrame` | `m_solo_mining`, `m_wallet_closed`, `m_sychronized`, `m_mining_was_stopped`, `m_miningStoppedByNoPeers` | start and stop buttons, wallet opened and closed, synchronised, peers lost and back, thread slider | queued `minerStopped` and `minerStarted` that describe the past | no mining without a wallet; what the user stopped stays stopped |
| `NodeAdapter` | `m_node`, initializer thread, wait loops | init (embedded, local, remote, auto), deinit | an event loop that waits for a signal sent before it was connected, time-outs, a pointer written by two threads | start-up and exit end, no node is lost or used when it is gone |
| `PaymentServer` | `savedPaymentRequests`, `saveURIs`, the local socket, the lock file | command line to the first process, requests before and after `uiReady` | several processes, names in the file system that anyone may remove, crashes | one process has the wallet; each link is shown, once and in order |
| `TransactionsModel` | rows and the transaction-to-row map | load, append, update, reset | an id noted on one thread and forgotten on another, signals that outlive their wallet | rows and map agree, are the open wallet's, and become complete |
| `SendFrame` | amounts, donation, fees, selected outputs, payment ID | edit, add, remove, recalculate, send | dialogs with event loops inside `sendClicked()`, queued slots that call each other, unsigned arithmetic, amounts as doubles, a balance that earlier transactions lower | what is sent is what was confirmed, and is covered |
| `OutputsModel` | rows | refill | - | shows the wallet's outputs |
| `AddressBookModel`, `Settings` | a list and its file; single values, recent wallets | add, remove; set | - | list and file agree |
| `MainWindow` | which actions are enabled | menu commands that call the adapters | order of close and open | its commands are the user's operations in `WalletAdapter` |
| dialogs, `AccountFrame`, translations, loggers, updater, DNS | display and input/output | - | - | not modelled |
| `libqrencode`, `qcustomplot` | vendored | - | - | not modelled |

`PROJECT.json` lists, under `hazards`, each place where this code can go wrong
in a way a test would hardly reach, with the properties that watch it.

## The plan

1. **`WalletAdapter`**, with the abstract **`WalletFile`** it implements, and
   **`WalletAdapterProofs`** (done).
2. **`Miner`** and **`MinerProofs`** (done).
3. **`MiningFrame`**, over what the miner and the wallet show of themselves, and
   **`MiningFrameProofs`** (done).
4. **`NodeAdapter`**, start and stop, and **`NodeAdapterProofs`** (done).
5. **`PaymentServer`**, **`PaymentServerProofs`** (who has the wallet, and the order of
   links) and **`PaymentServerDelivery`** (what becomes of them) (done).
6. **`TransactionsModel`** with the notification of the last transaction, and
   **`TransactionsModelProofs`** (done).
7. **`SendFrame`** with the arithmetic of the form, and **`SendFrameProofs`** (done).

Every invariant and action property of a run that passes, and the refinement of
`WalletFile`, is stated by a theorem, for every value of the constants. What is left is
what the prover does not reach:

- liveness under fairness: `CloseEnds`, `LockReleased`, `CallsReturn`,
  `TemplateReachesAll`, `WaitsEnd`, `AllShown` and `EachShown` stay with the checker, on the
  instances of the runs;
- the theorems take the assumptions of a module as they are named below. Some need
  fewer than the run that checks them makes, and say so; `MiningFrameProofs` and the last
  three theorems of `SendFrameProofs` ask for all, and which of theirs could be spared
  is known only from the counterexamples.

Each module has its parameters as CONSTANTS with a named ASSUME, one action per
handler step, and no RECURSIVE operator, so that it can be proved about as well
as checked.

### Assumptions by name

Much of this code is correct only under assumptions about time and use that nothing
in it ensures. Each module names them (`Disciplines`), a guard refers to each by its
name, and a configuration says which hold. In `WalletAdapter` and `MiningFrame` the
constant `Discipline` is the set that holds. In the other modules the constant `Cases`
has sets of assumptions, a behaviour draws one of them (`assumed`), and `Discipline` is
what the properties that need assumptions ask for: they begin with `Given`. One run
then shows what holds in any case, and what holds under the assumptions. For most
of them a configuration without it shows what goes wrong.

### Counterexamples

Four of these are runs listed in `PROJECT.json`, because a comment or assertion of the
code says otherwise (*Findings*). The others are kept as configurations, to be run by
hand: `tlc -config <name>.cfg <module>` ends with the trace.

| Configuration | Module | Without | Violates | What happens |
|---|---|---|---|---|
| `wallet_flag_race` (run) | `MCWalletAdapter` | `flag_first` | `RenameFindsTemp` | finding 1 |
| `wallet_rename_race` | | `rename_first` | `RenameFindsTemp` | a save that waits for the mutex opens the `.temp` the callback is about to rename |
| `wallet_late_signal` | | `idle_close` | `SendDoneFindsWallet` | the signal of a completed transaction is delivered after `close()` has deleted the wallet |
| `wallet_blank` | | `no_blank` | `WalletFileKept` | killed between `remove` and `rename`, the wallet is only in `.temp`; the next start has a blank wallet, whose close truncates `.temp` |
| `mining_late_sync` (run) | `MCMiningFrame` | `quiet_close` | `KeysHaveWallet` | finding 2 |
| `mining_reset` | | `reset_opens` | `KeysHaveWallet` | `walletOpened()` drops the error of the signal it is connected to: a wallet that did not load after a reset counts as open |
| `node_late_news` | `MCNodeAdapter` | `quiet_stop` | `NodeAtHand` | news still queued when the node's thread deletes the node asks `m_node`, which is null |
| `send_disturbed` (run) | `MCSendFrame` | `undisturbed` | `SentAsConfirmed` | finding 3 |
| `send_stale_total` | | `settled` | `SentAsConfirmed` | with outputs selected, a donation edited by hand is brought back when Send is clicked: the transfers are read after that and the total that is shown is the one before |
| `send_edited_outputs` | | `as_selected` | `OutputsMatch` | amounts edited after the outputs were selected no longer add up to them |
| `send_fee_wraps` | | `fee_covered` | `BalanceCovers` | finding 5 |
| `send_two_at_once` | | `undisturbed` | `BalanceCovers` | an earlier transaction is under way when Send is clicked; the password dialog's `tryOpen()` waits until it has ended and lowered the balance, which nothing checks again |
| `send_large_outputs` | | (all hold) | `OutputsExact` | finding 6 |
| `send_donation` | | (all hold) | `DonationIsShare` | with outputs selected, the slots of amount and donation change each other, by way of the queue, for ever: the share of what is left rounds up, and that of what is then left rounds down |
| `transactions_late` | `MCTransactionsModel` | `quiet_close` | `WalletAtHand` | a signal handled after `close()` reads a null wallet |
| `transactions_failed` | | (all hold) | `FailedShown` | finding 7 |
| `payment_second_start` (run) | `MCPaymentServer` | `with_link` | `NothingLost` | finding 4 |
| `payment_half_sent` | | `ends_idle` | `ShownOnce` | the server ends between two links of one command line, and the first is shown by both processes |
| `payment_client_dies` | | `client_lives` | `HandlerReturns` | a client killed before it writes leaves the wallet in a loop that waits for its bytes |

### Findings

1. *Backup taken for a save* (`wallet_flag_race`). `backup()`, `autoBackup()` and
   `changePassword()` set the flag after the save has started. A quick
   `saveCompleted` finds it unset, and `renameFile` removes the wallet although
   there is no `.temp`; its `Q_ASSERT` is gone in a release build.
2. *Mining resumed on a closed wallet* (`mining_late_sync`).
   `onSynchronizationCompleted()` ignores `m_wallet_closed`, and
   `m_miningStoppedByNoPeers` outlives `stopMiningForShutdown()`.
3. *Another payment ID is sent* (`send_disturbed`). `sendClicked()` reads payment ID and
   selected outputs after the confirmation, whose event loop handles payment requests
   and the completion of an earlier transaction, which clears the form.
4. *A second start cuts off the first* (`payment_second_start`). A start without a link
   removes the socket of the wallet that runs, is refused the lock and ends; the next
   link finds no server, is refused in turn, and is lost.

The first four are those of the runs; the others are shown by configurations that are kept
beside them.

5. *A fee above the balance passes* (`send_fee_wraps`). `getActualBalance() - fee` is
   unsigned and wraps, so the message about insufficient balance does not come.
6. *Large outputs are missed by some units* (`send_large_outputs`). With outputs
   selected, the first amount passes through a double. From 2^13 coins on not every amount
   is one, so transfers and fee differ from the outputs in the last units, though
   `sendTransaction()` asks that they match.
7. *A failed transaction is not listed* (`transactions_failed`). The wallet keeps it, but
   `onWalletSendTransactionCompleted()` returns on the error without telling the list,
   which has a text for such ones. It appears when another transaction comes.

## WalletAdapter

### The protocol

Saving a wallet writes `<wallet>.temp`. `save()` runs on the GUI thread: it
locks `m_mutex`, opens and truncates the file as `m_file`, and gives the stream
to the library, which writes it on a thread of its own and calls
`saveCompleted`. That closes the stream, unlocks the mutex and - unless
`m_isBackupInProgress` says that a backup was saved - removes the wallet file
and renames `.temp` to it. Loading holds the mutex and the stream from `open()`
to `initCompleted`; sending holds the mutex from `sendTransaction()` to
`sendTransactionCompleted`. `close()` and `reset()` save, take the mutex, run the
event loop once, delete the wallet and unlock.

### The model

`gui` is the handler the GUI thread is in and where it is in it: `open` (before
`openFile`), `start` (before `m_wallet->save`), `return` (before `save()`
returns), `lock`, `events` (in `processEvents`), `delete` (before `delete m_wallet`),
`reopen`. In `loop` the event
loop runs: the user starts an operation or the next signal of `queue` is
delivered. `savers`, `init` and `send` are the library's calls in progress, each
until its callback has ended; a `saveCompleted` is three steps (close and
unlock, remove, rename), because other threads run between them. `disk` gives
for the wallet file, `.temp`, the automatic backup and the user's copy the
version of the wallet it holds, or that it is absent or half written. A version
is made by creating the wallet, by a sent transaction and by a new password.
An open stream follows a rename or removal of its file, as POSIX has it.
`Crash` loses everything but `disk`; `Restart` is `main()` opening the last
wallet. Every operation of the library may fail where the code handles a
failure.

Outside the repository and so taken from its use: the library saves one wallet at
a time (a second `save()` throws), writes the data as they are at some time
between the call and the callback, calls back once for each call accepted,
does not begin a callback of an observer that was removed, and is deleted only
when the callbacks that have begun are over (`LibraryDone`: deleting it joins its
threads).

### What the code takes for granted

The protocol is correct only under assumptions about time and use that nothing
in the code ensures. They are named, and a run says which it makes
(`Discipline`):

- `flag_first`: `saveCompleted` for a backup does not run before the GUI thread has
  set `m_isBackupInProgress` - it does so after `save()` has returned;
- `rename_first`: `saveCompleted`, which unlocks before it renames, has renamed
  before the GUI thread opens `.temp` again;
- `idle_close`: the wallet is closed only while nothing is loading, being sent
  or queued;
- `no_blank`: the program is not started on a missing wallet file (it would then
  have a wallet without data, whose close truncates `.temp`).

`LockCoversFile` and `SaveOwnsFile` need `idle_close` alone, as `WalletAdapterProofs`
proves. They do need it: a wallet created and closed while it is loading has its
`initCompleted` close and unlock the file that `close()` has just opened to save, so the
save goes on without lock or stream; and the signal of that load may be delivered to
the next wallet.

### What is checked

`TypeOK`; `LockCoversFile` (the stream is open only under the mutex);
`SaveOwnsFile` (a save in progress has the lock and the stream to itself);
`FlagMeansBackup` (the flag is set only while a backup is being saved);
`NoBackupUnderOldPassword`; `RenameFindsTemp` (`renameFile`'s assertion);
`WalletFileKept`: the adapter implements `WalletFile`, whose only steps make a
new version and move the stored version forward to one that was made. The stored
version is the wallet file's or, between remove and rename, `.temp`'s. A crash
between the two leaves `.temp` whole, so the wallet is not lost, but nothing in the
code looks for it: `no_blank` is what keeps it from being truncated.

`CloseEnds` and `LockReleased` are checked under weak fairness of the GUI thread's
steps, of each callback and of the rest of a callback once begun: the system
schedules every thread, and the library answers each call it has accepted. The
user is not assumed to do anything.

The run `wallet` assumes all four, with 4 operations, 3 versions and 1 crash.
Four operations are enough for create, save twice and close, with a save still in
its callback when the next begins; two savers because the library writes one
file while the previous callback ends. Three versions tell old, current and new
apart. Deadlock is not checked: when the operations are used up the system stops. A GUI
thread that deadlocks itself in `close()`, by delivering a signal whose slot saves, stops
too; `idle_close` leaves no such signal in the queue, so that `CloseEnds` says nothing of
this case. It says that the waits of `close()` and `reset()` for the mutex end.

### What is proved

`WalletAdapterProofs` proves, for any set of save threads and any bounds:

| Theorem | Property | Assumes of `Discipline` |
|---|---|---|
| `TypeCorrect` | `TypeOK` | nothing |
| `LockKept`, `OneSave` | `LockCoversFile`, `SaveOwnsFile` | `idle_close` |
| `OldBackupGone` | `NoBackupUnderOldPassword` | `idle_close` |
| `FlagRight` | `FlagMeansBackup` | `idle_close`, `flag_first` |
| `RenameFinds` | `RenameFindsTemp` | `idle_close`, `flag_first`, `rename_first` |
| `Refinement` | `WalletFileKept` | all four |

All need more than themselves, because the thread that unlocks is not the one that
locked, so what every callback finds must be known in advance. `LInv` adds: a load
runs only on a wallet that is loading, and a wallet that has a file to save is past
it (`Loading`, `Saving`); a transaction in flight has the lock and no stream is open
(`Sending`); a queued signal tells of the wallet there is, and of one load once
(`Signals`, `Once`), so that a failed load never deletes a wallet that is saving;
where the GUI thread's handler is says what the lock, the stream and the wallet are
(`Handling`: a handler that ends the wallet has nothing pending, which is where
`idle_close` enters; one between `openFile` and `m_wallet->save` has the lock, the
stream and no save running). `TInv` adds to the types that a load that can succeed
has a version to load.

On `LInv` four more invariants rest. `Password`: from the moment the password is new,
whatever is written to the automatic backup is at least as new, and
`changePassword()` has removed the old one when it returns. `Flagged`: a backup keeps its
stream between its statements, so `saveCompleted` cannot have come before the flag is
set. `Streamed`: the open stream is the file that the handler means, one callback at
most is renaming, and it has a complete `.temp` to itself. `Kept`: what is in memory,
being written or in `.temp` is no older than the wallet file and no newer than what was
made, and `.temp` is the only copy only while it is being renamed or when no wallet
is there to save over it. `Kept` is what the refinement needs: `StepAdvances` takes the
steps one by one and shows that each leaves the stored version, moves it forward to one
that was made, or makes a version (`Advances`), the crash between remove and
rename included. `NextLock`, `NextPassword`, `NextFlagged`, `NextStreamed` and
`NextKept` have one step per action. Beside the named assumptions there is only
`WalletAssumption`.

`CloseEnds` and `LockReleased` are model-checked only: liveness under fairness is beyond
the prover.

## Miner

### The model

The GUI thread's calls are `start`, `set_thread_count`, `stop` and
`on_block_chain_update`; `pc` says which it is in. Their loops are one step per
thread (`Spawn`, `SignalLast`, `Join`). Each worker is at the loop's condition
(`top`), before the version check (`look`), before signing and hashing (`hash`) or
before the step of the nonce (`step`). `free` is a thread that is not there. An
error of a worker sets `m_stop_mining` and leaves the list of threads as it is.
The nonce is counted from `m_starter_nonce`, which changes only together with
the template's version, under `m_template_lock`. A template request may fail, which
is `stop()` while mining and a refused `start()` before.

`NoThreadLeaked`, `FullCrew`, `DistinctNonces`, and under fairness `CallsReturn`
and `TemplateReachesAll`, are stated in the module. Fairness: a call the GUI
thread is in goes on, and every worker is scheduled. `DistinctNonces` excludes the
moment inside `set_thread_count` when `m_threads_total` is new and the sequence is
old: there two workers can try the same nonce, which costs time and no more.

The run `miner` has 2 workers and up to 2 threads, 5 template versions and nonces to 4:
a crew starts, shrinks, grows and gets new templates, stops and starts again, and each
worker steps at least once. Crews of any size are `MinerProofs`' matter.

Not in the model: the wrap of the nonce at 2^32, the hash rate, and `pause`,
`resume`, `on_idle`, `on_synchronized` and `send_stop_signal`, which nothing calls.

### What is proved

`MinerProofs` proves, for any finite set of workers and any bounds, that `TypeOK`,
`NoThreadLeaked`, `FullCrew` and `DistinctNonces` are invariants. They are not
inductive. `IInv` adds where in a call the lists and counts agree (`Phase`), that
the two lists are exactly the threads (`Tracked`), that the indexes are a gapless
numbering (`Crew`), that no worker is ahead of the template (`Template`), and
that a worker on the current template is on its own lane `index + k * total`
(`Lanes`). `LanesApart` is the arithmetic: lanes of different indexes below the
number of threads do not meet. `NextInv` has one step per action. The only
assumption is `MinerAssumption`.

The liveness properties are model-checked only: liveness under fairness is beyond
the prover.

## MiningFrame

### The model

`MiningFrame` decides when the miner runs. Its flags have the source's names. The
miner is reduced to what `Miner` shows: `off`, `on`, or `failed` (a worker's error has
stopped the workers, whose threads are still listed, so that `start()` is refused
until `stop()`); the wallet to what the frame can tell. Slots are one step each, for
they run on the GUI thread; `close()` and `reset()` are three, because their
`processEvents()` delivers what is queued and a callback of the library that has begun
may still emit before the wallet is deleted. `initDone`, `opened` and `shown` are the
slots that `walletInitCompletedSignal` has in `WalletAdapter`, `MiningFrame` and
`MainWindow`, in the order of their connections. The two buttons are an exclusive
group whose `toggled` signals disable the one that is down (`miningframe.ui`); such a
group refuses `setChecked(false)`, so that call of `startSolo()` has no effect. The
node is the embedded one: with any other the frame does nothing.

A start that reaches `getAccountKeys()` with no wallet is the state `crash`.
`Miner::start` may fail for want of keys or of a template. A wallet is closed only
after it has been shown; closing one that still loads is `WalletAdapter`'s matter.

Three things are taken for granted by name (`Discipline`): `quiet_close` (no
synchronisation signal is on its way when the wallet is closed), `reset_opens` (the
wallet that is reset opens again) and `told_first` (no worker fails while the signal of
an earlier stop is queued).

### What is checked

The run `mining_switch` assumes all three, with 10 events and 2 wallets.

An event is a click, a menu command, a change of the peers, a failure, or a
synchronisation; signals and their slots are not counted. Ten of them allow a wallet
to be opened, synchronised, mined for, left by its peers, stopped, closed, and another
one opened and synchronised. `SoloIsKnown`, `StopReachable`, `PaysOpenWallet`
(with `KeysHaveWallet`: a start finds the keys of a wallet) and `UserStopStays` are stated in the module. Deadlock is not checked:
the system stops when the events are used up.

Without `told_first` a stop and a start by the user, a worker's error and then the
signal of the first stop leave `m_solo_mining` false and the miner with threads that
nobody joins: Stop is disabled and every start is refused until the wallet is closed.
Nothing in the repository says otherwise, so this is a hazard and no finding.

### What is proved

`MiningFrameProofs` proves, for any numbers of events and wallets and under the three
assumptions, that `TypeOK`, `SoloIsKnown`, `StopReachable` and `PaysOpenWallet` are
invariants and that every step respects `UserStopStays`. What makes this hard is the
queue, in which signals wait that describe the past. `IInv` does not bound it. It says
which signals it can hold in which state, and two facts about their order: after the
`shown` of a wallet that opened there is no other (`ShownLast`), and a frame that thinks
the wallet is closed hears of `opened` before anything that could start the miner
(`OpenedFirst`). The rest are facts of the state: what the frame knows of the
miner (`Known`); that without a wallet nothing is mined, shown or about to start
(`Kept`); that nothing of a load is queued inside `close()` and `reset()`, and that the
frame hears of the close before the wallet goes (`Closing`); that a queued result of a
load is true of the wallet there is (`Loads`); that a wallet that is ready will be shown
(`Shows`); and that what was stopped is stopped for good, with neither flag left that
resumes it (`Stops`). Types need all of it: that there are never two pairs of timers
depends on the buttons.

## NodeAdapter

### The model

`init()` is called from `main()` and talks to a daemon, or starts the embedded node on
`m_nodeInitializerThread` and waits in an event loop; `deinit()` tells that thread to
stop and waits in another. `gui` is the statement the GUI thread is at: before a loop is
connected (`connectRpc`, `connectInit`, `connectStop`), in it (`waitRpc`, `waitInit`,
`waitStop`), or past it with its result (`leaveRpc`, `leaveInit`). `worker` is the same
for the thread's `start()`. A signal the thread emits is an event in `queue` if somebody is
connected, and lost if not; a loop that is gone drops what was posted to it. `m_node` is
what the pointer says and `nodes` what exists: the thread deletes the node and sets the
pointer in two steps, on its side. The setting is one of `embedded`, `local`, `remote`
and `auto`; the last keeps the daemon if it is heard of before the timer fires, and
falls back to the embedded node otherwise. The embedded node may fail to start, end by
itself or throw. News of peers and blocks reach the window, whose models ask the node.

Assumptions: `connect_first` (the thread signals nothing before the loop is connected: the
code starts it first), `quiet_stop` (news are handled before the node is deleted),
`node_starts` and `node_lives`.

### What is checked

`node` draws all four, or `connect_first` alone (a node that may fail at any time), with 3
news. `TypeOK`; `NodeKnown`: no node is lost and the pointer is never wrong, also when a daemon was
tried first. `NodeAtHand`: whoever asks the node finds one. `NoThreadLeft`: an exit leaves
neither the node nor its thread. `WaitsEnd`: `init()` returns in every case, and
`deinit()` when the node has started and lives. Fairness: both threads are scheduled, the
timer runs, the library calls its callback; nothing else is assumed, in particular no
news. Three news are enough for one in each of two loops and one that is late.

Without `node_lives` `deinit()` does not return: a node that throws while it serves ends
`start()` without the signal that `deinit()` waits for. A start that fails leaves the
thread running when `main()` returns. Without `connect_first` the loops wait for a signal
that is gone.

### What is proved

`NodeAdapterProofs` proves, for any amount of news, that `TypeOK`, `NodeKnown` and
`NoThreadLeft` are invariants whatever is assumed, and `NodeAtHand` under `quiet_stop`.
`IInv` says which node exists and where the pointer leads for each place of the node's
thread (`NodeOf`); which places of the two threads go together, so that a loop of the GUI
thread that is left has found the thread where it should be (`Together`); that who is
told `completed` has a node, because the event outlives neither the node nor the loop
(`Started`); what each loop may find in its queue, in particular that the answer to
`deinit()` is there only when the thread is idle and the node gone (`Events`); and that
news is queued only while the node exists, with `quiet_stop` (`NoLateNews`). That init and
deinit do end is liveness and stays with the checker (`WaitsEnd`).

## SendFrame

### The model

`form` is what the widgets hold: the amounts of one or two recipients, `m_selectedOutputsAmount`,
the fee and whether it is entered by hand, the donation, `m_totalAmount`, the payment ID, and
whether a call of `amountValueChanged()` is queued. Each slot is an operator from form to
form that makes the calls the code makes (`AmountChanged`, `SetDonation`, `Recalculate`),
and each action is one thing the user or the outside does. `sendClicked()` is three steps:
up to the password dialog it has read the transfers, fee and total (`sending`); the
confirmation shows `m_totalAmount` and the payment ID as they then are (`shown`); and what is
sent takes the selected outputs and the payment ID from the form as it is at last
(`sent`). Between them the dialogs' event loops handle payment requests, queued slots and
the completion of an earlier transaction, for which the password dialog's `tryOpen()` waits.

Amounts are integers, in atomic units. A field is a `QDoubleSpinBox` of twelve decimals:
`setAmount()` gives it the amount as a double, and what is sent is parsed back from its
text. `Held` says what is left of an amount on the way: every amount up to `Exact` (2^13
coins), above it the nearest that is a double. In the code the distance of those doubles grows with
each power of two; here it is one number, `Grain`. `Spin` adds the field's maximum,
`MaxSpin`. `Modulus` stands for 2^64, `Share` for the thousandth that a donation is, and
`Cent` for the 10^-4 to which it is rounded: `amountValueChanged()` takes the minimum of a
donation before it rounds (`DonationOf`), `sendAllClicked()` after (`DonationOfAll`). A
donation itself is a float written with six digits; that larger donations are
rounded more coarsely by this is left out.

The balance changes: a transaction that ends well takes at least what it cost (its change
comes back later), money is received, and the next wallet has its own. A transaction may
fail, at once or later, and then takes nothing. `sent` has the balance at the time
of sending.

The instance of `send` has 64 for `Modulus`, 10 for `Share`, 2 for `Cent`, 48 for `MaxSpin`,
32 for `Exact` and 4 for `Grain`, balances of 3 and 46 and outputs of 19 and 45: the
subtraction that wraps, a donation that is rounded either way, a sum that does not fit,
an amount that cannot be held (rounded up and down) and one that can, and a balance
that falls are all reached. Left out: names and their lookup, registering an account number,
labels for the address book, mixins, and the question about dust, which comes before
anything is read.

### What is checked

`send` draws all assumptions or none, with 5 events. `TypeOK` holds in any case: whatever is
computed, the first recipient is there and no field holds more than it can. Under the
assumptions three properties hold. `SentAsConfirmed`: the total and payment ID that are
sent are those that were confirmed. `OutputsMatch`: the outputs that are sent are those the
transfers were computed for, and transfers and fee come within half of `Grain` of
them, or add up to them when they are no more than `Exact`. `BalanceCovers`: the balance at
the time of sending covers transfers and fee, though it was looked at two dialogs
before. Five events select outputs or fill in two fields, add a recipient, send, and
disturb. `OutputsExact` is the prerequisite of `WalletAdapter::sendTransaction()` as its
comment has it, which the form does not keep for large outputs (finding 6). The
assumptions:

- `undisturbed`: when Send is clicked no earlier transaction is under way, nor is its
  completion queued, and no payment request comes while `sendClicked()` asks the user;
- `as_selected`: with outputs selected the user leaves amount and recipients alone,
  and the outputs exceed the fees and fit the amount's field (its maximum is the whole
  supply);
- `settled`: when Send is clicked, total and donation are those of the amounts;
- `fee_covered` and `sum_fits`: the fee is then at most the balance, and the
  transfers add up to less than 2^64.

`settled` is more than an empty event queue. `amountValueChanged()` computes the total
before it changes the donation, and with outputs selected the donation changes the
first amount, for which it is queued again. With a donation, "Send all" clicked twice
and then outputs selected it can come to rest with a total that is not that of
the amounts; the proof of `SentAsConfirmed` is where this was found.

### What is proved

`SendFrameProofs` proves, for any amounts, coins, fees, shares and balances, that `TypeOK`
is an invariant with no assumption (`TypeCorrect`), and that `SentAsConfirmed`,
`OutputsMatch` and `BalanceCovers` are under the five (`Confirmed`, `SpendsSelected`,
`Affordable`). Since every slot is an operator from form to form there is one lemma per
slot: what it keeps of the types (`...Keeps`), and that it keeps `Fitted` (`...Fits`): with
outputs selected, the first amount is what the form can hold (`Spin`) of what they leave when
fees and donation are taken, and that is positive. `HeldNear` and `SpinNear` say how far the
one may be from the other, and `TransfersTotal` turns this into the bound of `OutputsMatch`.
`SendInv` adds that from the click to the last dialog the form is as it was read
(`Asked`), for which `RightStays` says that the queued slot changes nothing in a settled
form, that the confirmation shows it (`Showing`), and that the balance still covers what
was read: no transaction is under way then that could lower it, and money received
raises it. `TotalIs` unfolds the
recursive function `Total` for the at most four transfers there are.

## TransactionsModel

### The model

The library tells of a transaction on its own thread, which notes the id
(`m_lastWalletTransactionId`) while the wallet synchronises, and else emits a signal that is
queued. A timer on the GUI thread tells of the noted id and then forgets it:
`notifyAboutLastTransaction()` is two steps, for the library may note another in between.
A transaction that the user has sent is told of when its send has completed without an
error; one that fails stays in the wallet, and its error ends the slot at once.
The model is `m_transfers` and `m_transactionRow`, and fills the gap up to the id it is told
of. `owner` remembers from which wallet. A wallet is closed in two steps, with the queue
handled between, as in `WalletAdapter`. A slot that reads a wallet that is gone is the state
`crash`.

### What is checked

`transactions` draws `quiet_close` with or without `notify_whole`, over 2 wallets of up to 3
transactions, one of which has no transfers and one of which has two, and one callback of
progress. `RowsMatch` and `RowsOfOpenWallet` hold with and without `notify_whole`; with it,
`AllShown`: the transactions of a wallet that stays open get into the list, but for those
that could not be sent (`failed`). Those get there only with a later one, whose gap
they are: `FailedShown` says that they do on their own, and is violated (finding 7).
Without `notify_whole` the id noted during the notification is forgotten, and its
transaction, too, is not shown until another one comes. Two wallets are needed for rows of
the wrong one, three transactions for a gap of more than one. Fairness: queued slots run,
the timer ticks, the library ends its callbacks and completes every synchronisation. A
wallet may be opened with any number of transactions up to `MaxTx`; of those none counts as
failed, for loading lists them all.

### What is proved

`TransactionsModelProofs` proves, for any numbers of wallets, transactions and transfers,
that `RowsMatch` is an invariant whatever the timing (`RowsRight`), and that `TypeOK` and
`RowsOfOpenWallet` are where every case has `quiet_close`. For the first, `Matches` says
what a model filled up to a number is: rows in the order of the transactions, each where the
map has it. One transaction appended at that number keeps it (`AppendMatches`), and so
does the loop that fills a gap (`FillMatches`), by induction on its length. `Fill` is a
recursive function, and the induction is over a set of naturals, which `Induction`
derives from the well-foundedness of `<`. For the others `QInv` says that a callback in
progress and a noted id are those of the open wallet (`Noted`), that rows are gone before
a wallet is (`OfWallet`), and which signals can be queued in each state: of a wallet that
failed to load nothing but that, and while one is being closed, the signal that resets
the model comes last (`QueueOk`). `AllShown` is liveness and model-checked only.

## PaymentServer

### The model

Every click on a payment link starts the program anew. `pc[i]` is where `main()` of process
`i` is. A process sends its links to whoever listens on the socket and ends, or, when it
cannot, becomes the server: it removes the socket's name and binds it (`RemoveServer`,
`Listen`), takes the lock file (`TryLock`), starts the node in an event loop, shows the
window and enters the main loop. `QLocalServer` and `QLockFile` are modelled as they are on
Unix: the name is a file that leads to the server that bound it, that anyone may remove, and
that a killed process leaves behind; a lock file of a process that is gone is taken over.
The lock is released before the server is closed, in the order in which `main()` declared
them. `inbox` has the connections a server was not yet told of, with whether the client has
written; `reading` is the loop of `handleURIConnection()`, which nothing interrupts.
Requests are numbers, in the order of the clicks. `taken` and `shown` are history.

Assumptions: `with_link` (the wallet that runs is started again only by a link), `alone` (no
process is started while another is on its way to the lock, or out), `ends_idle` (a wallet
ends or is killed only when it holds no request and nobody sends one) and `client_lives`.

### What is checked

`payment` draws all four or none, for 3 processes, 3 links and 2 links on one command
line: a wallet that ends, one that takes over, and a client. In any case at most one process
has the wallet (`OneWallet`) and a window is told of the links in the order its process
took them (`InOrder`); under the assumptions no link is lost (`NothingLost`), none is
shown twice (`ShownOnce`) and the wallet that runs can be reached (`WalletReachable`). The
processes are symmetric. `payment_shown` checks, without symmetry and with 2 links, that a
link that arrived is shown (`EachShown`). Fairness: a process goes on, its event loop handles
every event, the node starts, and the user closes the message box; nobody must click, quit
or crash. `HandlerReturns`, whose failure `payment_client_dies` shows, holds under all four.

### What is proved

`PaymentServerProofs` proves, for any set of processes, any bounds and no assumption about
time, `OneWallet` (`WalletExclusive`) and `InOrder` (`ToldInOrder`). For the first, `LockInv`
says that a process between `tryLock()` and the unlock is the one that made the lock file.
A lock is taken over only when its process has ended, so from none of these; the socket
plays no part. For the second, `OrderInv` says that before its start-up a process has taken
nothing, is told nothing and handles nothing (`Fresh`), and after it `taken` is at any time
`shown`, then `queue`, then `saved` (`Whole`), with nothing in `saved` once the window is
ready. That is what makes `uiReady()` right: it empties the list into the queue and changes
the flag in one slot, so a request that is posted directly cannot overtake one that
was kept. A client that has sent all its links ends without taking any, which is the
exception in `Order`. The only assumption is `PaymentAssumption`.

`PaymentServerDelivery` proves `TypeOK` whatever is assumed (`TypeCorrect`),
`WalletReachable` (`Reached`) and `ShownOnce` (`ShownAtMostOnce`) under `with_link`, `alone`
and `ends_idle`, and `NothingLost` (`NoneLost`) under all four. `AloneInv` says that one
process at most is up, that others send only to the wallet, and that the socket's name
then leads to it; this takes `with_link` and `alone`, for any process that does not
send removes the name. `LeftInv` says that a process that ends leaves nothing behind
(`ends_idle`). On these rests that a request is in one place: with its sender, in a
connection, or taken by a process (`At`). In two it never is (`OnceInv`), and with
`client_lives` it is in one (`SomewhereInv`): `AtNext` follows each request through each
action. `BoundInv` has the facts about sequences, among them that a sender's `sent`
does not pass its list. What a process took is shown, posted or kept by `OrderInv`.

`EachShown` and `HandlerReturns` are liveness and model-checked only.

## Not modelled

- `OutputsModel` and `CoinsFrame`: each signal clears the list and fills it from the wallet at
  once; when the signals come is what `TransactionsModel` models. With no outputs the last row it
  announces is an unsigned underflow, which Qt takes for an empty range.
- `AddressBookModel`: one list, changed on the GUI thread only while its wallet is shown, and
  written whole after each change. The write truncates the file first, so a crash in it loses
  the list; and `Settings::setWalletFile()` derives the file's name by replacing
  `.wallet`, which leaves it equal to the wallet's own for a `.trackingwallet` file (the
  menus offer no such file, an entry of the recent wallets may).
- `Settings`: single values, and a list of ten names.
- `importLegacyWallet` and `prepareRawTransaction` of `WalletAdapter`: the first reads a format
  of another program once; whether the library calls back after the second, and so unlocks
  what it has locked, is not in the repository.
- `MainWindow`, frames and dialogs: display and layout. Their commands are the user's actions
  in the modules above.
- `CurrencyAdapter`, `TranslatorManager`, `CommandLineParser`: formatting and parsing.
- `Updater`, `DnsLookup`, `LogFileWatcher`, `LoggerAdapter`: input and output.
- `libqrencode`, `qcustomplot`: vendored.
- `src/src/languages/*.ts`: in spite of the suffix these are Qt's translation files, XML with
  the texts of the window in fourteen languages. They are by far the longest files of the
  repository, and they are data: they have no state and no step, and no definition of this
  development translates them. The program is its C++.
