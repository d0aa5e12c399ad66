----------------------------- MODULE SendFrame -----------------------------
(***************************************************************************)
(* The form that sends money: src/src/gui/SendFrame.cpp.                   *)
(*                                                                         *)
(* The form computes: amounts, donation and fees depend on each other,     *)
(* some through slots called at once and some through slots that are       *)
(* queued.  sendClicked() reads a part of the form, asks the user in two   *)
(* dialogs that run event loops of their own, and then reads the rest.     *)
(*                                                                         *)
(* Amounts are integers, in atomic units.  The form holds them in spin     *)
(* boxes of twelve decimals, that is as doubles: up to Exact every amount  *)
(* is one, above it only every Grain-th is (in the code the distance       *)
(* doubles with each power of two; one stands for all of them).  Names of  *)
(* recipients are left out, as is the wallet's dust, whose dialog precedes *)
(* everything sendClicked() reads.  Money that is prepared but not relayed *)
(* takes the same way.                                                     *)
(***************************************************************************)
EXTENDS Integers, Sequences

CONSTANTS
  Balances,     \* what getActualBalance() may return
  Amounts,      \* amounts that users and payment requests give
  Coins,        \* amounts of outputs selected in CoinsFrame
  Fees,         \* fees entered by hand
  Ids,          \* payment IDs
  MinimalFee,   \* NodeAdapter::getMinimalFee()
  NodeFee,      \* fee of a remote node, 0 for none
  Share,        \* a donation is the Share-th part of the amount: 1000
  Cent,         \* what the donation is rounded to: 10^-4
  MaxSpin,      \* the largest amount the form can hold: 10^7
  Exact,        \* up to here it holds every amount: 2^13
  Grain,        \* the distance of the amounts it holds above
  Modulus,      \* 2^64
  MaxEvents,    \* bound: what the user and the outside do
  Discipline,   \* assumptions the properties rely on, see below
  Cases         \* what a behaviour may assume: sets of assumptions

(* What a run may take for granted and the code does not ensure.           *)
(*   "undisturbed"   the user clicks Send when no earlier transaction is   *)
(*                   under way or still to be told of, and no payment      *)
(*                   request comes while sendClicked() asks                *)
(*   "as_selected"   with outputs selected the user leaves amount and      *)
(*                   recipients alone, and the outputs exceed the fees and *)
(*                   fit the form                                          *)
(*   "settled"       the user clicks Send when total and donation are those*)
(*                   of the amounts                                        *)
(*   "fee_covered"   and when the fee is at most the balance               *)
(*   "sum_fits"      and the transfers add up to less than 2^64            *)
Disciplines == {"undisturbed", "as_selected", "settled", "fee_covered", "sum_fits"}

ASSUME SendAssumption ==
  /\ Amounts \subseteq Nat /\ Fees \subseteq Nat /\ Coins \subseteq Nat \ {0}
  /\ MinimalFee \in Nat \ {0} /\ NodeFee \in Nat /\ {Share, Cent, Grain} \subseteq Nat \ {0}
  /\ MaxSpin \in Nat /\ Modulus \in Nat /\ MaxSpin < Modulus
  /\ Balances \subseteq 0..(Modulus - 1)
  /\ Exact \in Nat /\ MinimalFee <= Exact
  /\ MaxEvents \in Nat /\ "none" \notin Ids
  /\ Discipline \subseteq Disciplines /\ Cases \subseteq SUBSET Disciplines

VARIABLES
  assumed,      \* the assumptions in force, chosen once
  balance,
  form,         \* the form, see Init
  gui,          \* "form", or sendClicked() in its "password" or "confirm"
                \* dialog
  sending,      \* what sendClicked() has read so far
  shown,        \* what the confirmation shows
  sent,         \* what the last sendTransaction() was given, and shown
  busy,         \* an earlier transaction holds the wallet's mutex
  done,         \* sendTransactionCompleted signals queued: no error
  events

vars == <<assumed, balance, form, gui, sending, shown, sent, busy, done, events>>
dialogs == <<gui, sending, shown, sent>>
library == <<busy, done>>

None == <<>>

-----------------------------------------------------------------------------
(* The arithmetic of the form.                                             *)

Total(s) ==
  LET sum[n \in 0..Len(s)] == IF n = 0 THEN 0 ELSE sum[n - 1] + s[n]
  IN sum[Len(s)]

(* Mutant: the amount shown is not limited.                                *)
SpinFree(a) == a

(* What a spin box holds of an amount: the nearest one that is a double.   *)
Held(a) ==
  LET over == a % Grain
  IN IF a <= Exact THEN a ELSE IF 2 * over < Grain THEN a - over ELSE a - over + Grain

(* QDoubleSpinBox::setValue() of an amount, as it is read back.            *)
Spin(a) == IF Held(a) > MaxSpin THEN MaxSpin ELSE Held(a)

(* quint64 subtraction.                                                    *)
Minus(a, b) == (a - b) % Modulus

(* 0.1 percent of an amount, to the next Cent.                             *)
Rounded(amount) == Cent * ((2 * amount + Share * Cent) \div (2 * Share * Cent))

(* The donation amountValueChanged() sets: at least the minimal fee,       *)
(* before it is rounded.                                                   *)
DonationOf(amount) ==
  Held(Rounded(IF amount < Share * MinimalFee THEN Share * MinimalFee ELSE amount))

(* The donation sendAllClicked() sets: rounded before that.                *)
DonationOfAll(amount) ==
  IF Rounded(amount) < MinimalFee THEN MinimalFee ELSE Rounded(amount)

(* A change of the first amount queues amountValueChanged().               *)
SetAmount(f, amount) ==
  IF f.transfers[1] = Spin(amount) THEN f
  ELSE [f EXCEPT !.transfers[1] = Spin(amount), !.posted = TRUE]

(* Mutant: the node's fee is forgotten.                                    *)
RecalculateNoNodeFee(f) ==
  LET rest == f.selected - f.fee
      donation == IF f.donate /\ f.donation >= rest THEN MinimalFee ELSE f.donation
  IN IF rest <= 0 THEN f
     ELSE SetAmount([f EXCEPT !.donation = donation],
                    IF f.donate THEN Minus(rest, donation) ELSE rest)

(* recalculateAmountsSendOutputs(): the first recipient gets what the      *)
(* selected outputs leave.                                                 *)
Recalculate(f) ==
  LET rest == f.selected - (f.fee + NodeFee)
      donation == IF f.donate /\ f.donation >= rest THEN MinimalFee ELSE f.donation
  IN IF rest <= 0 THEN f
     ELSE SetAmount([f EXCEPT !.donation = donation],
                    IF f.donate THEN Minus(rest, donation) ELSE rest)

RecalculateIfSelected(f) == IF f.selected > 0 THEN Recalculate(f) ELSE f

(* The donation and, if it changes, donateValueChanged().                  *)
SetDonation(f, d) ==
  LET g == [f EXCEPT !.donation = d]
  IN IF d = f.donation THEN f
     ELSE IF ~f.donate \/ f.selected = 0 THEN g
     ELSE Recalculate(IF d >= f.selected THEN [g EXCEPT !.donation = MinimalFee] ELSE g)

(* Mutant: m_totalAmount is not reset.                                     *)
AmountChangedAdds(f) ==
  LET total == Total(f.transfers)
  IN SetDonation([f EXCEPT !.total = (@ + total) % Modulus], DonationOf(total))

(* amountValueChanged().                                                   *)
AmountChanged(f) ==
  LET total == Total(f.transfers)
  IN SetDonation([f EXCEPT !.total = total % Modulus], DonationOf(total))

AddRecipientTo(f) ==
  AmountChanged([f EXCEPT !.transfers = Append(@, 0), !.sendAll = (f.transfers = <<>>)])

(* clearAllClicked(), by the user or for a transaction that completed.     *)
Cleared(f) ==
  AmountChanged(AddRecipientTo(
    [f EXCEPT !.transfers = <<>>, !.selected = 0, !.paymentId = "none",
              !.fee = IF f.manual THEN @ ELSE 2 * MinimalFee]))

(* parsePaymentRequest(): what a request does not give stays.              *)
Requested(f, amount, id) ==
  LET g == IF amount = 0 THEN f ELSE SetAmount(f, amount)
  IN [g EXCEPT !.paymentId = IF id = "none" THEN @ ELSE id]

Init ==
  /\ assumed \in Cases
  /\ balance \in Balances
  /\ form = [transfers |-> <<0>>,       \* the recipients' amounts
             selected |-> 0,            \* m_selectedOutputsAmount
             fee |-> 2 * MinimalFee,    \* getFee()
             manual |-> FALSE,          \* the fee is entered by hand
             donate |-> TRUE, donation |-> DonationOf(0),
             total |-> 0,               \* m_totalAmount
             paymentId |-> "none",
             sendAll |-> TRUE,          \* the button is enabled
             posted |-> FALSE]          \* amountValueChanged() is queued
  /\ gui = "form" /\ sending = None /\ shown = None /\ sent = None
  /\ busy = FALSE /\ done = <<>> /\ events = 0

-----------------------------------------------------------------------------
(* The user fills in the form.                                             *)

Event == events < MaxEvents /\ events' = events + 1

(* What a step leaves the form like is within the assumptions.             *)
FormBecomes(f) ==
  /\ "as_selected" \in assumed /\ f.selected > 0 =>
       f.selected > f.fee + NodeFee + 2 * MinimalFee /\ f.selected <= MaxSpin
  /\ form' = f

Fill(f) ==
  /\ gui = "form" /\ Event
  /\ FormBecomes(f)
  /\ UNCHANGED <<assumed, balance, dialogs, library>>

LeftAlone == "as_selected" \in assumed => form.selected = 0

EditAmount ==
  \E i \in DOMAIN form.transfers, a \in Amounts :
    /\ LeftAlone /\ Spin(a) # form.transfers[i]
    /\ Fill([form EXCEPT !.transfers[i] = Spin(a), !.posted = TRUE])

AddRecipient ==
  /\ LeftAlone
  /\ Len(form.transfers) < 2
  /\ Fill(AddRecipientTo(form))

(* The last one left enables "send all", with outputs selected or not.     *)
RemoveRecipient ==
  \E i \in DOMAIN form.transfers :
    /\ LeftAlone /\ Len(form.transfers) = 2
    /\ Fill([form EXCEPT !.transfers = <<@[3 - i]>>, !.sendAll = TRUE, !.posted = TRUE])

SetPaymentId == \E id \in Ids \union {"none"} : Fill([form EXCEPT !.paymentId = id])

(* priorityValueChanged(), feeValueChanged() and feeOverrideToggled().     *)
SetFee ==
  \/ \E k \in 1..4 :
       Fill(RecalculateIfSelected([form EXCEPT !.fee = k * MinimalFee, !.manual = FALSE]))
  \/ \E fee \in Fees :
       Fill(RecalculateIfSelected([form EXCEPT !.fee = Held(fee), !.manual = TRUE]))

ToggleDonate == Fill(RecalculateIfSelected([form EXCEPT !.donate = ~@]))

EditDonation == \E d \in Amounts : Fill(SetDonation(form, Held(d)))

(* sendOutputs(), from CoinsFrame.                                         *)
SelectOutputs ==
  \E coins \in Coins :
    /\ coins <= balance
    /\ "as_selected" \in assumed => Len(form.transfers) = 1
    /\ Fill(Recalculate([form EXCEPT !.selected = coins, !.sendAll = FALSE]))

(* sendAllClicked(): the balance without fees and donation.                *)
SendAll ==
  /\ form.sendAll /\ LeftAlone
  /\ balance >= MinimalFee
  /\ LET amount == Minus(balance, form.fee + NodeFee)
         donation == DonationOfAll(amount)
     IN Fill(IF form.donate
             THEN SetDonation(SetAmount(form, Minus(amount, donation)), Held(donation))
             ELSE SetAmount(form, amount))

ClearAll == Fill(Cleared(form))

(* reset(), when close() has waited for the mutex; the next wallet has a   *)
(* balance of its own.                                                     *)
WalletClosed ==
  /\ gui = "form" /\ ~busy /\ Event
  /\ FormBecomes(AmountChanged([form EXCEPT !.selected = 0, !.sendAll = TRUE]))
  /\ balance' \in Balances
  /\ UNCHANGED <<assumed, dialogs, library>>

-----------------------------------------------------------------------------
(* sendClicked().                                                          *)

(* Mutant: the fee is not deducted from the balance.                       *)
CoveredWithoutFee(transfers, fee) == Total(transfers) % Modulus <= balance

Covered(transfers, fee) == Total(transfers) % Modulus <= Minus(balance, fee)

(* The transfers, the donation's and the node's among them.                *)
Transfers(f) ==
  f.transfers \o (IF f.donate THEN <<f.donation>> ELSE <<>>)
              \o (IF NodeFee > 0 THEN <<NodeFee>> ELSE <<>>)

(* The slot that is called for every amount would change nothing.          *)
Settled ==
  /\ form.total = Total(form.transfers) % Modulus
  /\ form.donation = DonationOf(Total(form.transfers))

(* Up to the first dialog: amounts are brought up to date, the transfers   *)
(* read, and amounts recalculated once more.                               *)
ClickSend ==
  /\ gui = "form" /\ Event
  /\ "undisturbed" \in assumed => ~busy /\ done = <<>>
  /\ "settled" \in assumed => Settled
  /\ "fee_covered" \in assumed => form.fee <= balance
  /\ "sum_fits" \in assumed => Total(Transfers(form)) < Modulus
  /\ LET f == AmountChanged(form)
         transfers == Transfers(f)
         valid == balance > MinimalFee /\ \A i \in DOMAIN f.transfers : f.transfers[i] # 0
     IN IF valid /\ f.fee >= MinimalFee /\ Covered(transfers, f.fee)
        THEN /\ form' = RecalculateIfSelected(f)
             /\ sending' = [transfers |-> transfers, total |-> Total(f.transfers),
                            fee |-> f.fee, selected |-> f.selected]
             /\ gui' = "password"
        ELSE /\ form' = IF valid THEN RecalculateIfSelected(f) ELSE f
             /\ UNCHANGED <<gui, sending>>
  /\ UNCHANGED <<assumed, balance, shown, sent, library>>

(* tryOpen() waits for the wallet's mutex; the confirmation then shows     *)
(* m_totalAmount and the payment ID.                                       *)
EnterPassword ==
  /\ gui = "password" /\ ~busy
  /\ gui' = "confirm"
  /\ shown' = [total |-> form.total, paymentId |-> form.paymentId]
  /\ UNCHANGED <<assumed, balance, form, sending, sent, library, events>>

Cancel ==
  /\ gui \in {"password", "confirm"}
  /\ gui' = "form" /\ sending' = None /\ shown' = None
  /\ UNCHANGED <<assumed, balance, form, sent, library, events>>

(* The selected outputs and the payment ID are read from the form now.  A  *)
(* wallet that refuses at once is unlocked at once.                        *)
Confirm ==
  /\ gui = "confirm"
  /\ gui' = "form" /\ sending' = None /\ shown' = None
  /\ sent' = [asked |-> sending, shown |-> shown,
              selected |-> form.selected, paymentId |-> form.paymentId,
              balance |-> balance]
  /\ busy' \in BOOLEAN
  /\ UNCHANGED <<assumed, balance, form, done, events>>

-----------------------------------------------------------------------------
(* What is queued, and what happens outside.                               *)

Posted ==
  /\ form.posted
  /\ form' = AmountChanged([form EXCEPT !.posted = FALSE])
  /\ UNCHANGED <<assumed, balance, dialogs, library, events>>

(* What a transaction costs, its fee included.                             *)
Cost(tx) == Total(tx.asked.transfers) + tx.asked.fee

(* The library ends the transaction: the outputs it spent, which are worth *)
(* its cost at least, are gone from the balance; or it failed.             *)
LibraryDone ==
  /\ busy
  /\ busy' = FALSE
  /\ \/ done' = Append(done, TRUE)
        /\ balance' \in {b \in Balances : b + Cost(sent) <= balance}
     \/ done' = Append(done, FALSE) /\ UNCHANGED balance
  /\ UNCHANGED <<assumed, form, dialogs, events>>

(* The balance rises: money comes, or change of an earlier transaction.    *)
(* The slot, walletActualBalanceUpdated(), only asks for the dust.         *)
Received ==
  /\ Event
  /\ balance' \in {b \in Balances : b > balance}
  /\ UNCHANGED <<assumed, form, dialogs, library>>

(* sendTransactionCompleted().                                             *)
OnCompleted ==
  /\ done # <<>>
  /\ done' = Tail(done)
  /\ form' = IF Head(done) THEN Cleared(form) ELSE form
  /\ UNCHANGED <<assumed, balance, dialogs, busy, events>>

PaymentRequest ==
  /\ Event
  /\ "undisturbed" \in assumed => gui = "form"
  /\ \E a \in Amounts, id \in Ids \union {"none"} :
       /\ a # 0 => LeftAlone
       /\ FormBecomes(Requested(form, a, id))
  /\ UNCHANGED <<assumed, balance, dialogs, library>>

UserStep == EditAmount \/ AddRecipient \/ RemoveRecipient \/ SetPaymentId \/ SetFee
            \/ ToggleDonate \/ EditDonation \/ SelectOutputs \/ SendAll \/ ClearAll
            \/ WalletClosed \/ ClickSend

Next == UserStep \/ EnterPassword \/ Cancel \/ Confirm \/ Posted \/ LibraryDone
        \/ Received \/ OnCompleted \/ PaymentRequest

Spec == Init /\ [][Next]_vars

(* The event loop handles what is queued.                                  *)
FairSpec == Spec /\ WF_vars(Posted)

-----------------------------------------------------------------------------
(* Every part of the form has a value of its type: the first recipient is  *)
(* always there, and no amount is larger than the form can hold, whatever  *)
(* was computed.                                                           *)
TypeOK ==
  /\ balance \in Balances
  /\ form.transfers \in Seq(0..MaxSpin) /\ Len(form.transfers) \in 1..2
  /\ form.selected \in Coins \union {0} /\ form.fee \in Nat
  /\ form.donation \in Nat /\ form.total \in 0..(Modulus - 1)
  /\ form.paymentId \in Ids \union {"none"}
  /\ {form.manual, form.donate, form.sendAll, form.posted, busy} \subseteq BOOLEAN
  /\ gui \in {"form", "password", "confirm"} /\ done \in Seq(BOOLEAN) /\ events \in Nat

(* The assumptions in force are those the property relies on.              *)
Given == Discipline \subseteq assumed

(* What is sent is what the user has confirmed: the total shown is that of *)
(* the recipients, and the payment ID shown, or its absence, is the one    *)
(* that is sent.                                                           *)
SentAsConfirmed ==
  Given /\ sent # None =>
    /\ sent.paymentId = sent.shown.paymentId
    /\ sent.asked.total = sent.shown.total

(* By how much transfers and fee exceed the selected outputs.              *)
Excess(tx) == Cost(tx) - tx.selected

(* With selected outputs, which are the ones the transfers were computed   *)
(* for, transfers and fee come as near to them as the form can hold the    *)
(* amount, and add up to them when it holds every amount.                  *)
OutputsMatch ==
  Given /\ sent # None =>
    /\ sent.selected = sent.asked.selected
    /\ sent.selected > 0 => 2 * Excess(sent) \in -Grain..Grain
    /\ sent.selected \in 1..Exact => Excess(sent) = 0

(* What the prerequisites of WalletAdapter::sendTransaction() say:         *)
(* transfers and fee match the selected outputs, whatever those are worth. *)
OutputsExact ==
  Given /\ sent # None => (sent.selected > 0 => Excess(sent) = 0)

(* What is sent is covered by the balance there is when it is sent, which  *)
(* is not the one that was asked for when Send was clicked.                *)
BalanceCovers ==
  Given /\ sent # None => Cost(sent) <= sent.balance

(* A donation from selected outputs is the Share-th part of the amount     *)
(* when the form has come to rest, and it does.                            *)
DonationIsShare ==
  []<>(form.selected > 0 /\ form.donate =>
         form.donation = DonationOf(Total(form.transfers)))
=============================================================================
