--------------------------- MODULE SendFrameProofs ---------------------------
(***************************************************************************)
(* Theorems about SendFrame, for any amounts, fees, balances and number of *)
(* events: what is computed has its type, and under the assumptions what   *)
(* is sent is what was confirmed, matches the selected outputs as nearly   *)
(* as the form can hold the amount, and is covered.  The slots that compute the form are operators from form to    *)
(* form: the lemmas say what each of them keeps (FormOk), and that the     *)
(* first amount is what selected outputs, fees and donation leave (Fitted).*)
(***************************************************************************)
EXTENDS SendFrame, TLAPS

-----------------------------------------------------------------------------
(* The arithmetic of the form.                                             *)
LEMMA Numbers ==
  /\ Modulus \in Nat \ {0} /\ MaxSpin \in Nat /\ MaxSpin < Modulus /\ NodeFee \in Nat
  /\ MinimalFee \in Nat \ {0} /\ Share \in Nat \ {0} /\ Cent \in Nat \ {0}
  /\ Grain \in Nat \ {0} /\ Exact \in Nat
  /\ Coins \subseteq Nat \ {0} /\ Amounts \subseteq Nat /\ Fees \subseteq Nat
  /\ Balances \subseteq 0..(Modulus - 1) /\ Balances \subseteq Nat
  BY SendAssumption DEF SendAssumption

LEMMA Wraps ==
  ASSUME NEW a \in Int
  PROVE  /\ a % Modulus \in 0..(Modulus - 1)
         /\ a \in 0..(Modulus - 1) => a % Modulus = a
         /\ a >= 0 => a % Modulus <= a
  BY Numbers

(* What the form holds of an amount is near it, and the amount itself up   *)
(* to Exact; no more than the form can hold.                               *)
LEMMA HeldNear ==
  ASSUME NEW a \in Nat
  PROVE  /\ Held(a) \in Nat /\ 2 * (Held(a) - a) \in -Grain..Grain
         /\ a <= Exact => Held(a) = a
<1> DEFINE over == a % Grain
<1>1. over \in 0..(Grain - 1) /\ over <= a
  BY Numbers
<1>2. Grain \in Nat \ {0} /\ Exact \in Nat
  BY Numbers
<1>3. Held(a) = IF a <= Exact THEN a ELSE IF 2 * over < Grain THEN a - over ELSE a - over + Grain
  BY DEF Held
<1> HIDE DEF over
<1> QED
  BY <1>1, <1>2, <1>3

LEMMA SpinNear ==
  ASSUME NEW a \in Nat
  PROVE  /\ Spin(a) \in 0..MaxSpin
         /\ a <= MaxSpin => 2 * (Spin(a) - a) \in -Grain..Grain
         /\ a <= MaxSpin /\ a <= Exact => Spin(a) = a
<1>1. MaxSpin \in Nat /\ Grain \in Nat
  BY Numbers
<1> QED
  BY <1>1, HeldNear DEF Spin

LEMMA DonationType ==
  ASSUME NEW a \in Nat
  PROVE  DonationOf(a) \in Nat /\ DonationOfAll(a) \in Nat
<1>1. Share * MinimalFee \in Nat /\ Share * Cent \in Nat \ {0}
  BY Numbers
<1>2. ASSUME NEW b \in Nat PROVE Rounded(b) \in Nat
  <2> DEFINE c == Share * Cent
  <2>1. 2 * b + c \in Nat /\ 2 * c \in Nat \ {0}
    BY <1>1
  <2>2. (2 * b + c) \div (2 * c) \in Nat
    <3> HIDE DEF c
    <3> QED
      BY <2>1
  <2>3. 2 * Share * Cent = 2 * c
    BY Numbers
  <2> QED
    BY <2>2, <2>3, Numbers DEF Rounded
<1>3. DonationOf(a) \in Nat
  <2> DEFINE b == IF a < Share * MinimalFee THEN Share * MinimalFee ELSE a
  <2>1. b \in Nat
    BY <1>1
  <2>2. Rounded(b) \in Nat
    BY <1>2, <2>1
  <2>3. DonationOf(a) = Held(Rounded(b))
    BY DEF DonationOf
  <2> QED
    BY <2>2, <2>3, HeldNear
<1>4. DonationOfAll(a) \in Nat
  BY <1>2, Numbers DEF DonationOfAll
<1> QED
  BY <1>3, <1>4

(* The sum of up to four amounts.                                          *)
Sum(f, s) == f = [n \in 0..Len(s) |-> IF n = 0 THEN 0 ELSE f[n - 1] + s[n]]

LEMMA TotalIs ==
  ASSUME NEW s \in Seq(Nat), Len(s) \in 0..4
  PROVE  /\ Len(s) = 0 => Total(s) = 0
         /\ Len(s) = 1 => Total(s) = s[1]
         /\ Len(s) = 2 => Total(s) = s[1] + s[2]
         /\ Len(s) = 3 => Total(s) = s[1] + s[2] + s[3]
         /\ Len(s) = 4 => Total(s) = s[1] + s[2] + s[3] + s[4]
<1> DEFINE N == Len(s)
           g == [n \in 0..N |-> IF n = 0 THEN 0
                                ELSE IF n = 1 THEN s[1]
                                ELSE IF n = 2 THEN s[1] + s[2]
                                ELSE IF n = 3 THEN s[1] + s[2] + s[3]
                                ELSE s[1] + s[2] + s[3] + s[4]]
           h == [n \in 0..N |-> IF n = 0 THEN 0 ELSE g[n - 1] + s[n]]
<1>0. Len(s) \in Nat /\ DOMAIN s = 1..Len(s) /\ \A n \in DOMAIN s : s[n] \in Nat
  OBVIOUS
<1>a. N \in 0..4
  BY <1>0
<1>b. \A n \in 1..N : s[n] \in Nat
  BY <1>0
<1>1. N \in 0..4 /\ \A n \in 1..N : s[n] \in Nat
  BY <1>a, <1>b
<1>2. \A n \in 0..N : g[n] = h[n]
  <2> SUFFICES ASSUME NEW n \in 0..N PROVE g[n] = h[n]
    OBVIOUS
  <2>1. CASE n = 0
    BY <2>1
  <2>2. CASE n = 1
    BY <1>1, <2>2
  <2>3. CASE n = 2
    BY <1>1, <2>3
  <2>4. CASE n = 3
    BY <1>1, <2>4
  <2>5. CASE n = 4
    BY <1>1, <2>5
  <2>6. n \in {0, 1, 2, 3, 4}
    <3> HIDE DEF g, h, N
    <3> QED
      BY <1>1
  <2> QED
    BY <2>1, <2>2, <2>3, <2>4, <2>5, <2>6
<1>3. Sum(g, s)
  <2>1. g = h
    BY <1>2
  <2> QED
    BY <2>1 DEF Sum
<1> DEFINE f == CHOOSE x : Sum(x, s)
<1>4. Sum(f, s)
  BY <1>3
<1>5. Total(s) = f[N]
  BY DEF Total, Sum
<1> HIDE DEF f, g, h, N
<1>6. f[0] = 0 /\ \A n \in 1..N : f[n] = f[n - 1] + s[n]
  <2>1. f = [n \in 0..N |-> IF n = 0 THEN 0 ELSE f[n - 1] + s[n]]
    BY <1>4 DEF Sum, N
  <2>2. \A n \in 0..N : f[n] = IF n = 0 THEN 0 ELSE f[n - 1] + s[n]
    BY <2>1
  <2>3. 0 \in 0..N /\ \A n \in 1..N : n \in 0..N /\ n # 0
    BY <1>1
  <2> QED
    BY <2>2, <2>3
<1>7. N >= 1 => f[1] = s[1]
  BY <1>1, <1>6
<1>8. N >= 2 => f[2] = s[1] + s[2]
  BY <1>1, <1>6, <1>7
<1>9. N >= 3 => f[3] = s[1] + s[2] + s[3]
  BY <1>1, <1>6, <1>8
<1>10. N >= 4 => f[4] = s[1] + s[2] + s[3] + s[4]
  BY <1>1, <1>6, <1>9
<1> SUFFICES /\ N = 0 => f[N] = 0
             /\ N = 1 => f[N] = s[1]
             /\ N = 2 => f[N] = s[1] + s[2]
             /\ N = 3 => f[N] = s[1] + s[2] + s[3]
             /\ N = 4 => f[N] = s[1] + s[2] + s[3] + s[4]
  BY <1>5 DEF N
<1> QED
  BY <1>6, <1>7, <1>8, <1>9, <1>10

-----------------------------------------------------------------------------
(* What the slots make of a form.                                          *)
Forms == [transfers : Seq(0..MaxSpin), selected : Coins \union {0}, fee : Nat,
          manual : BOOLEAN, donate : BOOLEAN, donation : Nat, total : 0..(Modulus - 1),
          paymentId : Ids \union {"none"}, sendAll : BOOLEAN, posted : BOOLEAN]

FormOk(f) == f \in Forms /\ Len(f.transfers) \in 1..2

LEMMA Element == ASSUME NEW S, NEW s \in Seq(S), NEW i \in DOMAIN s PROVE s[i] \in S
  OBVIOUS

LEMMA Fields ==
  ASSUME NEW f, FormOk(f)
  PROVE  /\ f.selected \in Nat /\ f.fee \in Nat /\ f.donation \in Nat /\ f.donate \in BOOLEAN
         /\ f.transfers \in Seq(0..MaxSpin) /\ 1 \in DOMAIN f.transfers
         /\ f.transfers[1] \in 0..MaxSpin
<1>1. f.selected \in Coins \union {0} /\ f.transfers \in Seq(0..MaxSpin)
      /\ Len(f.transfers) \in 1..2 /\ f.fee \in Nat /\ f.donation \in Nat
      /\ f.donate \in BOOLEAN
  BY DEF FormOk, Forms
<1>2. f.selected \in Nat
  <2>1. \A x \in Coins \union {0} : x \in Nat
    BY Numbers
  <2> QED
    BY <1>1, <2>1
<1>3. 1 \in DOMAIN f.transfers
  BY <1>1
<1>4. f.transfers[1] \in 0..MaxSpin
  BY <1>1, <1>3, Element
<1> QED
  BY <1>1, <1>2, <1>3, <1>4

(* A form with its first amount changed.                                   *)
LEMMA SetAmountKeeps ==
  ASSUME NEW f, FormOk(f), NEW a \in Nat
  PROVE  LET g == SetAmount(f, a)
         IN /\ FormOk(g)
            /\ g.transfers = [f.transfers EXCEPT ![1] = Spin(a)]
            /\ Len(g.transfers) = Len(f.transfers) /\ g.transfers[1] = Spin(a)
            /\ g.selected = f.selected /\ g.fee = f.fee /\ g.donate = f.donate
            /\ g.donation = f.donation /\ g.total = f.total
            /\ f.transfers[1] = Spin(a) => g = f
<1> DEFINE ts == [f.transfers EXCEPT ![1] = Spin(a)]
<1>1. Spin(a) \in 0..MaxSpin
  BY SpinNear
<1>2. f.transfers \in Seq(0..MaxSpin) /\ 1 \in DOMAIN f.transfers
  BY DEF FormOk, Forms
<1>3. ts \in Seq(0..MaxSpin) /\ Len(ts) = Len(f.transfers)
  BY <1>1, <1>2
<1>4. f.transfers[1] = Spin(a) => ts = f.transfers
  BY <1>2
<1>5. CASE f.transfers[1] = Spin(a)
  BY <1>4, <1>5 DEF SetAmount
<1>7. ts[1] = Spin(a)
  BY <1>2
<1>6. CASE f.transfers[1] # Spin(a)
  <2>1. SetAmount(f, a) = [f EXCEPT !.transfers = ts, !.posted = TRUE]
    BY <1>6 DEF SetAmount, FormOk, Forms
  <2> HIDE DEF ts
  <2>2. FormOk([f EXCEPT !.transfers = ts, !.posted = TRUE])
    BY <1>3 DEF FormOk, Forms
  <2> QED
    BY <1>3, <1>6, <1>7, <2>1, <2>2 DEF FormOk, Forms, ts
<1> QED
  BY <1>5, <1>6

(* What the selected outputs leave.                                        *)
Rest(f) == f.selected - (f.fee + NodeFee)

LEMMA RecalculateKeeps ==
  ASSUME NEW f, FormOk(f)
  PROVE  LET g == Recalculate(f)
         IN /\ FormOk(g)
            /\ g.selected = f.selected /\ g.fee = f.fee /\ g.donate = f.donate
            /\ Len(g.transfers) = Len(f.transfers)
<1> DEFINE rest == Rest(f)
           donation == IF f.donate /\ f.donation >= rest THEN MinimalFee ELSE f.donation
           d == [f EXCEPT !.donation = donation]
           amount == IF f.donate THEN Minus(rest, donation) ELSE rest
<1>1. rest \in Int /\ donation \in Nat
  BY Numbers, Fields DEF Rest
<1>2. FormOk(d) /\ d.selected = f.selected /\ d.fee = f.fee /\ d.donate = f.donate
      /\ d.transfers = f.transfers
  <2> HIDE DEF donation
  <2> QED
    BY <1>1 DEF FormOk, Forms
<1>3. CASE rest <= 0
  BY <1>3 DEF Recalculate, Rest
<1>4. CASE ~(rest <= 0)
  <2>1. Recalculate(f) = SetAmount(d, amount)
    BY <1>4 DEF Recalculate, Rest
  <2>2. amount \in Nat
    <3>1. rest - donation \in Int
      BY <1>1
    <3>2. Minus(rest, donation) \in Nat
      BY <3>1, Wraps DEF Minus
    <3> QED
      BY <1>1, <1>4, <3>2
  <2> HIDE DEF d, amount
  <2> QED
    <3> DEFINE g == SetAmount(d, amount)
    <3>1. /\ FormOk(g) /\ g.selected = d.selected /\ g.fee = d.fee /\ g.donate = d.donate
          /\ Len(g.transfers) = Len(d.transfers)
      BY <1>2, <2>2, SetAmountKeeps
    <3> QED
      BY <1>2, <2>1, <3>1
<1> QED
  BY <1>3, <1>4

LEMMA SetDonationKeeps ==
  ASSUME NEW f, FormOk(f), NEW a \in Nat
  PROVE  LET g == SetDonation(f, a)
         IN /\ FormOk(g)
            /\ g.selected = f.selected /\ g.fee = f.fee /\ g.donate = f.donate
            /\ Len(g.transfers) = Len(f.transfers)
<1> DEFINE g == [f EXCEPT !.donation = a]
           m == [g EXCEPT !.donation = MinimalFee]
<1>1. /\ FormOk(g) /\ g.selected = f.selected /\ g.fee = f.fee /\ g.donate = f.donate
      /\ g.transfers = f.transfers
  BY DEF FormOk, Forms
<1>2. /\ FormOk(m) /\ m.selected = f.selected /\ m.fee = f.fee /\ m.donate = f.donate
      /\ m.transfers = f.transfers
  BY Numbers DEF FormOk, Forms
<1>3. SetDonation(f, a) \in {f, g, Recalculate(g), Recalculate(m)}
  BY DEF SetDonation
<1> HIDE DEF g, m
<1> QED
  BY <1>1, <1>2, <1>3, RecalculateKeeps

(* Every amount counts in the total.                                       *)
LEMMA TotalType ==
  ASSUME NEW s \in Seq(0..MaxSpin), Len(s) \in 0..2
  PROVE  Total(s) \in Nat
<1>1. s \in Seq(Nat) /\ Len(s) \in 0..4 /\ \A i \in 1..Len(s) : s[i] \in Nat
  BY Numbers
<1> QED
  BY <1>1, TotalIs

LEMMA AmountChangedKeeps ==
  ASSUME NEW f, f \in Forms, Len(f.transfers) \in 1..2
  PROVE  LET g == AmountChanged(f)
         IN /\ FormOk(g)
            /\ g.selected = f.selected /\ g.fee = f.fee /\ g.donate = f.donate
            /\ Len(g.transfers) = Len(f.transfers)
<1> DEFINE total == Total(f.transfers)
           t == [f EXCEPT !.total = total % Modulus]
<1>1. total \in Nat
  BY TotalType DEF Forms
<1>2. DonationOf(total) \in Nat /\ total % Modulus \in 0..(Modulus - 1)
  BY <1>1, DonationType, Wraps
<1>3. /\ FormOk(t) /\ t.selected = f.selected /\ t.fee = f.fee /\ t.donate = f.donate
      /\ t.transfers = f.transfers
  <2> HIDE DEF total
  <2> QED
    BY <1>2 DEF FormOk, Forms
<1>4. AmountChanged(f) = SetDonation(t, DonationOf(total))
  BY DEF AmountChanged
<1> HIDE DEF t, total
<1> QED
  BY <1>2, <1>3, <1>4, SetDonationKeeps

LEMMA AddRecipientKeeps ==
  ASSUME NEW f, f \in Forms, Len(f.transfers) \in 0..1
  PROVE  LET g == AddRecipientTo(f)
         IN FormOk(g) /\ g.selected = f.selected /\ g.fee = f.fee
<1> DEFINE a == [f EXCEPT !.transfers = Append(@, 0), !.sendAll = (f.transfers = <<>>)]
<1>1. Append(f.transfers, 0) \in Seq(0..MaxSpin)
      /\ Len(Append(f.transfers, 0)) = Len(f.transfers) + 1
  BY Numbers DEF Forms
<1>2. (f.transfers = <<>>) \in BOOLEAN
  OBVIOUS
<1>3. a \in Forms /\ Len(a.transfers) \in 1..2 /\ a.selected = f.selected /\ a.fee = f.fee
  <2> DEFINE ts == Append(f.transfers, 0)
             all == (f.transfers = <<>>)
  <2>4. \A n \in 0..1 : n + 1 \in 1..2
    OBVIOUS
  <2>1. ts \in Seq(0..MaxSpin) /\ Len(ts) \in 1..2
    BY <1>1, <2>4
  <2>3. all \in BOOLEAN
    BY <1>2
  <2> HIDE DEF ts, all
  <2>2. a = [f EXCEPT !.transfers = ts, !.sendAll = all]
    BY DEF ts, all, Forms
  <2> HIDE DEF a
  <2> QED
    BY <2>1, <2>2, <2>3 DEF Forms
<1>4. AddRecipientTo(f) = AmountChanged(a)
  BY DEF AddRecipientTo
<1> HIDE DEF a
<1> QED
  BY <1>3, <1>4, AmountChangedKeeps

LEMMA ClearedKeeps ==
  ASSUME NEW f, FormOk(f)
  PROVE  FormOk(Cleared(f)) /\ Cleared(f).selected = 0
<1> DEFINE c == [f EXCEPT !.transfers = <<>>, !.selected = 0, !.paymentId = "none",
                          !.fee = IF f.manual THEN @ ELSE 2 * MinimalFee]
<1>1. c \in Forms /\ Len(c.transfers) \in 0..1 /\ c.selected = 0
  <2>1. (IF f.manual THEN f.fee ELSE 2 * MinimalFee) \in Nat
    BY Numbers DEF FormOk, Forms
  <2>2. <<>> \in Seq(0..MaxSpin) /\ Len(<<>>) = 0
    OBVIOUS
  <2> QED
    <3> DEFINE fee == IF f.manual THEN f.fee ELSE 2 * MinimalFee
    <3>1. fee \in Nat
      BY <2>1
    <3>2. c = [f EXCEPT !.transfers = <<>>, !.selected = 0, !.paymentId = "none", !.fee = fee]
      BY DEF FormOk, Forms
    <3> HIDE DEF fee, c
    <3>3. c \in Forms
      BY <2>2, <3>1, <3>2 DEF FormOk, Forms
    <3>4. c.transfers = <<>> /\ c.selected = 0
      BY <3>2 DEF FormOk, Forms
    <3> QED
      BY <2>2, <3>3, <3>4
<1>2. Cleared(f) = AmountChanged(AddRecipientTo(c))
  BY DEF Cleared
<1> HIDE DEF c
<1>3. FormOk(AddRecipientTo(c)) /\ AddRecipientTo(c).selected = 0
  BY <1>1, AddRecipientKeeps
<1> QED
  BY <1>2, <1>3, AmountChangedKeeps DEF FormOk

LEMMA RequestedKeeps ==
  ASSUME NEW f, FormOk(f), NEW a \in Nat, NEW id \in Ids \union {"none"}
  PROVE  LET g == Requested(f, a, id)
         IN FormOk(g) /\ g.selected = f.selected /\ g.fee = f.fee
<1> DEFINE g == IF a = 0 THEN f ELSE SetAmount(f, a)
           p == IF id = "none" THEN g.paymentId ELSE id
<1>1. FormOk(g) /\ g.selected = f.selected /\ g.fee = f.fee
  BY SetAmountKeeps
<1>2. Requested(f, a, id) = [g EXCEPT !.paymentId = p]
  BY <1>1 DEF Requested, FormOk, Forms
<1> HIDE DEF g
<1>3. p \in Ids \union {"none"}
  BY <1>1 DEF FormOk, Forms
<1> HIDE DEF p
<1> QED
  BY <1>1, <1>2, <1>3 DEF FormOk, Forms

LEMMA RecalculateIfKeeps ==
  ASSUME NEW f, FormOk(f)
  PROVE  LET g == RecalculateIfSelected(f)
         IN /\ FormOk(g)
            /\ g.selected = f.selected /\ g.fee = f.fee /\ g.donate = f.donate
            /\ Len(g.transfers) = Len(f.transfers)
  BY RecalculateKeeps DEF RecalculateIfSelected

-----------------------------------------------------------------------------
(* Every variable keeps its type.                                          *)
TInv ==
  /\ assumed \in Cases /\ balance \in Balances /\ FormOk(form)
  /\ gui \in {"form", "password", "confirm"} /\ busy \in BOOLEAN
  /\ done \in Seq(BOOLEAN) /\ events \in Nat

LEMMA InitType == Init => TInv
<1> SUFFICES ASSUME Init PROVE TInv
  OBVIOUS
<1>1. <<0>> \in Seq(0..MaxSpin) /\ Len(<<0>>) \in 1..2
  BY Numbers
<1>2. /\ 2 * MinimalFee \in Nat /\ DonationOf(0) \in Nat /\ 0 \in 0..(Modulus - 1)
      /\ 0 \in Coins \union {0} /\ "none" \in Ids \union {"none"} /\ <<>> \in Seq(BOOLEAN)
  BY Numbers, DonationType
<1>3. FormOk(form)
  BY <1>1, <1>2 DEF Init, FormOk, Forms
<1> QED
  BY <1>2, <1>3 DEF Init, TInv

LEMMA NextType == TInv /\ [Next]_vars => TInv'
<1> SUFFICES ASSUME TInv, [Next]_vars PROVE TInv'
  OBVIOUS
<1> USE DEF TInv, dialogs, library
<1>f. form \in Forms /\ Len(form.transfers) \in 1..2 /\ FormOk(form)
  BY DEF FormOk
<1>e. Event => events' \in Nat
  BY DEF Event
<1>b. ASSUME NEW f, Fill(f), FormOk(f) PROVE TInv'
  <2>1. form' = f /\ events' \in Nat /\ gui' = gui /\ done' = done /\ busy' = busy
        /\ assumed' = assumed /\ balance' = balance
    BY <1>b, <1>e DEF Fill, FormBecomes
  <2> QED
    BY <2>1, <1>b
<1>a. \A a \in Amounts : a \in Nat /\ Spin(a) \in 0..MaxSpin /\ Held(a) \in Nat
  BY Numbers, SpinNear, HeldNear
<1>1. CASE EditAmount
  <2>1. PICK i \in DOMAIN form.transfers, a \in Amounts :
          Fill([form EXCEPT !.transfers[i] = Spin(a), !.posted = TRUE])
    BY <1>1 DEF EditAmount
  <2> DEFINE ts == [form.transfers EXCEPT ![i] = Spin(a)]
  <2>2. ts \in Seq(0..MaxSpin) /\ Len(ts) = Len(form.transfers)
    BY <1>f, <1>a DEF Forms
  <2>3. [form EXCEPT !.transfers[i] = Spin(a), !.posted = TRUE]
          = [form EXCEPT !.transfers = ts, !.posted = TRUE]
    BY <1>f DEF Forms
  <2> HIDE DEF ts
  <2>4. FormOk([form EXCEPT !.transfers = ts, !.posted = TRUE])
    BY <1>f, <2>2 DEF FormOk, Forms
  <2> QED
    BY <1>b, <2>1, <2>3, <2>4
<1>2. CASE AddRecipient
  <2>1. Len(form.transfers) \in 0..1 /\ Fill(AddRecipientTo(form))
    BY <1>2, <1>f, SMTT(60) DEF AddRecipient
  <2> QED
    BY <1>b, <1>f, <2>1, AddRecipientKeeps
<1>3. CASE RemoveRecipient
  <2>1. PICK i \in DOMAIN form.transfers :
          /\ Len(form.transfers) = 2
          /\ Fill([form EXCEPT !.transfers = <<@[3 - i]>>, !.sendAll = TRUE, !.posted = TRUE])
    BY <1>3 DEF RemoveRecipient
  <2>2. 3 - i \in DOMAIN form.transfers
    BY <1>f, <2>1 DEF Forms
  <2> DEFINE ts == <<form.transfers[3 - i]>>
  <2>3. ts \in Seq(0..MaxSpin) /\ Len(ts) \in 1..2
    <3>1. form.transfers[3 - i] \in 0..MaxSpin
      BY <2>2, <1>f, Fields, Element
    <3> QED
      BY <3>1
  <2>4. [form EXCEPT !.transfers = <<@[3 - i]>>, !.sendAll = TRUE, !.posted = TRUE]
          = [form EXCEPT !.transfers = ts, !.sendAll = TRUE, !.posted = TRUE]
    BY <1>f DEF Forms
  <2> HIDE DEF ts
  <2>5. FormOk([form EXCEPT !.transfers = ts, !.sendAll = TRUE, !.posted = TRUE])
    BY <1>f, <2>3 DEF FormOk, Forms
  <2> QED
    BY <1>b, <2>1, <2>4, <2>5
<1>4. CASE SetPaymentId
  <2>1. PICK id \in Ids \union {"none"} : Fill([form EXCEPT !.paymentId = id])
    BY <1>4 DEF SetPaymentId
  <2>2. FormOk([form EXCEPT !.paymentId = id])
    BY <1>f DEF FormOk, Forms
  <2> QED
    BY <1>b, <2>1, <2>2
<1>r. ASSUME NEW f, FormOk(f), Fill(RecalculateIfSelected(f)) PROVE TInv'
  BY <1>b, <1>r, RecalculateIfKeeps
<1>5. CASE SetFee
  <2>1. PICK fee \in Nat, manual \in BOOLEAN :
          Fill(RecalculateIfSelected([form EXCEPT !.fee = fee, !.manual = manual]))
    <3>1. \A k \in 1..4 : k * MinimalFee \in Nat
      BY Numbers
    <3>2. \A fee \in Fees : Held(fee) \in Nat
      BY Numbers, HeldNear
    <3> QED
      BY <1>5, <3>1, <3>2 DEF SetFee
  <2>2. FormOk([form EXCEPT !.fee = fee, !.manual = manual])
    BY <1>f DEF FormOk, Forms
  <2> QED
    BY <1>r, <2>1, <2>2
<1>6. CASE ToggleDonate
  <2>1. FormOk([form EXCEPT !.donate = ~@])
    BY <1>f DEF FormOk, Forms
  <2> QED
    BY <1>6, <1>r, <2>1 DEF ToggleDonate
<1>7. CASE EditDonation
  <2>1. PICK d \in Amounts : Fill(SetDonation(form, Held(d)))
    BY <1>7 DEF EditDonation
  <2> QED
    BY <1>a, <1>b, <1>f, <2>1, SetDonationKeeps
<1>8. CASE SelectOutputs
  <2>1. PICK coins \in Coins :
          Fill(Recalculate([form EXCEPT !.selected = coins, !.sendAll = FALSE]))
    BY <1>8 DEF SelectOutputs
  <2>2. FormOk([form EXCEPT !.selected = coins, !.sendAll = FALSE])
    BY <1>f DEF FormOk, Forms
  <2> QED
    BY <1>b, <2>1, <2>2, RecalculateKeeps
<1>9. CASE SendAll
  <2> DEFINE amount == Minus(balance, form.fee + NodeFee)
             donation == DonationOfAll(amount)
             less == Minus(amount, donation)
  <2>1. \/ Fill(SetDonation(SetAmount(form, less), Held(donation)))
        \/ Fill(SetAmount(form, amount))
    BY <1>9 DEF SendAll
  <2>2. amount \in Nat
    <3>1. balance - (form.fee + NodeFee) \in Int
      BY Numbers, <1>f, Fields
    <3> QED
      BY <3>1, Wraps DEF Minus
  <2>3. donation \in Nat /\ Held(donation) \in Nat
    BY <2>2, DonationType, HeldNear
  <2>4. less \in Nat
    <3> HIDE DEF amount, donation
    <3>1. amount - donation \in Int
      BY <2>2, <2>3
    <3> QED
      BY <3>1, Wraps DEF Minus
  <2> HIDE DEF amount, donation, less
  <2>5. FormOk(SetAmount(form, less)) /\ FormOk(SetAmount(form, amount))
    BY <1>f, <2>2, <2>4, SetAmountKeeps
  <2>6. FormOk(SetDonation(SetAmount(form, less), Held(donation)))
    BY <2>3, <2>5, SetDonationKeeps
  <2> QED
    BY <1>b, <2>1, <2>5, <2>6
<1>10. CASE ClearAll
  BY <1>10, <1>b, <1>f, ClearedKeeps DEF ClearAll
<1>11. CASE WalletClosed
  <2>1. LET f == [form EXCEPT !.selected = 0, !.sendAll = TRUE]
        IN f \in Forms /\ Len(f.transfers) \in 1..2
    BY <1>f DEF Forms
  <2>2. FormOk(form')
    BY <1>11, <2>1, AmountChangedKeeps DEF WalletClosed, FormBecomes
  <2> QED
    BY <1>11, <1>e, <2>2 DEF WalletClosed
<1>12. CASE ClickSend
  <2>1. FormOk(AmountChanged(form)) /\ FormOk(RecalculateIfSelected(AmountChanged(form)))
    BY <1>f, AmountChangedKeeps, RecalculateIfKeeps
  <2>2. FormOk(form')
    BY <1>12, <2>1 DEF ClickSend
  <2>3. gui' \in {"form", "password", "confirm"} /\ events' \in Nat
    BY <1>12, <1>e DEF ClickSend
  <2> QED
    BY <1>12, <2>2, <2>3 DEF ClickSend
<1>13. CASE EnterPassword
  BY <1>13 DEF EnterPassword
<1>14. CASE Cancel
  BY <1>14 DEF Cancel
<1>15. CASE Confirm
  BY <1>15 DEF Confirm
<1>16. CASE Posted
  <2>1. LET f == [form EXCEPT !.posted = FALSE] IN f \in Forms /\ Len(f.transfers) \in 1..2
    BY <1>f DEF Forms
  <2>2. FormOk(form')
    BY <1>16, <2>1, AmountChangedKeeps DEF Posted
  <2> QED
    BY <1>16, <2>2 DEF Posted
<1>17. CASE LibraryDone
  <2>1. done' \in Seq(BOOLEAN)
    <3>1. \E ok \in BOOLEAN : done' = Append(done, ok)
      BY <1>17 DEF LibraryDone
    <3> QED
      BY <3>1
  <2>2. balance' \in Balances
    BY <1>17 DEF LibraryDone
  <2> QED
    BY <1>17, <2>1, <2>2 DEF LibraryDone
<1>18. CASE OnCompleted
  <2>1. FormOk(form')
    BY <1>18, <1>f, ClearedKeeps DEF OnCompleted
  <2>2. done' \in Seq(BOOLEAN)
    <3>1. done # <<>> /\ done' = Tail(done)
      BY <1>18 DEF OnCompleted
    <3> QED
      BY <3>1
  <2> QED
    BY <1>18, <2>1, <2>2 DEF OnCompleted
<1>19. CASE PaymentRequest
  <2>1. PICK a \in Amounts, id \in Ids \union {"none"} : form' = Requested(form, a, id)
    BY <1>19 DEF PaymentRequest, FormBecomes
  <2>2. FormOk(form')
    BY <1>a, <1>f, <2>1, RequestedKeeps
  <2> QED
    BY <1>19, <1>e, <2>2 DEF PaymentRequest
<1>20. CASE Received
  BY <1>20, <1>e DEF Received
<1>21. CASE UNCHANGED vars
  BY <1>21 DEF vars
<1> QED
  BY <1>1, <1>2, <1>3, <1>4, <1>5, <1>6, <1>7, <1>8, <1>9, <1>10, <1>11, <1>12, <1>13, <1>14,
     <1>15, <1>16, <1>17, <1>18, <1>19, <1>20, <1>21 DEF Next, UserStep

(* The form keeps its type, and its recipients: one or two.                *)
THEOREM TypeInvariance == Spec => []TInv
  BY InitType, NextType, PTL DEF Spec

(* Every variable of the form keeps its type, whatever the user enters and *)
(* whatever is computed: the first recipient is always there, and no field *)
(* holds more than it can.                                                 *)
THEOREM TypeCorrect == Spec => []TypeOK
<1>1. TInv => TypeOK
  BY DEF TInv, TypeOK, FormOk, Forms
<1> QED
  BY <1>1, TypeInvariance, PTL

-----------------------------------------------------------------------------
(* With outputs selected the first amount is what the form holds of what   *)
(* they leave.                                                             *)
Room(f) ==
  f.selected > 0 =>
    Len(f.transfers) = 1 /\ Rest(f) > 2 * MinimalFee /\ f.selected <= MaxSpin

Fitted(f) ==
  /\ Room(f)
  /\ f.selected > 0 =>
       /\ f.donate => f.donation < Rest(f)
       /\ f.transfers[1] = Spin(Rest(f) - (IF f.donate THEN f.donation ELSE 0))

LEMMA Fits ==
  ASSUME NEW f, FormOk(f), Room(f), f.selected > 0
  PROVE  /\ Fitted(Recalculate(f))
         /\ Recalculate(f).total = f.total
         /\ Fitted(f) => Recalculate(f) = f
<1> DEFINE rest == Rest(f)
           donation == IF f.donate /\ f.donation >= rest THEN MinimalFee ELSE f.donation
           d == [f EXCEPT !.donation = donation]
           amount == IF f.donate THEN Minus(rest, donation) ELSE rest
<1>0. Recalculate(f) = IF rest <= 0 THEN f ELSE SetAmount(d, amount)
  BY DEF Recalculate, Rest
<1>a. /\ f.selected \in Nat /\ f.fee \in Nat /\ f.donation \in Nat /\ f.donate \in BOOLEAN
      /\ NodeFee \in Nat /\ MinimalFee \in Nat /\ MaxSpin \in Nat
  BY Numbers, Fields
<1>b. rest \in Int /\ 2 * MinimalFee < rest /\ f.selected <= MaxSpin
  BY <1>a DEF Rest, Room
<1>c. rest \in Nat /\ rest <= f.selected /\ rest <= MaxSpin /\ ~(rest <= 0)
  <2>1. rest = f.selected - (f.fee + NodeFee)
    BY DEF Rest
  <2> HIDE DEF rest
  <2> QED
    BY <1>a, <1>b, <2>1
<1>1. rest \in Nat /\ donation \in Nat /\ 2 * MinimalFee < rest /\ rest <= f.selected
      /\ f.selected <= MaxSpin /\ ~(rest <= 0) /\ rest <= MaxSpin /\ f.selected \in Nat
  <2> HIDE DEF rest
  <2> QED
    BY <1>a, <1>b, <1>c
<1>2. f.donate => donation < rest
  BY <1>1, Numbers, Fields
<1>3. amount = rest - (IF f.donate THEN donation ELSE 0) /\ amount \in 0..MaxSpin
  <2> HIDE DEF rest, donation
  <2>1. CASE f.donate
    <3>1. rest - donation \in 0..(Modulus - 1) /\ rest - donation <= MaxSpin
      <4>1. rest \in Nat /\ donation \in Nat /\ donation < rest /\ rest <= MaxSpin
            /\ MaxSpin \in Nat /\ Modulus \in Nat /\ MaxSpin < Modulus
        BY <1>1, <1>2, <2>1, Numbers
      <4> QED
        BY ONLY <4>1
    <3>2. (rest - donation) % Modulus = rest - donation
      BY <3>1, Wraps
    <3> QED
      BY <2>1, <3>1, <3>2, Numbers DEF Minus
  <2>2. CASE ~f.donate
    <3>1. amount = rest /\ rest \in 0..MaxSpin /\ rest - 0 = rest
      BY <1>1, <2>2, Numbers
    <3> QED
      BY <2>2, <3>1
  <2> QED
    BY <2>1, <2>2
<1>4. /\ FormOk(d) /\ d.selected = f.selected /\ d.fee = f.fee /\ d.donate = f.donate
      /\ d.transfers = f.transfers /\ d.donation = donation /\ d.total = f.total
  <2> HIDE DEF donation
  <2> QED
    BY <1>1 DEF FormOk, Forms
<1>5. Fitted(f) => donation = f.donation /\ d = f /\ Spin(amount) = f.transfers[1]
  <2> SUFFICES ASSUME Fitted(f)
               PROVE  donation = f.donation /\ d = f /\ Spin(amount) = f.transfers[1]
    OBVIOUS
  <2>1. donation = f.donation
    BY <1>1, Fields DEF Fitted
  <2>2. d = f
    BY <2>1 DEF FormOk, Forms
  <2> QED
    BY <1>3, <2>1, <2>2 DEF Fitted
<1> DEFINE g == SetAmount(d, amount)
<1>6. Recalculate(f) = g
  BY <1>0, <1>1
<1> HIDE DEF d, amount, donation
<1>8. /\ g.transfers[1] = Spin(amount) /\ Len(g.transfers) = Len(f.transfers)
      /\ g.selected = f.selected /\ g.fee = f.fee /\ g.donate = f.donate
      /\ g.donation = donation /\ g.total = f.total
      /\ d.transfers[1] = Spin(amount) => g = d
  <2>1. amount \in Nat
    BY <1>3
  <2>2. /\ g.selected = d.selected /\ g.fee = d.fee /\ g.donate = d.donate
        /\ g.donation = d.donation /\ g.total = d.total
        /\ Len(g.transfers) = Len(d.transfers) /\ g.transfers[1] = Spin(amount)
        /\ d.transfers[1] = Spin(amount) => g = d
    BY <1>4, <2>1, SetAmountKeeps, ZenonT(60)
  <2> QED
    BY <1>4, <2>2
<1> HIDE DEF g
<1>9. Rest(g) = rest
  BY <1>8 DEF Rest
<1> HIDE DEF rest
<1>10. Fitted(g)
  <2>1. Room(g)
    BY <1>8, <1>9 DEF Room, rest
  <2>2. (g.donate => g.donation < Rest(g))
    BY <1>2, <1>8, <1>9
  <2>3. g.transfers[1] = Spin(Rest(g) - (IF g.donate THEN g.donation ELSE 0))
    BY <1>3, <1>8, <1>9
  <2> QED
    BY <2>1, <2>2, <2>3 DEF Fitted
<1> QED
  BY <1>4, <1>5, <1>6, <1>8, <1>10

LEMMA SetDonationFits ==
  ASSUME NEW f, FormOk(f), Fitted(f), NEW a \in Nat
  PROVE  Fitted(SetDonation(f, a))
<1> DEFINE g == [f EXCEPT !.donation = a]
           m == [g EXCEPT !.donation = MinimalFee]
<1>1. /\ FormOk(g) /\ g.selected = f.selected /\ g.fee = f.fee /\ g.donate = f.donate
      /\ g.transfers = f.transfers
  BY DEF FormOk, Forms
<1>2. /\ FormOk(m) /\ m.selected = f.selected /\ m.fee = f.fee /\ m.donate = f.donate
      /\ m.transfers = f.transfers
  BY Numbers DEF FormOk, Forms
<1>3. \/ SetDonation(f, a) = f
      \/ SetDonation(f, a) = g /\ (~f.donate \/ f.selected = 0)
      \/ SetDonation(f, a) \in {Recalculate(g), Recalculate(m)} /\ f.selected # 0
  BY DEF SetDonation
<1> HIDE DEF g, m
<1>4. Room(g) /\ Room(m)
  BY <1>1, <1>2 DEF Fitted, Room, Rest
<1>5. ~f.donate \/ f.selected = 0 => Fitted(g)
  BY <1>1, <1>4, Fields DEF Fitted, Rest
<1>6. f.selected # 0 => Fitted(Recalculate(g)) /\ Fitted(Recalculate(m))
  BY <1>1, <1>2, <1>4, Fits, Fields
<1> QED
  BY <1>3, <1>5, <1>6

LEMMA AmountChangedFits ==
  ASSUME NEW f, FormOk(f), Fitted(f)
  PROVE  Fitted(AmountChanged(f))
<1> DEFINE total == Total(f.transfers)
           t == [f EXCEPT !.total = total % Modulus]
<1>1. total \in Nat
  BY TotalType DEF FormOk, Forms
<1>2. DonationOf(total) \in Nat /\ total % Modulus \in 0..(Modulus - 1)
  BY <1>1, DonationType, Wraps
<1>3. /\ FormOk(t) /\ t.selected = f.selected /\ t.fee = f.fee /\ t.donate = f.donate
      /\ t.transfers = f.transfers /\ t.donation = f.donation
  <2> HIDE DEF total
  <2> QED
    BY <1>2 DEF FormOk, Forms
<1>4. AmountChanged(f) = SetDonation(t, DonationOf(total))
  BY DEF AmountChanged
<1> HIDE DEF t, total
<1>5. Fitted(t)
  BY <1>3 DEF Fitted, Room, Rest
<1> QED
  BY <1>2, <1>3, <1>4, <1>5, SetDonationFits

(* Total and donation are those of the amounts.                            *)
Right(f) ==
  f.total = Total(f.transfers) % Modulus /\ f.donation = DonationOf(Total(f.transfers))

LEMMA RightStays == ASSUME NEW f, FormOk(f), Right(f) PROVE AmountChanged(f) = f
<1> DEFINE t == [f EXCEPT !.total = Total(f.transfers) % Modulus]
<1>1. t = f
  BY DEF Right, FormOk, Forms
<1>2. AmountChanged(f) = SetDonation(t, DonationOf(Total(f.transfers)))
  BY DEF AmountChanged
<1> QED
  BY <1>1, <1>2 DEF SetDonation, Right

LEMMA Longer ==
  ASSUME NEW s \in Seq(Nat), NEW a \in Nat
  PROVE  s \o <<a>> = Append(s, a) /\ s \o <<>> = s
  OBVIOUS

LEMMA TotalAppend ==
  ASSUME NEW s \in Seq(Nat), Len(s) \in 1..3, NEW a \in Nat
  PROVE  /\ Append(s, a) \in Seq(Nat) /\ Len(Append(s, a)) = Len(s) + 1
         /\ Total(Append(s, a)) = Total(s) + a /\ Total(s) \in Nat
<1> DEFINE t == Append(s, a)
<1>1. t \in Seq(Nat) /\ Len(t) = Len(s) + 1 /\ t[Len(s) + 1] = a
  OBVIOUS
<1>2. \A i \in 1..Len(s) : t[i] = s[i] /\ s[i] \in Nat
  OBVIOUS
<1> HIDE DEF t
<1>3. CASE Len(s) = 1
  <2>1. t[1] = s[1] /\ t[2] = a /\ Len(t) = 2 /\ s[1] \in Nat
    BY <1>1, <1>2, <1>3
  <2>2. Total(s) = s[1]
    BY <1>3, TotalIs
  <2>3. Total(t) = s[1] + a
    BY <1>1, <2>1, TotalIs
  <2> QED
    BY <1>1, <2>1, <2>2, <2>3 DEF t
<1>4. CASE Len(s) = 2
  <2>1. t[1] = s[1] /\ t[2] = s[2] /\ t[3] = a /\ Len(t) = 3 /\ s[1] \in Nat /\ s[2] \in Nat
    BY <1>1, <1>2, <1>4
  <2>2. Total(s) = s[1] + s[2]
    BY <1>4, TotalIs
  <2>3. Total(t) = s[1] + s[2] + a
    BY <1>1, <2>1, TotalIs
  <2> QED
    BY <1>1, <2>1, <2>2, <2>3 DEF t
<1>5. CASE Len(s) = 3
  <2>1. /\ t[1] = s[1] /\ t[2] = s[2] /\ t[3] = s[3] /\ t[4] = a /\ Len(t) = 4
        /\ s[1] \in Nat /\ s[2] \in Nat /\ s[3] \in Nat
    BY <1>1, <1>2, <1>5
  <2>2. Total(s) = s[1] + s[2] + s[3]
    BY <1>5, TotalIs
  <2>3. Total(t) = s[1] + s[2] + s[3] + a
    BY <1>1, <2>1, TotalIs, SMTT(60)
  <2> QED
    BY <1>1, <2>1, <2>2, <2>3, SMTT(60) DEF t
<1> QED
  BY <1>3, <1>4, <1>5

(* The transfers of a form: the amounts, its donation and the node's fee.  *)
LEMMA TransfersTotal ==
  ASSUME NEW f, FormOk(f), Fitted(f)
  PROVE  /\ Total(f.transfers) \in Nat /\ Total(Transfers(f)) \in Nat
         /\ Total(f.transfers) <= Total(Transfers(f))
         /\ f.selected > 0 =>
              LET excess == Total(Transfers(f)) + f.fee - f.selected
              IN 2 * excess \in -Grain..Grain /\ (f.selected <= Exact => excess = 0)
<1> DEFINE ts == f.transfers
           n == Len(ts)
           donated == IF f.donate THEN <<f.donation>> ELSE <<>>
           node == IF NodeFee > 0 THEN <<NodeFee>> ELSE <<>>
           all == (ts \o donated) \o node
           x == Rest(f) - (IF f.donate THEN f.donation ELSE 0)
<1>1. /\ ts \in Seq(Nat) /\ n \in 1..2 /\ \A i \in 1..n : ts[i] \in Nat
      /\ f.donation \in Nat /\ f.fee \in Nat /\ f.selected \in Nat /\ f.donate \in BOOLEAN
  <2>1. ts \in Seq(0..MaxSpin) /\ n \in 1..2
    BY DEF FormOk, Forms
  <2>2. ts \in Seq(Nat)
    BY <2>1, Numbers
  <2>3. \A i \in 1..n : ts[i] \in Nat
    BY <2>1, <2>2
  <2> QED
    BY <2>1, <2>2, <2>3, Fields
<1>2. Transfers(f) = all
  BY DEF Transfers
<1>3. /\ n = 1 => Total(ts) = ts[1]
      /\ n = 2 => Total(ts) = ts[1] + ts[2]
  BY <1>1, TotalIs
<1>5. NodeFee \in Nat /\ MaxSpin \in Nat /\ MinimalFee \in Nat /\ Grain \in Nat /\ Exact \in Nat
  BY Numbers
<1>4. f.selected > 0 =>
        /\ n = 1 /\ ts[1] = Spin(x) /\ x \in Nat /\ x <= f.selected /\ x <= MaxSpin
        /\ x = f.selected - f.fee - NodeFee - (IF f.donate THEN f.donation ELSE 0)
  <2> SUFFICES ASSUME f.selected > 0
               PROVE  /\ n = 1 /\ ts[1] = Spin(x) /\ x \in Nat /\ x <= f.selected /\ x <= MaxSpin
                      /\ x = f.selected - f.fee - NodeFee - (IF f.donate THEN f.donation ELSE 0)
    OBVIOUS
  <2>1. /\ n = 1 /\ ts[1] = Spin(x) /\ f.selected <= MaxSpin /\ Rest(f) > 2 * MinimalFee
        /\ f.donate => f.donation < Rest(f)
    BY DEF Fitted, Room
  <2>2. Rest(f) = f.selected - (f.fee + NodeFee)
    BY DEF Rest
  <2> HIDE DEF ts, n
  <2>3. CASE f.donate
    BY <1>1, <1>5, <2>1, <2>2, <2>3, SMTT(60)
  <2>4. CASE ~f.donate
    BY <1>1, <1>5, <2>1, <2>2, <2>4, SMTT(60)
  <2> QED
    BY <2>3, <2>4
<1> DEFINE e == (IF f.donate THEN f.donation ELSE 0) + NodeFee
<1>t. Total(ts) \in Nat
  BY <1>1, <1>3
<1>6. Total(all) = Total(ts) + e
  <2> DEFINE mid == ts \o donated
  <2>1. /\ mid \in Seq(Nat) /\ Len(mid) \in 1..3 /\ Total(mid) \in Nat
        /\ Total(mid) = Total(ts) + (IF f.donate THEN f.donation ELSE 0)
    <3>1. CASE f.donate
      <4>1. mid = Append(ts, f.donation)
        BY <1>1, <3>1
      <4>2. n \in 1..3
        BY <1>1
      <4>3. /\ mid \in Seq(Nat) /\ Len(mid) = n + 1
            /\ Total(mid) = Total(ts) + f.donation /\ Total(ts) \in Nat
        <5>1. /\ Append(ts, f.donation) \in Seq(Nat) /\ Len(Append(ts, f.donation)) = n + 1
              /\ Total(Append(ts, f.donation)) = Total(ts) + f.donation /\ Total(ts) \in Nat
          BY <1>1, <4>2, TotalAppend
        <5> QED
          BY <4>1, <5>1
      <4> HIDE DEF mid
      <4>4. Len(mid) \in 1..3 /\ Total(ts) + f.donation \in Nat
        <5>1. \A i \in 1..2 : i + 1 \in 1..3
          OBVIOUS
        <5>2. Len(mid) \in 1..3
          BY <1>1, <4>3, <5>1
        <5>3. Total(ts) + f.donation \in Nat
          BY <1>1, <4>3
        <5> QED
          BY <5>2, <5>3
      <4> QED
        BY <3>1, <4>3, <4>4
    <3>2. CASE ~f.donate
      <4>1. mid = ts
        BY <1>1, <3>2
      <4> HIDE DEF mid
      <4> QED
        BY <1>1, <1>3, <3>2, <4>1
    <3> QED
      BY <3>1, <3>2
  <2> HIDE DEF mid
  <2>2. CASE NodeFee > 0
    <3>1. all = Append(mid, NodeFee)
      <4>1. all = mid \o <<NodeFee>>
        BY <2>2 DEF mid
      <4> HIDE DEF all
      <4> QED
        BY <1>5, <2>1, <4>1, Longer
    <3>2. Total(all) = Total(mid) + NodeFee
      <4>1. Total(Append(mid, NodeFee)) = Total(mid) + NodeFee
        BY <1>5, <2>1, TotalAppend
      <4> HIDE DEF all
      <4> QED
        BY <3>1, <4>1
    <3> QED
      <4> HIDE DEF all
      <4> QED
        BY <1>1, <1>3, <1>5, <2>1, <3>2, SMTT(60)
  <2>3. CASE ~(NodeFee > 0)
    <3>1. all = mid /\ NodeFee = 0
      <4>1. all = mid \o <<>>
        BY <2>3 DEF mid
      <4> HIDE DEF all
      <4> QED
        BY <1>5, <2>1, <2>3, <4>1, Longer
    <3> HIDE DEF all
    <3> QED
      BY <1>1, <2>1, <3>1, <1>t
  <2> QED
    BY <2>2, <2>3
<1>7. Total(ts) \in Nat /\ e \in Nat
  BY <1>1, <1>3, <1>5, SMTT(60)
<1> HIDE DEF all, ts
<1>8. f.selected > 0 => Total(ts) = Spin(x) /\ x = f.selected - f.fee - e
  BY <1>1, <1>3, <1>4, <1>5
<1>9. Total(f.transfers) = Total(ts) /\ Total(Transfers(f)) = Total(ts) + e
  BY <1>2, <1>6 DEF ts
<1>10. f.selected > 0 => x \in Nat /\ x <= MaxSpin /\ x <= f.selected
  BY <1>4
<1> HIDE DEF e, x
<1>11. f.selected > 0 =>
         2 * (Spin(x) - x) \in -Grain..Grain /\ (x <= Exact => Spin(x) = x) /\ Spin(x) \in Nat
  BY <1>5, <1>10, SpinNear
<1>12. Total(ts) <= Total(ts) + e /\ Total(ts) + e \in Nat
  BY <1>7
<1>13. f.selected > 0 => Total(Transfers(f)) + f.fee - f.selected = Spin(x) - x
  BY <1>1, <1>7, <1>8, <1>9, <1>10, <1>11
<1>14. f.selected <= Exact /\ f.selected > 0 => Spin(x) - x = 0
  BY <1>1, <1>5, <1>10, <1>11
<1> QED
  BY <1>7, <1>9, <1>11, <1>12, <1>13, <1>14

-----------------------------------------------------------------------------
(* From the click until the user has confirmed, the form stays as it was   *)
(* read, no transaction is under way, and so the balance does not fall.    *)
Ready == Settled /\ Total(Transfers(form)) + form.fee <= balance

Asked ==
  gui # "form" =>
    /\ Ready /\ ~busy /\ done = <<>>
    /\ sending = [transfers |-> Transfers(form), total |-> Total(form.transfers),
                  fee |-> form.fee, selected |-> form.selected]

Showing ==
  gui = "confirm" => shown = [total |-> form.total, paymentId |-> form.paymentId]

SentRight ==
  sent # None =>
    /\ sent.paymentId = sent.shown.paymentId /\ sent.asked.total = sent.shown.total
    /\ sent.selected = sent.asked.selected
    /\ sent.selected > 0 =>
         2 * Excess(sent) \in -Grain..Grain /\ (sent.selected <= Exact => Excess(sent) = 0)
    /\ Cost(sent) <= sent.balance

SendInv ==
  Disciplines \subseteq assumed => Fitted(form) /\ Asked /\ Showing /\ SentRight

LEMMA InitSend == Init => SendInv
<1> SUFFICES ASSUME Init PROVE SendInv
  OBVIOUS
<1>1. form.selected = 0
  BY DEF Init
<1>2. Fitted(form)
  BY <1>1 DEF Fitted, Room
<1> QED
  BY <1>2 DEF Init, SendInv, Asked, Showing, SentRight

LEMMA NextSend == TInv /\ SendInv /\ [Next]_vars => SendInv'
<1> SUFFICES ASSUME TInv, SendInv, [Next]_vars PROVE SendInv'
  OBVIOUS
<1>a. assumed' = assumed
  BY DEF Next, UserStep, Fill, vars, EditAmount, AddRecipient, RemoveRecipient,
         SetPaymentId, SetFee, ToggleDonate, EditDonation, SelectOutputs, SendAll, ClearAll,
         WalletClosed, ClickSend, EnterPassword, Cancel, Confirm, Posted, LibraryDone,
         OnCompleted, PaymentRequest, Received
<1> SUFFICES ASSUME Disciplines \subseteq assumed
             PROVE  Fitted(form)' /\ Asked' /\ Showing' /\ SentRight'
  BY <1>a DEF SendInv
<1>g. /\ "undisturbed" \in assumed /\ "as_selected" \in assumed /\ "settled" \in assumed
      /\ "fee_covered" \in assumed /\ "sum_fits" \in assumed
  BY DEF Disciplines
<1>i. Fitted(form) /\ Asked /\ Showing /\ SentRight
  BY DEF SendInv
<1>f. form \in Forms /\ Len(form.transfers) \in 1..2 /\ FormOk(form)
      /\ balance \in Nat /\ gui \in {"form", "password", "confirm"}
  BY Numbers DEF TInv, FormOk
<1>m. balance < Modulus /\ Modulus \in Nat
  <2>1. balance \in 0..(Modulus - 1)
    BY Numbers DEF TInv
  <2> QED
    BY <2>1, Numbers
<1>s. ASSUME UNCHANGED sent PROVE SentRight'
  BY <1>s, <1>i DEF SentRight, Cost, Excess
<1>n. ASSUME NEW f, Fill(f), Fitted(f) PROVE Fitted(form)' /\ Asked' /\ Showing' /\ SentRight'
  <2>1. form' = f /\ gui' = "form" /\ sent' = sent
    BY <1>n DEF Fill, FormBecomes, dialogs
  <2>2. Fitted(form')
    BY <1>n, <2>1
  <2>3. Fitted(form)'
    BY <2>2 DEF Fitted, Room, Rest
  <2> QED
    BY <2>1, <2>3, <1>s DEF Asked, Showing
<1>z. ASSUME NEW f, f.selected = 0 PROVE Fitted(f)
  BY <1>z DEF Fitted, Room
<1>r. ASSUME NEW e, FormOk(e), e.selected > 0 => Len(e.transfers) = 1,
             Fill(RecalculateIfSelected(e))
      PROVE  Fitted(form)' /\ Asked' /\ Showing' /\ SentRight'
  <2> DEFINE g == RecalculateIfSelected(e)
  <2>1. g.selected = e.selected /\ g.fee = e.fee
    BY <1>r, RecalculateIfKeeps
  <2>2. g.selected > 0 => g.selected > g.fee + NodeFee + 2 * MinimalFee
                          /\ g.selected <= MaxSpin
    BY <1>g, <1>r DEF Fill, FormBecomes
  <2>3. Room(e)
    BY <1>r, <2>1, <2>2, Numbers, Fields DEF Room, Rest
  <2>4. Fitted(g)
    <3>1. CASE e.selected > 0
      BY <1>r, <2>3, <3>1, Fits DEF RecalculateIfSelected
    <3>2. CASE ~(e.selected > 0)
      <4>1. g = e /\ e.selected = 0
        BY <1>r, <3>2, Fields DEF RecalculateIfSelected
      <4> QED
        BY <4>1, <1>z
    <3> QED
      BY <3>1, <3>2
  <2> QED
    BY <1>n, <1>r, <2>4
<1>l. form.selected > 0 => Len(form.transfers) = 1
  BY <1>i DEF Fitted, Room
<1>1. CASE EditAmount
  <2>1. PICK i \in DOMAIN form.transfers, a \in Amounts :
          /\ form.selected = 0
          /\ Fill([form EXCEPT !.transfers[i] = Spin(a), !.posted = TRUE])
    BY <1>1, <1>g DEF EditAmount, LeftAlone
  <2>2. [form EXCEPT !.transfers[i] = Spin(a), !.posted = TRUE].selected = 0
    BY <1>f, <2>1 DEF Forms
  <2> QED
    BY <1>n, <1>z, <2>1, <2>2
<1>2. CASE AddRecipient
  <2>0. Len(form.transfers) < 2
    BY <1>2 DEF AddRecipient
  <2>1. Len(form.transfers) \in 0..1 /\ Fill(AddRecipientTo(form)) /\ form.selected = 0
    <3>1. Len(form.transfers) \in 0..1
      BY <1>f, <2>0
    <3> QED
      BY <1>2, <1>g, <3>1 DEF AddRecipient, LeftAlone
  <2>2. AddRecipientTo(form).selected = 0
    BY <1>f, <2>1, AddRecipientKeeps
  <2> QED
    BY <1>n, <1>z, <2>1, <2>2
<1>3. CASE RemoveRecipient
  <2>1. PICK i \in DOMAIN form.transfers :
          /\ form.selected = 0
          /\ Fill([form EXCEPT !.transfers = <<@[3 - i]>>, !.sendAll = TRUE, !.posted = TRUE])
    BY <1>3, <1>g DEF RemoveRecipient, LeftAlone
  <2>2. [form EXCEPT !.transfers = <<@[3 - i]>>, !.sendAll = TRUE, !.posted = TRUE].selected = 0
    BY <1>f, <2>1 DEF Forms
  <2> QED
    BY <1>n, <1>z, <2>1, <2>2
<1>4. CASE SetPaymentId
  <2>1. PICK id \in Ids \union {"none"} : Fill([form EXCEPT !.paymentId = id])
    BY <1>4 DEF SetPaymentId
  <2>2. Fitted([form EXCEPT !.paymentId = id])
    BY <1>f, <1>i DEF Forms, Fitted, Room, Rest
  <2> QED
    BY <1>n, <2>1, <2>2
<1>5. CASE SetFee
  <2>1. PICK fee \in Nat, manual \in BOOLEAN :
          Fill(RecalculateIfSelected([form EXCEPT !.fee = fee, !.manual = manual]))
    <3>1. \A k \in 1..4 : k * MinimalFee \in Nat
      BY Numbers
    <3>2. \A fee \in Fees : Held(fee) \in Nat
      BY Numbers, HeldNear
    <3> QED
      BY <1>5, <3>1, <3>2 DEF SetFee
  <2> DEFINE e == [form EXCEPT !.fee = fee, !.manual = manual]
  <2>2. FormOk(e) /\ e.selected = form.selected /\ e.transfers = form.transfers
    BY <1>f DEF FormOk, Forms
  <2> QED
    BY <1>l, <1>r, <2>1, <2>2
<1>6. CASE ToggleDonate
  <2> DEFINE e == [form EXCEPT !.donate = ~@]
  <2>1. FormOk(e) /\ e.selected = form.selected /\ e.transfers = form.transfers
    BY <1>f DEF FormOk, Forms
  <2> QED
    BY <1>6, <1>l, <1>r, <2>1 DEF ToggleDonate
<1>7. CASE EditDonation
  <2>1. PICK d \in Nat : Fill(SetDonation(form, d))
    BY <1>7, Numbers, HeldNear DEF EditDonation
  <2> QED
    BY <1>f, <1>i, <1>n, <2>1, SetDonationFits
<1>8. CASE SelectOutputs
  <2>1. PICK coins \in Coins :
          /\ Len(form.transfers) = 1
          /\ Fill(Recalculate([form EXCEPT !.selected = coins, !.sendAll = FALSE]))
    BY <1>8, <1>g DEF SelectOutputs
  <2> DEFINE e == [form EXCEPT !.selected = coins, !.sendAll = FALSE]
  <2>2. FormOk(e) /\ e.selected = coins /\ e.transfers = form.transfers
    BY <1>f DEF FormOk, Forms
  <2>3. coins > 0
    BY Numbers
  <2>4. Recalculate(e) = RecalculateIfSelected(e)
    BY <2>2, <2>3 DEF RecalculateIfSelected
  <2> QED
    BY <1>r, <2>1, <2>2, <2>4
<1>9. CASE SendAll
  <2> DEFINE amount == Minus(balance, form.fee + NodeFee)
             donation == DonationOfAll(amount)
             less == Minus(amount, donation)
  <2>1. \/ Fill(SetDonation(SetAmount(form, less), Held(donation)))
        \/ Fill(SetAmount(form, amount))
    BY <1>9 DEF SendAll
  <2>2. amount \in Nat
    <3>1. balance - (form.fee + NodeFee) \in Int
      BY Numbers, <1>f, Fields
    <3> QED
      BY <3>1, Wraps, Numbers DEF Minus
  <2>3. donation \in Nat /\ Held(donation) \in Nat
    BY <2>2, DonationType, HeldNear
  <2>4. less \in Nat
    <3> HIDE DEF amount, donation
    <3>1. amount - donation \in Int
      BY <2>2, <2>3
    <3> QED
      BY <3>1, Wraps, Numbers DEF Minus
  <2>5. form.selected = 0
    BY <1>9, <1>g DEF SendAll, LeftAlone
  <2> HIDE DEF amount, donation, less
  <2>6. /\ FormOk(SetAmount(form, less)) /\ SetAmount(form, less).selected = 0
        /\ SetAmount(form, amount).selected = 0
    BY <1>f, <2>2, <2>4, <2>5, SetAmountKeeps
  <2>7. SetDonation(SetAmount(form, less), Held(donation)).selected = 0
    BY <2>3, <2>6, SetDonationKeeps
  <2> QED
    BY <1>n, <1>z, <2>1, <2>6, <2>7
<1>10. CASE ClearAll
  BY <1>10, <1>f, <1>n, <1>z, ClearedKeeps DEF ClearAll
<1>11. CASE WalletClosed
  <2> DEFINE e == [form EXCEPT !.selected = 0, !.sendAll = TRUE]
  <2>1. e \in Forms /\ Len(e.transfers) \in 1..2 /\ e.selected = 0
    BY <1>f DEF Forms
  <2> HIDE DEF e
  <2>2. AmountChanged(e).selected = 0
    BY <2>1, AmountChangedKeeps
  <2>3. form' = AmountChanged(e) /\ gui' = "form" /\ sent' = sent
    BY <1>11 DEF WalletClosed, FormBecomes, dialogs, e
  <2>4. Fitted(form)'
    <3>1. form'.selected = 0
      BY <2>2, <2>3
    <3> QED
      BY <3>1 DEF Fitted, Room
  <2> QED
    BY <1>s, <2>3, <2>4 DEF Asked, Showing
<1>x. Settled => Right(form)
  BY DEF Settled, Right
<1>u. RecalculateIfSelected(form) = form
  BY <1>f, <1>i, Fits DEF RecalculateIfSelected, Fitted
<1>12. CASE ClickSend
  <2>1. Settled /\ form.fee <= balance /\ Total(Transfers(form)) < Modulus
        /\ ~busy /\ done = <<>> /\ UNCHANGED <<balance, busy, done, shown, sent>> /\ gui = "form"
    BY <1>12, <1>g DEF ClickSend, library
  <2>2. AmountChanged(form) = form
    BY <1>f, <1>x, <2>1, RightStays
  <2>3. /\ form' = form
        /\ \/ /\ gui' = "password" /\ Covered(Transfers(form), form.fee)
              /\ sending' = [transfers |-> Transfers(form), total |-> Total(form.transfers),
                             fee |-> form.fee, selected |-> form.selected]
           \/ gui' = "form"
    BY <1>12, <1>u, <2>1, <2>2 DEF ClickSend
  <2>4. Covered(Transfers(form), form.fee) => Total(Transfers(form)) + form.fee <= balance
    <3> DEFINE T == Total(Transfers(form))
    <3>1. Covered(Transfers(form), form.fee) => T % Modulus <= (balance - form.fee) % Modulus
      BY DEF Covered, Minus
    <3>2. T \in Nat /\ T < Modulus /\ form.fee <= balance /\ form.fee \in Nat
      BY <1>f, <1>i, <2>1, Fields, TransfersTotal
    <3> HIDE DEF T
    <3>3. T % Modulus = T
      <4>1. T \in 0..(Modulus - 1) /\ T \in Int
        BY <3>2, Numbers
      <4> QED
        BY <4>1, Wraps
    <3>4. (balance - form.fee) % Modulus <= balance - form.fee
          /\ (balance - form.fee) % Modulus \in Int
      BY <1>f, <3>2, Wraps, Numbers
    <3>5. Covered(Transfers(form), form.fee) => T + form.fee <= balance
      BY <1>f, <3>1, <3>2, <3>3, <3>4
    <3> QED
      BY <3>5 DEF T
  <2>5. Asked' /\ Showing'
    BY <2>1, <2>3, <2>4 DEF Asked, Showing, Ready, Settled, Transfers
  <2> QED
    BY <1>i, <1>s, <2>1, <2>3, <2>5 DEF Fitted, Room, Rest
<1>13. CASE EnterPassword
  <2>1. /\ gui = "password" /\ gui' = "confirm"
        /\ UNCHANGED <<balance, busy, done, form, sending, sent>>
        /\ shown' = [total |-> form.total, paymentId |-> form.paymentId]
    BY <1>13 DEF EnterPassword, library
  <2>2. Asked'
    BY <1>i, <2>1 DEF Asked, Ready, Settled, Transfers
  <2> QED
    BY <1>i, <1>s, <2>1, <2>2 DEF Showing, Fitted, Room, Rest
<1>14. CASE Cancel
  BY <1>14, <1>i, <1>s DEF Cancel, Asked, Showing, Fitted, Room, Rest
<1>15. CASE Confirm
  <2>1. /\ gui = "confirm" /\ gui' = "form" /\ UNCHANGED form
        /\ sent' = [asked |-> sending, shown |-> shown,
                    selected |-> form.selected, paymentId |-> form.paymentId,
                    balance |-> balance]
    BY <1>15 DEF Confirm
  <2>2. /\ Ready
        /\ sending = [transfers |-> Transfers(form), total |-> Total(form.transfers),
                      fee |-> form.fee, selected |-> form.selected]
        /\ shown = [total |-> form.total, paymentId |-> form.paymentId]
    BY <1>i, <2>1 DEF Asked, Showing
  <2>3. /\ sent'.paymentId = form.paymentId /\ sent'.selected = form.selected
        /\ sent'.asked.transfers = Transfers(form) /\ sent'.asked.fee = form.fee
        /\ sent'.asked.total = Total(form.transfers) /\ sent'.asked.selected = form.selected
        /\ sent'.shown.total = form.total /\ sent'.shown.paymentId = form.paymentId
        /\ sent'.balance = balance
    BY <2>1, <2>2
  <2>4. /\ Total(form.transfers) \in Nat /\ Total(Transfers(form)) \in Nat
        /\ Total(form.transfers) <= Total(Transfers(form))
        /\ form.selected > 0 =>
             LET excess == Total(Transfers(form)) + form.fee - form.selected
             IN 2 * excess \in -Grain..Grain /\ (form.selected <= Exact => excess = 0)
    BY <1>f, <1>i, TransfersTotal
  <2>5. Total(form.transfers) = form.total
    <3>1. Total(Transfers(form)) < Modulus
      BY <1>f, <1>m, <2>2, <2>4, Fields DEF Ready
    <3>2. Total(form.transfers) \in 0..(Modulus - 1)
      BY <2>4, <3>1, Numbers
    <3> QED
      BY <2>2, <2>4, <3>2, Wraps DEF Ready, Settled
  <2>6. /\ Cost(sent') = Total(Transfers(form)) + form.fee
        /\ Excess(sent') = Total(Transfers(form)) + form.fee - form.selected
    <3>1. ASSUME NEW tx, tx.asked.transfers = Transfers(form), tx.asked.fee = form.fee,
                 tx.selected = form.selected
          PROVE  /\ Cost(tx) = Total(Transfers(form)) + form.fee
                 /\ Excess(tx) = Total(Transfers(form)) + form.fee - form.selected
      <4>1. Total(tx.asked.transfers) = Total(Transfers(form))
        BY <3>1
      <4>2. Cost(tx) = Total(Transfers(form)) + form.fee
        BY <3>1, <4>1 DEF Cost
      <4>3. Excess(tx) = Cost(tx) - form.selected
        BY <3>1 DEF Excess
      <4> QED
        BY <1>f, <2>4, <4>2, <4>3, Fields
    <3> QED
      BY <2>3, <3>1
  <2>7. SentRight'
    <3>1. Cost(sent') <= sent'.balance
      BY <2>2, <2>3, <2>6 DEF Ready
    <3>2. sent'.selected > 0 =>
            2 * Excess(sent') \in -Grain..Grain /\ (sent'.selected <= Exact => Excess(sent') = 0)
      BY <2>3, <2>4, <2>6
    <3>3. Cost(sent)' = Cost(sent') /\ Excess(sent)' = Excess(sent')
      BY DEF Cost, Excess
    <3> QED
      BY <2>3, <2>5, <3>1, <3>2, <3>3 DEF SentRight
  <2> QED
    BY <1>i, <2>1, <2>7 DEF Asked, Showing, Fitted, Room, Rest
<1>16. CASE Posted
  <2> DEFINE p == [form EXCEPT !.posted = FALSE]
  <2>1. /\ FormOk(p) /\ p.transfers = form.transfers /\ p.selected = form.selected
        /\ p.fee = form.fee /\ p.donate = form.donate /\ p.donation = form.donation
        /\ p.total = form.total /\ p.paymentId = form.paymentId
    BY <1>f DEF FormOk, Forms
  <2>2. form' = AmountChanged(p) /\ UNCHANGED <<balance, busy, done, gui, sending, shown, sent>>
    BY <1>16 DEF Posted, dialogs, library
  <2> HIDE DEF p
  <2>3. Fitted(p)
    BY <1>i, <2>1 DEF Fitted, Room, Rest
  <2>4. Fitted(form')
    BY <2>1, <2>2, <2>3, AmountChangedFits
  <2>5. ASSUME gui # "form" PROVE Asked' /\ Showing'
    <3>1. Right(p)
      BY <1>i, <2>1, <2>5 DEF Asked, Ready, Settled, Right
    <3>2. form' = p
      BY <2>1, <2>2, <3>1, RightStays
    <3>3. Transfers(p) = Transfers(form)
      BY <2>1 DEF Transfers
    <3>4. Transfers(form)' = Transfers(form)
      BY <3>2, <3>3 DEF Transfers
    <3>5. Settled'
      BY <3>1, <3>2 DEF Settled, Right
    <3> QED
      BY <1>i, <2>1, <2>2, <2>5, <3>2, <3>4, <3>5 DEF Asked, Showing, Ready
  <2> QED
    BY <1>s, <2>2, <2>4, <2>5 DEF Asked, Showing, Fitted, Room, Rest
<1>17. CASE LibraryDone
  <2>1. busy /\ UNCHANGED <<form, gui, sending, shown, sent>>
    BY <1>17 DEF LibraryDone, dialogs
  <2>2. gui = "form"
    BY <1>i, <2>1 DEF Asked
  <2> QED
    BY <1>i, <1>s, <2>1, <2>2 DEF Asked, Showing, Fitted, Room, Rest
<1>18. CASE OnCompleted
  <2>1. gui = "form" /\ gui' = "form" /\ sent' = sent /\ form' \in {Cleared(form), form}
    <3>1. done # <<>> /\ gui' = gui /\ sent' = sent /\ form' \in {Cleared(form), form}
      BY <1>18 DEF OnCompleted, dialogs
    <3> QED
      BY <1>i, <3>1 DEF Asked
  <2>2. Fitted(form')
    BY <1>f, <1>i, <1>z, <2>1, ClearedKeeps
  <2> QED
    BY <1>s, <2>1, <2>2 DEF Asked, Showing, Fitted, Room, Rest
<1>19. CASE PaymentRequest
  <2>1. /\ gui = "form" /\ gui' = "form" /\ sent' = sent
        /\ \E a \in Amounts, id \in Ids \union {"none"} :
             (a # 0 => form.selected = 0) /\ form' = Requested(form, a, id)
    BY <1>19, <1>g DEF PaymentRequest, LeftAlone, FormBecomes, dialogs
  <2>2. PICK a \in Amounts, id \in Ids \union {"none"} :
          (a # 0 => form.selected = 0) /\ form' = Requested(form, a, id)
    BY <2>1
  <2>3. Fitted(form')
    <3>1. CASE a = 0
      <4> DEFINE q == IF id = "none" THEN form.paymentId ELSE id
      <4>1. form' = [form EXCEPT !.paymentId = q]
        BY <1>f, <2>2, <3>1 DEF Requested, Forms
      <4> HIDE DEF q
      <4> QED
        BY <1>f, <1>i, <4>1 DEF Forms, Fitted, Room, Rest
    <3>2. CASE a # 0
      <4>1. a \in Nat
        BY Numbers
      <4> QED
        BY <1>f, <1>z, <2>2, <3>2, <4>1, RequestedKeeps
    <3> QED
      BY <3>1, <3>2
  <2> QED
    BY <1>s, <2>1, <2>3 DEF Asked, Showing, Fitted, Room, Rest
<1>20. CASE Received
  <2>1. UNCHANGED <<busy, done, form, gui, sending, shown, sent>> /\ balance' \in Nat /\ balance' > balance
    BY <1>20, Numbers DEF Received, dialogs, library
  <2>2. Asked'
    <3> SUFFICES ASSUME gui # "form" PROVE Asked'
      BY <2>1 DEF Asked
    <3>1. /\ Settled /\ ~busy /\ done = <<>>
          /\ sending = [transfers |-> Transfers(form), total |-> Total(form.transfers),
                        fee |-> form.fee, selected |-> form.selected]
          /\ Total(Transfers(form)) + form.fee <= balance
      BY <1>i DEF Asked, Ready
    <3>2. Total(Transfers(form)) + form.fee \in Nat
      BY <1>f, <1>i, Fields, TransfersTotal
    <3>3. Total(Transfers(form)) + form.fee <= balance'
      BY <1>f, <2>1, <3>1, <3>2
    <3> QED
      BY <2>1, <3>1, <3>3 DEF Asked, Ready, Settled, Transfers
  <2> QED
    BY <1>i, <1>s, <2>1, <2>2 DEF Showing, Fitted, Room, Rest
<1>21. CASE UNCHANGED vars
  <2>1. UNCHANGED <<balance, busy, done, form, gui, sending, shown, sent>>
    BY <1>21 DEF vars, dialogs, library
  <2> QED
    BY <1>i, <1>s, <2>1 DEF Asked, Showing, Ready, Settled, Transfers, Fitted, Room, Rest
<1> QED
  BY <1>1, <1>2, <1>3, <1>4, <1>5, <1>6, <1>7, <1>8, <1>9, <1>10, <1>11, <1>12, <1>13, <1>14,
     <1>15, <1>16, <1>17, <1>18, <1>19, <1>20, <1>21 DEF Next, UserStep

(* The form and what sendClicked() has read agree until it is sent.        *)
THEOREM SendInvariance == Spec => [](TInv /\ SendInv)
  BY InitType, InitSend, NextType, NextSend, PTL DEF Spec

(* What is sent is what the user has confirmed: total and payment ID.      *)
THEOREM Confirmed ==
  ASSUME Discipline = Disciplines
  PROVE  Spec => []SentAsConfirmed
<1>1. SendInv => SentAsConfirmed
  BY DEF SendInv, SentRight, SentAsConfirmed, Given
<1> QED
  BY <1>1, SendInvariance, PTL

(* What is sent with selected outputs adds up to them, with the fee, as    *)
(* nearly as the form can hold the amount; exactly, when that is every one.*)
THEOREM SpendsSelected ==
  ASSUME Discipline = Disciplines
  PROVE  Spec => []OutputsMatch
<1>1. SendInv => OutputsMatch
  BY DEF SendInv, SentRight, OutputsMatch, Given
<1> QED
  BY <1>1, SendInvariance, PTL

(* What is sent, with the fee, is covered by the balance at the time it is *)
(* sent: the subtraction and the sum, which are unsigned, did not wrap, and*)
(* the balance did not fall while the dialogs were open.                   *)
THEOREM Affordable ==
  ASSUME Discipline = Disciplines
  PROVE  Spec => []BalanceCovers
<1>1. SendInv => BalanceCovers
  BY DEF SendInv, SentRight, BalanceCovers, Given
<1> QED
  BY <1>1, SendInvariance, PTL
=============================================================================
