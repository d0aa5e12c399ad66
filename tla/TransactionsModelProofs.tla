---------------------- MODULE TransactionsModelProofs ----------------------
(***************************************************************************)
(* Theorems about TransactionsModel.  The rows agree with the map in every *)
(* use, because the loop that fills the model begins at the number of the  *)
(* transactions it has (FillMatches, by induction over the transactions).  *)
(* The rest assumes that a wallet is closed while the library is in no     *)
(* callback: then no signal outlives the wallet it tells of.               *)
(***************************************************************************)
EXTENDS TransactionsModel, FiniteSetTheorems, WellFoundedInduction, TLAPS

-----------------------------------------------------------------------------
(* Induction over the natural numbers, for a set of them.                  *)
LEMMA Induction ==
  ASSUME NEW S, 0 \in S, \A n \in Nat : n \in S => n + 1 \in S
  PROVE  Nat \subseteq S
<1> DEFINE R == {ss \in Nat \X Nat : ss[1] < ss[2]}
           T == Nat \ S
<1> SUFFICES ASSUME T # {} PROVE FALSE
  OBVIOUS
<1>0. IsWellFoundedOn(R, Nat)
  BY NatLessThanWellFounded DEF OpToRel
<1>1. \E x \in T : \A y \in T : ~(<<y, x>> \in R)
  <2> HIDE DEF R
  <2> QED BY <1>0, WFMin
<1>2. PICK x \in T : \A y \in T : ~(<<y, x>> \in R)
  BY <1>1
<1>3. x - 1 \in Nat /\ x - 1 < x
  OBVIOUS
<1>4. x - 1 \notin T
  BY <1>2, <1>3
<1>5. x - 1 \in S
  BY <1>3, <1>4
<1> QED BY <1>5, <1>3

(* The recursive function that Fill applies. *)
IsFilling(f, m, first) ==
  f = [k \in Nat |-> IF k = 0 THEN m ELSE AppendOne(f[k - 1], first + k - 1)]

(* The function up to n. *)
FillsTo(f, n, m, first) ==
  /\ f[0] = m
  /\ \A k \in 1..n : f[k] = AppendOne(f[k - 1], first + k - 1)

LEMMA FillingTo ==
  ASSUME NEW m, NEW first, NEW n \in Nat
  PROVE  \E f : FillsTo(f, n, m, first)
<1> DEFINE S == {j \in Nat : \E f : FillsTo(f, j, m, first)}
<1>1. 0 \in S
  <2>1. FillsTo([k \in {0} |-> m], 0, m, first)
    BY DEF FillsTo
  <2> QED
    BY <2>1
<1>2. ASSUME NEW j \in Nat, j \in S PROVE j + 1 \in S
  <2>1. PICK f : FillsTo(f, j, m, first)
    BY <1>2
  <2> DEFINE g == [k \in 0..(j + 1) |-> IF k = j + 1 THEN AppendOne(f[j], first + j) ELSE f[k]]
  <2>2. g[0] = m
    BY <2>1 DEF FillsTo
  <2>3. ASSUME NEW k \in 1..(j + 1) PROVE g[k] = AppendOne(g[k - 1], first + k - 1)
    <3>0. k \in 0..(j + 1) /\ k - 1 \in 0..(j + 1) /\ k - 1 # j + 1
      OBVIOUS
    <3>1. CASE k = j + 1
      <4>1. g[k] = AppendOne(f[j], first + j) /\ g[j] = f[j]
        BY <3>0, <3>1
      <4>2. k - 1 = j /\ first + k - 1 = first + j
        BY <3>1
      <4> QED
        BY <4>1, <4>2
    <3>2. CASE k # j + 1
      <4>1. g[k] = f[k] /\ g[k - 1] = f[k - 1] /\ k \in 1..j
        BY <3>0, <3>2
      <4> QED
        BY <2>1, <4>1 DEF FillsTo
    <3> QED
      BY <3>1, <3>2
  <2>4. FillsTo(g, j + 1, m, first)
    <3> HIDE DEF g
    <3> QED
      BY <2>2, <2>3 DEF FillsTo
  <2> QED
    BY <2>4
<1> HIDE DEF S
<1>3. Nat \subseteq S
  BY <1>1, <1>2, Induction
<1> QED
  BY <1>3 DEF S

LEMMA FillingUnique ==
  ASSUME NEW m, NEW first, NEW n \in Nat, NEW f, NEW g,
         FillsTo(f, n, m, first), FillsTo(g, n, m, first)
  PROVE  \A k \in 0..n : f[k] = g[k]
<1> DEFINE S == {k \in Nat : k \in 0..n => f[k] = g[k]}
<1>1. 0 \in S
  BY DEF FillsTo
<1>2. ASSUME NEW k \in Nat, k \in S PROVE k + 1 \in S
  <2> SUFFICES ASSUME k + 1 \in 0..n PROVE f[k + 1] = g[k + 1]
    OBVIOUS
  <2>1. k + 1 \in 1..n /\ k \in 0..n /\ (k + 1) - 1 = k
    OBVIOUS
  <2>2. f[k] = g[k]
    BY <1>2, <2>1
  <2>3. /\ f[k + 1] = AppendOne(f[k], first + (k + 1) - 1)
        /\ g[k + 1] = AppendOne(g[k], first + (k + 1) - 1)
    BY <2>1 DEF FillsTo
  <2> QED
    BY <2>2, <2>3
<1> HIDE DEF S
<1>3. Nat \subseteq S
  BY <1>1, <1>2, Induction
<1> QED
  BY <1>3 DEF S

LEMMA FillingExists ==
  ASSUME NEW m, NEW first
  PROVE  \E f : IsFilling(f, m, first)
<1> DEFINE G(n) == CHOOSE g : FillsTo(g, n, m, first)
           f == [k \in Nat |-> G(k)[k]]
<1>1. \A n \in Nat : FillsTo(G(n), n, m, first)
  BY FillingTo
<1> HIDE DEF G
<1>2. f[0] = m
  BY <1>1 DEF FillsTo
<1>3. ASSUME NEW k \in Nat \ {0} PROVE f[k] = AppendOne(f[k - 1], first + k - 1)
  <2>1. k \in 1..k /\ k - 1 \in 0..(k - 1) /\ k - 1 \in Nat
    OBVIOUS
  <2>2. G(k)[k] = AppendOne(G(k)[k - 1], first + k - 1)
    BY <1>1, <2>1 DEF FillsTo
  <2>3. FillsTo(G(k), k - 1, m, first)
    BY <1>1 DEF FillsTo
  <2>4. G(k)[k - 1] = G(k - 1)[k - 1]
    BY <1>1, <2>1, <2>3, FillingUnique
  <2> QED
    BY <2>1, <2>2, <2>4
<1>4. f = [k \in Nat |-> IF k = 0 THEN m ELSE AppendOne(f[k - 1], first + k - 1)]
  <2> DEFINE h == [k \in Nat |-> IF k = 0 THEN m ELSE AppendOne(f[k - 1], first + k - 1)]
  <2>1. \A k \in Nat : f[k] = h[k]
    <3> HIDE DEF f
    <3> QED
      BY <1>2, <1>3
  <2> QED
    BY <2>1
<1> QED
  BY <1>4 DEF IsFilling

LEMMA FillIs ==
  ASSUME NEW m, NEW first, NEW last
  PROVE \E g : /\ IsFilling(g, m, first)
               /\ Fill(m, first, last) = g[IF first <= last THEN last - first + 1 ELSE 0]
<1> DEFINE g == CHOOSE h : IsFilling(h, m, first)
<1>1. IsFilling(g, m, first)
  BY FillingExists
<1>2. Fill(m, first, last) = g[IF first <= last THEN last - first + 1 ELSE 0]
  BY DEF Fill, IsFilling
<1> QED
  BY <1>1, <1>2

-----------------------------------------------------------------------------
(* The model m has the first k transactions of its wallet, and its rows    *)
(* and its map agree.                                                      *)
Matches(m, k) ==
  /\ k <= MaxTx
  /\ m.transfers \in Seq(0..(MaxTx - 1))
  /\ DOMAIN m.row = 0..(k - 1)
  /\ \A tx \in 0..(k - 1) : m.row[tx].first \in Nat /\ m.row[tx].n \in Nat \ {0}
  /\ \A i \in DOMAIN m.transfers :
       /\ m.transfers[i] \in 0..(k - 1)
       /\ m.row[m.transfers[i]].first < i
       /\ i <= m.row[m.transfers[i]].first + m.row[m.transfers[i]].n
  /\ \A tx \in 0..(k - 1) :
       /\ m.row[tx].first + m.row[tx].n <= Len(m.transfers)
       /\ \A i \in (m.row[tx].first + 1)..(m.row[tx].first + m.row[tx].n) : m.transfers[i] = tx

(* appendTransaction() of the next transaction keeps rows and map in       *)
(* agreement, and one that the wallet does not have changes nothing.       *)
LEMMA AppendMatches ==
  ASSUME NEW m, NEW k \in Nat, Matches(m, k), count \in 0..MaxTx, k < count
  PROVE  Matches(AppendOne(m, k), k + 1)
<1> DEFINE n == IF TransferCount[k] = 0 THEN 1 ELSE TransferCount[k]
           more == [i \in 1..n |-> k]
           value == [first |-> Len(m.transfers), n |-> n]
           old == m.transfers
           new == m.transfers \o more
           row == Put(m.row, k, value)
<1>1. k \in 0..(MaxTx - 1) /\ n \in Nat \ {0}
  BY ModelAssumption DEF ModelAssumption
<1>2. AppendOne(m, k) = [transfers |-> new, row |-> row]
  <2>1. ~(k >= count)
    BY ModelAssumption DEF ModelAssumption
  <2> QED
    BY <2>1 DEF AppendOne
<1> HIDE DEF n
<1>3. more \in Seq(0..(MaxTx - 1)) /\ Len(more) = n /\ \A i \in 1..n : more[i] = k
  BY <1>1
<1>4. old \in Seq(0..(MaxTx - 1)) /\ Len(old) \in Nat
  BY DEF Matches
<1> HIDE DEF more
<1>5. /\ new \in Seq(0..(MaxTx - 1)) /\ Len(new) = Len(old) + n
      /\ \A i \in 1..Len(old) : new[i] = old[i]
      /\ \A i \in (Len(old) + 1)..(Len(old) + n) : new[i] = k
  BY <1>1, <1>3, <1>4
<1>6. /\ DOMAIN row = 0..k /\ row[k] = value /\ \A tx \in 0..(k - 1) : row[tx] = m.row[tx]
  BY DEF Put, Matches
<1>7. value.first = Len(old) /\ value.n = n
  OBVIOUS
<1> HIDE DEF new, row, value
<1>8. DOMAIN row = 0..((k + 1) - 1)
  BY <1>6
<1>9. ASSUME NEW tx \in 0..((k + 1) - 1)
      PROVE  /\ row[tx].first \in Nat /\ row[tx].n \in Nat \ {0}
             /\ row[tx].first + row[tx].n <= Len(new)
             /\ \A i \in (row[tx].first + 1)..(row[tx].first + row[tx].n) : new[i] = tx
  <2>1. CASE tx = k
    BY <1>1, <1>4, <1>5, <1>6, <1>7, <2>1
  <2>2. CASE tx # k
    <3>1. tx \in 0..(k - 1) /\ row[tx] = m.row[tx]
      BY <1>6, <2>2
    <3>2. /\ m.row[tx].first \in Nat /\ m.row[tx].n \in Nat \ {0}
          /\ m.row[tx].first + m.row[tx].n <= Len(old)
          /\ \A i \in (m.row[tx].first + 1)..(m.row[tx].first + m.row[tx].n) : old[i] = tx
      BY <3>1 DEF Matches
    <3> DEFINE a == m.row[tx].first
               b == m.row[tx].n
    <3>3. a \in Nat /\ b \in Nat /\ a + b <= Len(old)
          /\ \A i \in (a + 1)..(a + b) : old[i] = tx
      BY <3>2
    <3>4. row[tx].first = a /\ row[tx].n = b /\ b # 0
      BY <3>1, <3>2
    <3> HIDE DEF a, b
    <3>5. a + b <= Len(new) /\ \A i \in (a + 1)..(a + b) : i \in 1..Len(old)
      BY <1>1, <1>4, <1>5, <3>3
    <3> QED
      BY <1>5, <3>3, <3>4, <3>5
  <2> QED
    BY <2>1, <2>2
<1>10. ASSUME NEW i \in DOMAIN new
       PROVE  /\ new[i] \in 0..((k + 1) - 1)
              /\ row[new[i]].first < i /\ i <= row[new[i]].first + row[new[i]].n
  <2>1. i \in 1..(Len(old) + n)
    BY <1>1, <1>4, <1>5
  <2>2. CASE i <= Len(old)
    <3>1. new[i] = old[i] /\ i \in DOMAIN old
      BY <1>4, <1>5, <2>1, <2>2
    <3>2. /\ old[i] \in 0..(k - 1) /\ m.row[old[i]].first < i
          /\ i <= m.row[old[i]].first + m.row[old[i]].n
      BY <3>1 DEF Matches
    <3> QED
      BY <1>6, <3>1, <3>2
  <2>3. CASE i > Len(old)
    <3>1. new[i] = k
      BY <1>1, <1>4, <1>5, <2>1, <2>3
    <3> QED
      BY <1>1, <1>4, <1>6, <1>7, <2>1, <2>3, <3>1
  <2> QED
    BY <1>4, <2>1, <2>2, <2>3
<1> QED
  <2>1. k + 1 <= MaxTx
    BY <1>1, ModelAssumption DEF ModelAssumption
  <2> QED
    BY <1>2, <1>5, <1>8, <1>9, <1>10, <2>1 DEF Matches

(* The loop of appendTransaction() and of reloadWalletTransactions()       *)
(* begins at the number of transactions the model has.                     *)
LEMMA FillMatches ==
  ASSUME NEW m, NEW first \in Nat, NEW last \in Int, Matches(m, first), count \in 0..MaxTx
  PROVE  \E k \in Nat : Matches(Fill(m, first, last), k)
<1>1. PICK g : /\ IsFilling(g, m, first)
               /\ Fill(m, first, last) = g[IF first <= last THEN last - first + 1 ELSE 0]
  BY FillIs
<1> DEFINE Has(j, k) == Matches(g[j], k) /\ (k = first + j \/ (count <= k /\ k <= first + j))
           S == {j \in Nat : \E k \in Nat : Has(j, k)}
<1>2. g[0] = m /\ \A j \in Nat : g[j + 1] = AppendOne(g[j], first + j)
  BY <1>1 DEF IsFilling
<1>3. 0 \in S
  <2>1. Has(0, first)
    BY <1>2
  <2> QED
    BY <2>1
<1>4. ASSUME NEW j \in Nat, j \in S PROVE j + 1 \in S
  <2>1. PICK k \in Nat : Has(j, k)
    BY <1>4
  <2>2. CASE k = first + j /\ k < count
    <3>1. Has(j + 1, k + 1)
      BY <1>2, <2>1, <2>2, AppendMatches
    <3> QED
      BY <3>1
  <2>3. CASE count <= k /\ k <= first + j
    <3>1. first + j >= count
      BY <2>3, ModelAssumption DEF ModelAssumption
    <3>3. g[j + 1] = g[j]
      BY <1>2, <3>1 DEF AppendOne
    <3>2. Has(j + 1, k)
      BY <2>1, <2>3, <3>3
    <3> QED
      BY <3>2
  <2> QED
    BY <2>1, <2>2, <2>3
<1> HIDE DEF S
<1>5. Nat \subseteq S
  BY <1>3, <1>4, Induction
<1>6. (IF first <= last THEN last - first + 1 ELSE 0) \in S
  BY <1>5
<1> QED
  BY <1>1, <1>6 DEF S

-----------------------------------------------------------------------------
(* Every variable but the rows keeps its type.                             *)
Event == [ev : {"initDone", "reload", "created", "sendDone", "closed", "progress", "synced"},
          tx : NoTx..(MaxTx - 1)]
TInv ==
  /\ owner \in 0..id /\ id \in 0..MaxWallets /\ count \in 0..MaxTx
  /\ m_isSynchronized \in BOOLEAN /\ timer \in BOOLEAN /\ notifying \in BOOLEAN
  /\ callback \in [tx : NoTx..(MaxTx - 1), kind : Kinds]
  /\ failed \subseteq 0..(count - 1)
  /\ m_lastWalletTransactionId \in NoTx..(MaxTx - 1)
  /\ wallet \in {"null", "loading", "ready"} /\ gui \in {"loop", "closing", "crash"}
  /\ queue \in Seq(Event)
  /\ events \in 0..MaxEvents

LEMMA Ids ==
  /\ MaxTx \in Nat /\ MaxWallets \in Nat /\ MaxEvents \in Nat
  /\ NoTx \in NoTx..(MaxTx - 1) /\ 0 \in NoTx..(MaxTx - 1) /\ NoTx \in Int
  /\ \A c \in 0..MaxTx : c < MaxTx => c \in NoTx..(MaxTx - 1) /\ c + 1 \in 0..MaxTx
  /\ \A c \in 0..MaxEvents : c < MaxEvents => c + 1 \in 0..MaxEvents
  /\ 0 \in 0..0 /\ 0 \in 0..MaxWallets /\ 0 \in 0..MaxTx /\ 0 \in 0..MaxEvents
  BY ModelAssumption DEF ModelAssumption, NoTx

LEMMA InitType == Init => TInv
<1> SUFFICES ASSUME Init PROVE TInv
  OBVIOUS
<1>1. callback \in [tx : NoTx..(MaxTx - 1), kind : Kinds] /\ queue \in Seq(Event)
  BY Ids DEF Init, Idle, Kinds
<1> QED
  BY <1>1, Ids DEF Init, TInv, NoTx

LEMMA NextType == TInv /\ [Next]_vars => TInv'
<1> SUFFICES ASSUME TInv, [Next]_vars PROVE TInv'
  OBVIOUS
<1> USE Ids DEF TInv, rows, notes
<1>q. ASSUME NEW s \in Seq(Event), NEW e \in Event PROVE Append(s, e) \in Seq(Event)
  OBVIOUS
<1>t. queue # <<>> => Tail(queue) \in Seq(Event) /\ Head(queue) \in Event
  OBVIOUS
<1>e. \A ev \in {"initDone", "reload", "created", "sendDone", "closed", "progress", "synced"},
         tx \in NoTx..(MaxTx - 1) : Signal(ev, tx) \in Event
  BY DEF Signal, Event
<1>h. queue # <<>> => Head(queue).tx \in NoTx..(MaxTx - 1)
  BY <1>t DEF Event
<1>b. ASSUME NEW m, Becomes(m) PROVE owner' \in 0..id /\ gui' \in {"loop", "closing", "crash"}
  BY <1>b DEF Becomes
<1>n. ASSUME NEW s \in Seq(Event), Notify(s)
      PROVE  queue' \in Seq(Event) /\ notifying' \in BOOLEAN
  BY <1>n, <1>q, <1>e DEF Notify
<1>1. CASE Open
  BY <1>1 DEF Open
<1>2. CASE Close
  BY <1>2, <1>q, <1>e DEF Close
<1>3. CASE CloseDelete
  BY <1>3 DEF CloseDelete
<1>4. CASE OnInitDone
  BY <1>4, <1>q, <1>e, <1>t DEF OnInitDone, Delivers
<1>5. CASE OnReload
  BY <1>5, <1>b, <1>t DEF OnReload, Delivers
<1>6. CASE OnCreated
  <2>1. owner' \in 0..id /\ gui' \in {"loop", "closing", "crash"}
    BY <1>6, <1>b DEF OnCreated
  <2> QED
    BY <1>6, <2>1, <1>t DEF OnCreated, Delivers
<1>7. CASE OnSendDone
  <2>1. queue' \in Seq(Event)
    BY <1>7, <1>q, <1>e, <1>t, <1>h DEF OnSendDone, Delivers
  <2> QED
    BY <1>7, <2>1 DEF OnSendDone
<1>8. CASE OnClosed
  BY <1>8, <1>t DEF OnClosed, Delivers
<1>9. CASE OnProgress
  BY <1>9, <1>t DEF OnProgress, Delivers
<1>10. CASE OnSynced
  BY <1>10, <1>n, <1>t DEF OnSynced, Delivers
<1>11. CASE NotifyEnds
  BY <1>11 DEF NotifyEnds
<1>12. CASE Tick
  BY <1>12, <1>n DEF Tick
<1>13. CASE LoadDone
  BY <1>13, <1>q, <1>e DEF LoadDone
<1>14. CASE NewTransaction
  <2>1. callback' \in [tx : NoTx..(MaxTx - 1), kind : Kinds] /\ count' \in 0..MaxTx
    <3>1. count < MaxTx /\ count' = count + 1
      BY <1>14 DEF NewTransaction
    <3>2. count \in NoTx..(MaxTx - 1) /\ count + 1 \in 0..MaxTx
      BY <3>1
    <3>3. PICK kind \in Kinds : callback' = [tx |-> count, kind |-> kind]
      BY <1>14 DEF NewTransaction
    <3> QED
      BY <3>1, <3>2, <3>3
  <2>2. failed' \subseteq 0..(count' - 1)
    <3>1. count' = count + 1 /\ count \in Nat /\ failed' \subseteq failed \union {count}
      BY <1>14 DEF NewTransaction
    <3>2. 0..(count - 1) \union {count} \subseteq 0..((count + 1) - 1)
      BY <3>1
    <3> QED
      BY <3>1, <3>2
  <2> QED
    BY <1>14, <2>1, <2>2 DEF NewTransaction
<1>15. CASE Callback
  <2>1. callback.tx \in NoTx..(MaxTx - 1) /\ callback' \in [tx : NoTx..(MaxTx - 1), kind : Kinds]
    BY <1>15 DEF Callback, Idle, Kinds
  <2>2. queue' \in Seq(Event) /\ m_lastWalletTransactionId' \in NoTx..(MaxTx - 1)
    BY <1>15, <2>1, <1>q, <1>e DEF Callback
  <2>3. m_isSynchronized' = m_isSynchronized /\ timer' = timer
    BY <1>15 DEF Callback
  <2> QED
    BY <1>15, <2>1, <2>2, <2>3 DEF Callback
<1>16. CASE Progress
  <2>1. events' \in 0..MaxEvents
    BY <1>16 DEF Progress
  <2>2. queue' \in Seq(Event)
    BY <1>16, <1>q, <1>e DEF Progress
  <2> QED
    BY <1>16, <2>1, <2>2 DEF Progress
<1>17. CASE Synced
  BY <1>17, <1>q, <1>e DEF Synced
<1>18. CASE UNCHANGED vars
  BY <1>18 DEF vars
<1> QED
  BY <1>1, <1>2, <1>3, <1>4, <1>5, <1>6, <1>7, <1>8, <1>9, <1>10, <1>11, <1>12, <1>13, <1>14,
     <1>15, <1>16, <1>17, <1>18 DEF Next, Slots

-----------------------------------------------------------------------------
(* The rows and the map agree.                                             *)
RInv == \E k \in Nat : Matches(Rows, k)

LEMMA EmptyMatches == Matches([transfers |-> <<>>, row |-> <<>>], 0)
<1>1. DOMAIN <<>> = 0..(0 - 1) /\ <<>> \in Seq(0..(MaxTx - 1)) /\ Len(<<>>) = 0
  OBVIOUS
<1> QED
  BY <1>1, ModelAssumption DEF Matches, ModelAssumption

LEMMA InitRows == Init => RInv
<1> SUFFICES ASSUME Init PROVE RInv
  OBVIOUS
<1>1. Rows = [transfers |-> <<>>, row |-> <<>>]
  BY DEF Init, Rows
<1> QED
  BY <1>1, EmptyMatches DEF RInv

LEMMA NextRows == TInv /\ RInv /\ [Next]_vars => RInv'
<1> SUFFICES ASSUME TInv, RInv, [Next]_vars PROVE RInv'
  OBVIOUS
<1>r. /\ Rows.transfers = m_transfers /\ Rows.row = m_transactionRow
      /\ Rows' = [transfers |-> m_transfers', row |-> m_transactionRow']
  BY DEF Rows
<1>k. PICK k \in Nat : Matches(Rows, k)
  BY DEF RInv
<1>b. ASSUME NEW m, Becomes(m), \E j \in Nat : Matches(m, j)
      PROVE  RInv'
  <2>1. CASE UNCHANGED rows
    <3>1. Rows' = Rows
      BY <2>1 DEF Rows, rows
    <3> QED
      BY <3>1, <1>b, <1>k DEF RInv, Matches
  <2>2. CASE m_transfers' = m.transfers /\ m_transactionRow' = m.row
    <3>1. PICK j \in Nat : Matches(m, j)
      BY <1>b
    <3>2. Matches([transfers |-> m.transfers, row |-> m.row], j)
      BY <3>1 DEF Matches
    <3>3. Matches(Rows', j)
      BY <1>r, <2>2, <3>2
    <3> QED
      BY <3>3, <1>b DEF RInv, Matches
  <2> QED
    BY <1>b, <2>1, <2>2 DEF Becomes
<1>s. ASSUME UNCHANGED rows
      PROVE  RInv'
  <2>1. Rows' = Rows
    BY <1>s DEF Rows, rows
  <2> QED
    BY <2>1, <1>s, <1>k DEF RInv, Matches
<1>c. count \in 0..MaxTx /\ count \in Int /\ MaxTx \in Nat
  BY ModelAssumption DEF TInv, ModelAssumption
<1>1. CASE Open
  BY <1>1, <1>s DEF Open
<1>2. CASE Close
  BY <1>2, <1>s DEF Close
<1>3. CASE CloseDelete
  BY <1>3, <1>s DEF CloseDelete
<1>4. CASE OnInitDone
  BY <1>4, <1>s DEF OnInitDone
<1>5. CASE OnReload
  <2>1. \E j \in Nat : Matches(Fill([transfers |-> <<>>, row |-> <<>>], 0, count - 1), j)
    BY EmptyMatches, FillMatches, <1>c
  <2>2. Becomes(Fill([transfers |-> <<>>, row |-> <<>>], 0, count - 1))
    BY <1>5 DEF OnReload
  <2> QED
    BY <2>1, <2>2, <1>b
<1>6. CASE OnCreated
  <2>1. CASE UNCHANGED <<rows, gui>>
    BY <1>6, <2>1, <1>s DEF OnCreated
  <2>2. CASE Becomes(AppendUpTo(Rows, Head(queue).tx))
    <3> DEFINE tx == Head(queue).tx
    <3>1. DOMAIN Rows.row = 0..(k - 1) /\ Cardinality(0..(k - 1)) = k
      <4>1. Cardinality(0..(k - 1)) = k
        BY FS_Interval
      <4> QED
        BY <1>k, <4>1 DEF Matches
    <3>2. \E j \in Nat : Matches(AppendUpTo(Rows, tx), j)
      <4>1. CASE tx \in DOMAIN Rows.row
        BY <1>k, <4>1 DEF AppendUpTo
      <4>2. CASE tx \notin DOMAIN Rows.row
        <5>1. tx \in Int
          <6>1. Head(queue) \in Event
            BY <1>6 DEF OnCreated, Delivers, TInv
          <6> QED
            BY <6>1, Ids DEF Event
        <5> QED
          BY <1>k, <1>c, <3>1, <4>2, <5>1, FillMatches DEF AppendUpTo
      <4> QED
        BY <4>1, <4>2
    <3> QED
      BY <2>2, <3>2, <1>b
  <2> QED
    BY <1>6, <2>1, <2>2 DEF OnCreated
<1>7. CASE OnSendDone
  BY <1>7, <1>s DEF OnSendDone
<1>8. CASE OnClosed
  <2>1. Rows' = [transfers |-> <<>>, row |-> <<>>]
    BY <1>8, <1>r DEF OnClosed
  <2> QED
    BY <2>1, <1>c, EmptyMatches DEF RInv, Matches
<1>9. CASE OnProgress
  BY <1>9, <1>s DEF OnProgress
<1>10. CASE OnSynced
  BY <1>10, <1>s DEF OnSynced
<1>11. CASE NotifyEnds
  BY <1>11, <1>s DEF NotifyEnds
<1>12. CASE Tick
  BY <1>12, <1>s DEF Tick
<1>13. CASE LoadDone
  BY <1>13, <1>s DEF LoadDone
<1>14. CASE NewTransaction
  BY <1>14, <1>s DEF NewTransaction
<1>15. CASE Callback
  BY <1>15, <1>s DEF Callback
<1>16. CASE Progress
  BY <1>16, <1>s DEF Progress
<1>17. CASE Synced
  BY <1>17, <1>s DEF Synced
<1>18. CASE UNCHANGED vars
  BY <1>18, <1>s DEF vars
<1> QED
  BY <1>1, <1>2, <1>3, <1>4, <1>5, <1>6, <1>7, <1>8, <1>9, <1>10, <1>11, <1>12, <1>13, <1>14,
     <1>15, <1>16, <1>17, <1>18 DEF Next, Slots

(* Rows and map agree, whatever the timing.                                *)
THEOREM RowsInvariance == Spec => [](TInv /\ RInv)
  BY InitType, InitRows, NextType, NextRows, PTL DEF Spec

(* The rows of a transaction are where the map says, and the transactions  *)
(* of the model are the first ones of the wallet: appendTransaction()      *)
(* fills the gap up to the id it is told, whenever that comes.             *)
THEOREM RowsRight == Spec => []RowsMatch
<1>1. RInv => RowsMatch
  <2> SUFFICES ASSUME RInv PROVE RowsMatch
    OBVIOUS
  <2>1. PICK k \in Nat : Matches(Rows, k)
    BY DEF RInv
  <2>2. DOMAIN m_transactionRow = 0..(k - 1) /\ Cardinality(0..(k - 1)) = k
    BY <2>1, FS_Interval DEF Matches, Rows
  <2>3. /\ \A i \in DOMAIN m_transfers :
             /\ m_transfers[i] \in DOMAIN m_transactionRow
             /\ m_transactionRow[m_transfers[i]].first < i
             /\ i <= m_transactionRow[m_transfers[i]].first + m_transactionRow[m_transfers[i]].n
        /\ \A tx \in DOMAIN m_transactionRow :
             /\ m_transactionRow[tx].n > 0
             /\ \A i \in (m_transactionRow[tx].first + 1)
                         ..(m_transactionRow[tx].first + m_transactionRow[tx].n) :
                  m_transfers[i] = tx
    BY <2>1, <2>2 DEF Matches, Rows
  <2> QED
    BY <2>2, <2>3 DEF RowsMatch
<1> QED
  BY <1>1, RowsInvariance, PTL

-----------------------------------------------------------------------------
(* Where the signals of a wallet are: none outlives it when it is closed   *)
(* only while the library is in no callback ("quiet_close").               *)
NoCrash == gui # "crash" /\ "quiet_close" \in assumed

(* A callback and a noted id are of the wallet that is open.               *)
Noted ==
  /\ callback # Idle => wallet = "ready" /\ gui = "loop" /\ callback.tx \in 0..(count - 1)
  /\ m_lastWalletTransactionId # NoTx =>
       wallet = "ready" /\ gui = "loop" /\ m_lastWalletTransactionId \in 0..(count - 1)
  /\ notifying => m_lastWalletTransactionId # NoTx

(* Rows are of the wallet that is open, and are gone once it is closed.    *)
OfWallet ==
  /\ m_transfers # <<>> => owner = id
  /\ wallet # "ready" => m_transfers = <<>> /\ gui = "loop"
  /\ gui = "closing" /\ queue = <<>> => m_transfers = <<>>

(* What may be queued for a wallet w in the state g of the GUI thread: a   *)
(* load that failed is all that a wallet is told of that did not load, and *)
(* while one is being closed the signal that says so is the last one.      *)
QueueOk(q, w, g) ==
  /\ w = "null" => q = <<>>
  /\ w = "loading" => Len(q) <= 1 /\ \A i \in DOMAIN q : q[i] = Signal("initDone", NoTx)
  /\ w = "ready" => \A i \in DOMAIN q : q[i].ev = "initDone" => q[i].tx # NoTx
  /\ g = "loop" => \A i \in DOMAIN q : q[i].ev # "closed"
  /\ g = "closing" =>
       \A i \in DOMAIN q : /\ q[i].ev \notin {"initDone", "sendDone"}
                           /\ q[i].ev = "closed" <=> i = Len(q)

QInv == NoCrash /\ Noted /\ OfWallet /\ QueueOk(queue, wallet, gui)

LEMMA TailOk ==
  ASSUME NEW q \in Seq(Event), NEW w, NEW g, q # <<>>, QueueOk(q, w, g)
  PROVE  /\ QueueOk(Tail(q), w, g)
         /\ g = "closing" /\ Head(q).ev # "closed" => Tail(q) # <<>>
         /\ g = "closing" /\ Head(q).ev = "closed" => Tail(q) = <<>>
<1>1. /\ Tail(q) \in Seq(Event) /\ Len(Tail(q)) = Len(q) - 1
      /\ \A i \in DOMAIN Tail(q) : i + 1 \in DOMAIN q /\ Tail(q)[i] = q[i + 1] /\ i \in Int
      /\ Head(q) = q[1] /\ 1 \in DOMAIN q /\ Len(q) \in Nat \ {0}
  OBVIOUS
<1> QED
  BY <1>1 DEF QueueOk

LEMMA AppendOk ==
  ASSUME NEW q \in Seq(Event), NEW e \in Event, QueueOk(q, "ready", "loop"),
         e.ev # "closed", e.ev = "initDone" => e.tx # NoTx
  PROVE  QueueOk(Append(q, e), "ready", "loop")
<1>1. \A i \in DOMAIN Append(q, e) :
        (i \in DOMAIN q /\ Append(q, e)[i] = q[i]) \/ Append(q, e)[i] = e
  OBVIOUS
<1> QED
  BY <1>1 DEF QueueOk

LEMMA InitQuiet ==
  ASSUME \A c \in Cases : "quiet_close" \in c
  PROVE  Init => QInv
  BY DEF Init, QInv, NoCrash, Noted, OfWallet, QueueOk

LEMMA NextQuiet == TInv /\ QInv /\ [Next]_vars => QInv'
<1> SUFFICES ASSUME TInv, QInv, [Next]_vars PROVE QInv'
  OBVIOUS
<1> USE DEF QInv, NoCrash, Noted, OfWallet, rows, notes
<1>y. /\ queue \in Seq(Event) /\ count \in 0..MaxTx /\ count \in Int /\ NoTx = -1
      /\ MaxTx \in Int /\ wallet \in {"null", "loading", "ready"}
      /\ gui \in {"loop", "closing"}
  BY Ids DEF TInv, NoTx
<1>e. \A ev \in {"initDone", "reload", "created", "sendDone", "closed", "progress", "synced"},
         tx \in NoTx..(MaxTx - 1) :
        Signal(ev, tx) \in Event /\ Signal(ev, tx).ev = ev /\ Signal(ev, tx).tx = tx
  BY DEF Signal, Event
<1>n. NoTx \in NoTx..(MaxTx - 1) /\ 0 \in NoTx..(MaxTx - 1)
  BY Ids
<1>t. ASSUME queue # <<>>
      PROVE  /\ QueueOk(Tail(queue), wallet, gui)
             /\ gui = "closing" /\ Head(queue).ev # "closed" => Tail(queue) # <<>>
             /\ gui = "closing" /\ Head(queue).ev = "closed" => Tail(queue) = <<>>
             /\ Tail(queue) \in Seq(Event) /\ Head(queue) \in Event
             /\ Head(queue) = queue[1] /\ 1 \in DOMAIN queue /\ wallet # "null"
  <2>1. Head(queue) = queue[1] /\ 1 \in DOMAIN queue /\ Tail(queue) \in Seq(Event)
        /\ Head(queue) \in Event
    BY <1>t, <1>y
  <2> QED
    BY <1>t, <1>y, <2>1, TailOk DEF QueueOk
<1>c. ASSUME queue # <<>>, Head(queue).ev # "closed", wallet = "ready", gui = "loop",
             UNCHANGED <<wallet, gui>>,
             NEW ev \in {"reload", "created"}, NEW tx \in NoTx..(MaxTx - 1),
             queue' = Append(Tail(queue), Signal(ev, tx))
      PROVE  QueueOk(queue', wallet', gui')
  <2>1. Tail(queue) \in Seq(Event) /\ QueueOk(Tail(queue), "ready", "loop")
    BY <1>t, <1>c
  <2>2. Signal(ev, tx) \in Event /\ Signal(ev, tx).ev = ev
    BY <1>e
  <2>3. QueueOk(Append(Tail(queue), Signal(ev, tx)), "ready", "loop")
    BY ONLY <2>1, <2>2, AppendOk
  <2> QED
    BY <1>c, <2>3
<1>1. CASE Open
  BY <1>1, <1>y DEF Open, QueueOk
<1>2. CASE Close
  <2> DEFINE e == Signal("closed", NoTx)
             q == Append(queue, e)
  <2>1. /\ wallet = "ready" /\ gui = "loop" /\ gui' = "closing" /\ queue' = q /\ ~Pending
        /\ callback = Idle /\ UNCHANGED <<assumed, rows, wallet, id, callback, notifying>>
        /\ ~notifying /\ m_lastWalletTransactionId' = NoTx
    BY <1>2 DEF Close
  <2>2. e \in Event /\ e.ev = "closed"
    BY <1>e, <1>n
  <2> HIDE DEF e
  <2>3. /\ Len(q) = Len(queue) + 1 /\ q # <<>> /\ Len(queue) \in Nat
        /\ \A i \in DOMAIN queue : i <= Len(queue)
        /\ \A i \in DOMAIN q : \/ i \in DOMAIN queue /\ q[i] = queue[i]
                               \/ i = Len(queue) + 1 /\ q[i] = e
    BY <2>2, <1>y
  <2> HIDE DEF q
  <2>4. QueueOk(q, "ready", "closing")
    BY <2>1, <2>2, <2>3 DEF QueueOk, Pending
  <2> QED
    BY <2>1, <2>3, <2>4
<1>3. CASE CloseDelete
  <2>1. queue = <<>>
    <3>1. queue # <<>> => Len(queue) \in DOMAIN queue
      BY <1>y
    <3> QED
      BY <1>3, <3>1 DEF CloseDelete, QueueOk
  <2> QED
    BY <1>3, <2>1 DEF CloseDelete, QueueOk
<1>4. CASE OnInitDone
  <2>1. /\ queue # <<>> /\ Head(queue).ev = "initDone" /\ ~notifying
        /\ UNCHANGED <<assumed, rows, notes, id, count, callback, gui, notifying>>
        /\ IF Head(queue).tx = NoTx THEN wallet' = "null" /\ queue' = Tail(queue)
           ELSE UNCHANGED wallet /\ queue' = Append(Tail(queue), Signal("reload", NoTx))
    BY <1>4 DEF OnInitDone, Delivers
  <2>2. gui = "loop"
    BY <2>1, <1>t, <1>y DEF QueueOk
  <2>3. CASE Head(queue).tx = NoTx
    <3>1. wallet = "loading" /\ Len(queue) <= 1
      BY <2>1, <2>3, <1>t, <1>y DEF QueueOk
    <3>2. Tail(queue) = <<>>
      BY <3>1, <1>y, <2>1
    <3> QED
      BY <2>1, <2>2, <2>3, <3>1, <3>2 DEF QueueOk
  <2>4. CASE Head(queue).tx # NoTx
    <3>1. wallet = "ready"
      BY <2>1, <2>4, <1>t, <1>y, <1>e, <1>n DEF QueueOk
    <3>2. QueueOk(queue', wallet', gui')
      BY <2>1, <2>2, <2>4, <3>1, <1>c, <1>n
    <3> QED
      BY <2>1, <2>2, <2>4, <3>1, <3>2
  <2> QED
    BY <2>3, <2>4
<1>b. ASSUME NEW m, Becomes(m), queue # <<>>, queue' = Tail(queue), Head(queue).ev # "closed",
             wallet = "ready",
             UNCHANGED <<assumed, notes, wallet, id, count, callback, notifying>>
      PROVE  QInv'
  <2>1. owner' = id /\ UNCHANGED gui
    BY <1>b DEF Becomes
  <2> QED
    BY <1>b, <1>t, <1>y, <2>1
<1>s. ASSUME queue # <<>>, queue' = Tail(queue), Head(queue).ev # "closed",
             UNCHANGED <<assumed, rows, m_lastWalletTransactionId, wallet, id, count, callback,
                         gui, notifying>>
      PROVE  QInv'
  BY <1>s, <1>t, <1>y
<1>r. queue # <<>> /\ Head(queue).ev # "initDone" => wallet = "ready"
  BY <1>t, <1>y, <1>e, <1>n DEF QueueOk
<1>5. CASE OnReload
  BY <1>5, <1>b, <1>r DEF OnReload, Delivers
<1>6. CASE OnCreated
  <2>1. CASE UNCHANGED <<rows, gui>>
    BY <1>6, <2>1, <1>s DEF OnCreated, Delivers
  <2>2. CASE Becomes(AppendUpTo(Rows, Head(queue).tx))
    BY <1>6, <2>2, <1>b, <1>r DEF OnCreated, Delivers
  <2> QED
    BY <1>6, <2>1, <2>2 DEF OnCreated
<1>7. CASE OnSendDone
  <2>1. /\ queue # <<>> /\ Head(queue).ev = "sendDone" /\ ~notifying
        /\ UNCHANGED <<assumed, rows, notes, wallet, id, count, callback, notifying>>
    BY <1>7 DEF OnSendDone, Delivers
  <2>2. wallet = "ready" /\ gui = "loop"
    BY <2>1, <1>t, <1>y, <1>r DEF QueueOk
  <2>3. /\ gui' = gui
        /\ \/ queue' = Tail(queue)
           \/ queue' = Append(Tail(queue), Signal("created", Head(queue).tx))
    BY <1>7, <2>2 DEF OnSendDone
  <2>4. Head(queue).tx \in NoTx..(MaxTx - 1)
    BY <2>1, <1>t DEF Event
  <2>5. QueueOk(queue', wallet', gui')
    BY <2>1, <2>2, <2>3, <2>4, <1>t, <1>c
  <2> QED
    BY <2>1, <2>2, <2>3, <2>5
<1>8. CASE OnClosed
  <2>1. /\ queue # <<>> /\ Head(queue).ev = "closed" /\ queue' = Tail(queue)
        /\ m_transfers' = <<>>
        /\ UNCHANGED <<assumed, owner, notes, wallet, id, count, callback, gui, notifying>>
    BY <1>8 DEF OnClosed, Delivers
  <2> QED
    BY <2>1, <1>t, <1>r, <1>y
<1>9. CASE OnProgress
  BY <1>9, <1>s DEF OnProgress, Delivers
<1>k. ASSUME NEW e \in Event, queue' = Append(queue, e), wallet = "ready", gui = "loop",
             e.ev # "closed", e.ev = "initDone" => e.tx # NoTx, UNCHANGED <<wallet, gui>>
      PROVE  QueueOk(queue', wallet', gui')
  BY <1>k, <1>y, AppendOk
<1>10. CASE OnSynced
  <2>1. /\ queue # <<>> /\ Head(queue).ev = "synced" /\ ~notifying /\ Notify(Tail(queue))
        /\ UNCHANGED <<assumed, rows, m_lastWalletTransactionId, wallet, id, count, callback, gui>>
    BY <1>10 DEF OnSynced, Delivers
  <2>2. CASE m_lastWalletTransactionId = NoTx
    BY <2>1, <2>2, <1>s DEF Notify
  <2>3. CASE m_lastWalletTransactionId # NoTx
    <3>1. /\ queue' = Append(Tail(queue), Signal("created", m_lastWalletTransactionId))
          /\ notifying' = TRUE
      BY <2>1, <2>3 DEF Notify
    <3>2. QueueOk(queue', wallet', gui')
      BY <2>1, <2>3, <3>1, <1>c DEF TInv
    <3> QED
      BY <2>1, <2>3, <3>1, <3>2
  <2> QED
    BY <2>2, <2>3
<1>11. CASE NotifyEnds
  BY <1>11 DEF NotifyEnds
<1>12. CASE Tick
  <2>1. /\ queue' = Append(queue, Signal("created", m_lastWalletTransactionId))
        /\ notifying' = TRUE /\ m_lastWalletTransactionId # NoTx
        /\ UNCHANGED <<assumed, rows, notes, wallet, id, count, callback, gui>>
    BY <1>12 DEF Tick, Notify
  <2>2. QueueOk(queue', wallet', gui')
    BY <2>1, <1>e, <1>k DEF TInv
  <2> QED
    BY <2>1, <2>2
<1>13. CASE LoadDone
  <2>1. /\ gui = "loop" /\ callback = Idle /\ wallet = "loading"
        /\ \A i \in DOMAIN queue : queue[i].ev # "initDone"
        /\ UNCHANGED <<assumed, rows, notes, id, count, callback, gui, notifying>>
        /\ \/ wallet' = "ready" /\ queue' = Append(queue, Signal("initDone", 0))
           \/ wallet' = wallet /\ queue' = Append(queue, Signal("initDone", NoTx))
    BY <1>13 DEF LoadDone, Calls
  <2>2. queue = <<>>
    <3>1. queue # <<>> => 1 \in DOMAIN queue
      BY <1>y
    <3> QED
      BY <2>1, <3>1, <1>e, <1>n DEF QueueOk
  <2> DEFINE e == Signal("initDone", 0)
             f == Signal("initDone", NoTx)
  <2>3. e.ev = "initDone" /\ e.tx = 0 /\ f.ev = "initDone"
    BY <1>e, <1>n
  <2>4. \/ wallet' = "ready" /\ queue' = <<e>>
        \/ wallet' = "loading" /\ queue' = <<f>>
    <3>1. \A x : Append(<<>>, x) = <<x>>
      OBVIOUS
    <3> QED
      BY <2>1, <2>2, <3>1
  <2> HIDE DEF e
  <2>5. QueueOk(queue', wallet', gui')
    <3>1. \A x : Len(<<x>>) = 1 /\ DOMAIN <<x>> = {1} /\ <<x>>[1] = x
      OBVIOUS
    <3> QED
      BY <2>1, <2>3, <2>4, <3>1, <1>y DEF QueueOk
  <2> QED
    BY <2>1, <2>4, <2>5
<1>14. CASE NewTransaction
  <2>1. /\ gui = "loop" /\ wallet = "ready" /\ count' = count + 1
        /\ \E kind \in Kinds : callback' = [tx |-> count, kind |-> kind]
        /\ UNCHANGED <<assumed, rows, notes, wallet, id, gui, notifying, queue>>
    BY <1>14 DEF NewTransaction, Calls
  <2>2. callback'.tx = count
    BY <2>1
  <2>3. Noted'
    <3>1. callback'.tx \in 0..(count' - 1)
      BY <2>1, <2>2, <1>y
    <3>2. m_lastWalletTransactionId # NoTx => m_lastWalletTransactionId \in 0..(count' - 1)
      BY <2>1, <1>y
    <3> QED
      BY <2>1, <3>1, <3>2
  <2> QED
    BY <2>1, <2>3
<1>15. CASE Callback
  <2>1. /\ callback # Idle /\ callback' = Idle /\ wallet = "ready" /\ gui = "loop"
        /\ UNCHANGED <<assumed, rows, wallet, id, count, gui, notifying>>
        /\ callback.tx \in 0..(count - 1) /\ callback.tx \in NoTx..(MaxTx - 1)
    BY <1>15, <1>y DEF Callback, TInv
  <2>2. CASE UNCHANGED notes /\ (\E ev \in {"sendDone", "created"}, tx \in {callback.tx, NoTx} :
                                   queue' = Append(queue, Signal(ev, tx)))
    <3>1. QueueOk(queue', wallet', gui')
      BY <2>1, <2>2, <1>e, <1>k, <1>n
    <3> QED
      BY <2>1, <2>2, <3>1
  <2>3. CASE m_lastWalletTransactionId' = callback.tx /\ UNCHANGED queue
    <3>1. callback.tx # NoTx
      BY <2>1, <1>y
    <3> QED
      BY <2>1, <2>3, <3>1
  <2> QED
    <3>1. CASE callback.kind # "found"
      BY <1>15, <2>2, <3>1 DEF Callback
    <3>2. CASE callback.kind = "found" /\ m_isSynchronized
      BY <1>15, <2>2, <3>2 DEF Callback
    <3>3. CASE callback.kind = "found" /\ ~m_isSynchronized
      BY <1>15, <2>3, <3>3 DEF Callback
    <3> QED
      BY <3>1, <3>2, <3>3
<1>16. CASE Progress
  <2>1. QueueOk(queue', wallet', gui')
    BY <1>16, <1>e, <1>n, <1>k DEF Progress, Calls
  <2> QED
    BY <1>16, <2>1 DEF Progress, Calls
<1>17. CASE Synced
  <2>1. QueueOk(queue', wallet', gui')
    BY <1>17, <1>e, <1>n, <1>k DEF Synced, Calls
  <2> QED
    BY <1>17, <2>1 DEF Synced, Calls
<1>18. CASE UNCHANGED vars
  BY <1>18 DEF vars
<1> QED
  BY <1>1, <1>2, <1>3, <1>4, <1>5, <1>6, <1>7, <1>8, <1>9, <1>10, <1>11, <1>12, <1>13, <1>14,
     <1>15, <1>16, <1>17, <1>18 DEF Next, Slots

(* Signals, rows and the noted id are of the wallet that is open.          *)
THEOREM QuietInvariance ==
  ASSUME \A c \in Cases : "quiet_close" \in c
  PROVE  Spec => [](TInv /\ QInv)
  BY InitType, InitQuiet, NextType, NextQuiet, PTL DEF Spec

(* Every variable has a value of its type, and the noted id is one of the  *)
(* wallet that is open: close() forgets it, as it forgets the timer.       *)
THEOREM TypeCorrect ==
  ASSUME \A c \in Cases : "quiet_close" \in c
  PROVE  Spec => []TypeOK
<1>1. TInv /\ RInv /\ QInv => TypeOK
  <2> SUFFICES ASSUME TInv, RInv, QInv PROVE TypeOK
    OBVIOUS
  <2>1. PICK k \in Nat : Matches(Rows, k)
    BY DEF RInv
  <2>2. m_transfers \in Seq(0..(MaxTx - 1)) /\ DOMAIN m_transactionRow \subseteq 0..(MaxTx - 1)
    BY <2>1, Ids DEF Matches, Rows
  <2>3. m_lastWalletTransactionId \in NoTx..(IF wallet = "null" THEN NoTx ELSE count - 1)
    BY Ids DEF TInv, QInv, Noted, NoTx
  <2>4. {m_isSynchronized, timer, notifying} \subseteq BOOLEAN
    BY DEF TInv
  <2> QED
    BY <2>2, <2>3, <2>4 DEF TInv, TypeOK, Event
<1> QED
  BY <1>1, RowsInvariance, QuietInvariance, PTL

(* No slot reads a wallet that is deleted, and the rows that are shown are *)
(* of the wallet that is open: the signal of closing resets the model      *)
(* before close() deletes the wallet.                                      *)
THEOREM OpenWalletRows ==
  ASSUME \A c \in Cases : "quiet_close" \in c
  PROVE  Spec => []RowsOfOpenWallet
<1>1. TInv /\ QInv => RowsOfOpenWallet
  BY DEF QInv, NoCrash, OfWallet, RowsOfOpenWallet, WalletAtHand
<1> QED
  BY <1>1, QuietInvariance, PTL
=============================================================================
