------------------------ MODULE MCTransactionsModel ------------------------
(***************************************************************************)
(* Instances of TransactionsModel for TLC.                                 *)
(***************************************************************************)
EXTENDS TransactionsModel

(* The third transaction has no transfers, the others one or two.          *)
Transfers == [tx \in 0..(MaxTx - 1) |-> CASE tx = 0 -> 2 [] tx = 2 -> 0 [] OTHER -> 1]

AllDisciplines == Disciplines
OnlyQuietClose == {"quiet_close"}
OnlyNotifyWhole == {"notify_whole"}

(* What a behaviour may assume.                                            *)
WholeOrNot == {Disciplines, {"quiet_close"}}
OnlyAllDisciplines == {Disciplines}
OnlyOnlyNotifyWhole == {OnlyNotifyWhole}
=============================================================================
