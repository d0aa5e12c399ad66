-------------------------- MODULE MCPaymentServer --------------------------
(***************************************************************************)
(* Instances of PaymentServer for TLC.                                     *)
(***************************************************************************)
EXTENDS PaymentServer, TLC

AllDisciplines == Disciplines
AllButWithLink == Disciplines \ {"with_link"}
AllButEndsIdle == Disciplines \ {"ends_idle"}
AllButClientLives == Disciplines \ {"client_lives"}

Symmetry == Permutations(Instances)

(* What a behaviour may assume.                                            *)
AllOrNothing == {Disciplines, {}}
OnlyAllDisciplines == {Disciplines}
OnlyAllButWithLink == {AllButWithLink}
OnlyAllButEndsIdle == {AllButEndsIdle}
OnlyAllButClientLives == {AllButClientLives}
=============================================================================
