--------------------------- MODULE MCMiningFrame ---------------------------
(***************************************************************************)
(* Instances of MiningFrame for TLC.                                       *)
(***************************************************************************)
EXTENDS MiningFrame

AllDisciplines == Disciplines
AllButResetOpens == Disciplines \ {"reset_opens"}
AllButQuietClose == Disciplines \ {"quiet_close"}
=============================================================================
