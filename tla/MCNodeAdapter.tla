--------------------------- MODULE MCNodeAdapter ---------------------------
(***************************************************************************)
(* Instances of NodeAdapter for TLC.                                       *)
(***************************************************************************)
EXTENDS NodeAdapter

AllDisciplines == Disciplines
AllButQuietStop == Disciplines \ {"quiet_stop"}

(* A node that starts and lives, and one that may fail at any time.        *)
WellOrFailing == {Disciplines, {"connect_first"}}
OnlyAllButQuietStop == {AllButQuietStop}
=============================================================================
