----------------------------- MODULE WalletFile -----------------------------
(***************************************************************************)
(* What a user may expect of the wallet on disk: versions of the wallet    *)
(* are made one after the other, and the version on disk only ever moves   *)
(* forward to one that was made.  No save, backup, crash or restart loses  *)
(* it or replaces it by an older one.                                      *)
(***************************************************************************)
EXTENDS Integers

VARIABLES
  made,     \* the newest version that was ever made, 0 when there is none
  stored    \* the version on disk, 0 when there is none

Init == made \in Nat /\ stored = made

Make == made' = made + 1 /\ stored' = stored

Store == stored' \in (stored + 1)..made /\ made' = made

Spec == Init /\ [][Make \/ Store]_<<made, stored>>
=============================================================================
