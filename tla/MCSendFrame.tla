---------------------------- MODULE MCSendFrame ----------------------------
(***************************************************************************)
(* Instances of SendFrame for TLC.                                         *)
(***************************************************************************)
EXTENDS SendFrame

AllDisciplines == Disciplines
AllButUndisturbed == Disciplines \ {"undisturbed"}
AllButAsSelected == Disciplines \ {"as_selected"}
AllButFeeCovered == Disciplines \ {"fee_covered"}
AllButSettled == Disciplines \ {"settled"}

(* What a behaviour may assume.                                            *)
AllOrNothing == {Disciplines, {}}
OnlyAllButUndisturbed == {AllButUndisturbed}
OnlyAllButAsSelected == {AllButAsSelected}
OnlyAllButFeeCovered == {AllButFeeCovered}
OnlyAllButSettled == {AllButSettled}
OnlyAllDisciplines == {AllDisciplines}
=============================================================================
