--------------------------- MODULE MCWalletAdapter ---------------------------
(***************************************************************************)
(* Instances of WalletAdapter for TLC.                                     *)
(***************************************************************************)
EXTENDS WalletAdapter

AllDisciplines == Disciplines
AllButFlagFirst == Disciplines \ {"flag_first"}
AllButRenameFirst == Disciplines \ {"rename_first"}
AllButIdleClose == Disciplines \ {"idle_close"}
AllButNoBlank == Disciplines \ {"no_blank"}
=============================================================================
