--------------------------- MODULE MCShellEditor ---------------------------
(***************************************************************************)
(* ShellEditor for TLC.                                                    *)
(***************************************************************************)
EXTENDS ShellEditor

MCMessages == {<<"m", "\n">>}
=============================================================================
