------------------------------- MODULE MCFat32 -------------------------------
(***************************************************************************)
(* Fat32 for TLC.                                                          *)
(***************************************************************************)
EXTENDS Fat32

\* Short names compare in full.
MCPrefix == [n \in Names \cup Dots |-> n]

\* With two sectors per cluster, two clusters.
MCThreeSectors == {<<"x", "y", "x">>}
=============================================================================
