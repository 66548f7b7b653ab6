------------------------------ MODULE MCSystem ------------------------------
(***************************************************************************)
(* System for TLC.  The process table has its real eight entries; memory   *)
(* is laid out like the real one, with three pages per process slot.       *)
(***************************************************************************)
EXTENDS System

\* Any injective table of non-zero bytes away from the control characters.
MCGlyph == [k \in RowKeys \X BOOLEAN |-> IF k[2] THEN 128 + k[1] ELSE 64 + k[1]]

\* The shell's binary takes two pages, the others one.
MCImagePages == [i \in Programs |-> IF i = P_SHELL THEN 2 ELSE 1]
\* Only start commands: nothing is ever stopped, so waiting is the only way
\* RoundRobin can come true.
MCStartOnly == {"sh_start_load"}

\* Return on an empty line only.
MCNoCommand == {"sh_prompt"}
=============================================================================
