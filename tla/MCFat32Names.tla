---------------------------- MODULE MCFat32Names ----------------------------
(***************************************************************************)
(* Fat32Names for TLC: every name over three characters that can overrun   *)
(* base and extension.                                                     *)
(***************************************************************************)
EXTENDS Fat32Names
=============================================================================
