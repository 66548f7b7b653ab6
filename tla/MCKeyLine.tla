------------------------------ MODULE MCKeyLine ------------------------------
(***************************************************************************)
(* KeyLine for TLC.                                                        *)
(***************************************************************************)
EXTENDS KeyLine

\* What a PC's firmware programs.
MCBiosBase == [c \in Chips |-> IF c = "master" THEN 8 ELSE 112]

\* Letters, whatever the row.
MCGlyph == [k \in RowKeys \X BOOLEAN |-> IF k[2] THEN 65 ELSE 97]
=============================================================================
