----------------------------- MODULE Fat32Names -----------------------------
(***************************************************************************)
(* A file name on its way: typed, put into a directory record by mkdir or  *)
(* writeFile, read back by list_files, compared with a name typed later.   *)
(* Module Fat32 takes these conversions for granted: its names are those   *)
(* that come back as they were typed.                                      *)
(*                                                                         *)
(* The sizes are parameters (8, 3 and 7 in the code); the shell's buffers  *)
(* are zero behind the name.                                               *)
(***************************************************************************)
EXTENDS Integers, Sequences, SequencesExt

CONSTANTS
  BASE, EXT,   \* bytes of the two parts of a name in a record
  COMPARED,    \* characters the shell's strcmp looks at
  Char,        \* characters a name is made of, "." among them
  MaxLen       \* bound: length of a typed name

NUL   == "nul"
SPACE == " "

ASSUME NamesAssumption ==
  /\ BASE \in Nat \ {0} /\ EXT \in Nat \ {0} /\ MaxLen \in Nat
  /\ COMPARED \in Nat /\ COMPARED <= BASE
  /\ "." \in Char /\ {NUL, SPACE} \cap Char = {}

VARIABLES
  pc,       \* "typed", "stored" or "listed"
  typed, record, shown

vars == <<pc, typed, record, shown>>

\* Byte i of a zero-filled buffer, from 0.
At(s, i) == IF i < Len(s) THEN s[i + 1] ELSE NUL

\* Mutant: the terminator does not end the loop, the extension is always copied.
writeFileName_no_return(filename) ==
  LET index == Min({i \in 0..BASE : i = BASE \/ At(filename, i) \in {".", NUL}})
  IN  [i \in 1..(BASE + EXT) |->
         IF i <= BASE THEN IF i <= index THEN filename[i] ELSE SPACE
         ELSE At(filename, index + i - BASE)]

\* The loop stops at a dot, at the end of the name, which leaves the
\* extension blank, or after BASE characters, which does not.
writeFileName(filename) ==
  LET index == Min({i \in 0..BASE : i = BASE \/ At(filename, i) \in {".", NUL}})
  IN  [i \in 1..(BASE + EXT) |->
         IF i <= BASE THEN IF i <= index THEN filename[i] ELSE SPACE
         ELSE IF index < BASE /\ At(filename, index) = NUL THEN SPACE
         ELSE At(filename, index + i - BASE)]

\* A string up to its terminator.
Terminated(s) ==
  LET end == SelectInSeq(s, LAMBDA c : c = NUL)
  IN  IF end = 0 THEN s ELSE SubSeq(s, 1, end - 1)

\* Mutant: no dot before an extension that begins with the terminator.
readFileName_no_dot(rec) ==
  LET index == SelectLastInSubSeq(rec, 1, BASE, LAMBDA c : c # SPACE)
  IN  Terminated(SubSeq(rec, 1, index)
        \o IF rec[BASE + 1] \in {SPACE, NUL} THEN <<>>
           ELSE <<".">> \o SubSeq(rec, BASE + 1, BASE + EXT))

\* Trailing blanks of the base are stripped; no dot before a blank
\* extension.
readFileName(rec) ==
  LET index == SelectLastInSubSeq(rec, 1, BASE, LAMBDA c : c # SPACE)
  IN  IF rec[1] = NUL THEN <<>>
      ELSE Terminated(SubSeq(rec, 1, index)
        \o IF rec[BASE + 1] = SPACE THEN <<>>
           ELSE <<".">> \o SubSeq(rec, BASE + 1, BASE + EXT))

\* Mutant: the whole names are compared.
strcmp_full(a, b) == a = b

\* Equal for the shell.
strcmp(a, b) == \A i \in 0..(COMPARED - 1) : At(a, i) = At(b, i)

----------------------------------------------------------------------------
\* mkdir and write refuse the dot names.
Typed == UNION {[1..n -> Char] : n \in 1..MaxLen} \ {<<".">>, <<".", ".">>}

Init == pc = "typed" /\ typed \in Typed /\ record = <<>> /\ shown = <<>>

store ==
  /\ pc = "typed" /\ pc' = "stored"
  /\ record' = writeFileName(typed)
  /\ UNCHANGED <<typed, shown>>

list_files ==
  /\ pc = "stored" /\ pc' = "listed"
  /\ shown' = readFileName(record)
  /\ UNCHANGED <<typed, record>>

\* The name is removed, and the one ls showed is typed.
retype ==
  /\ pc = "listed" /\ pc' = "typed"
  /\ typed' = shown
  /\ UNCHANGED <<record, shown>>

Next == store \/ list_files \/ retype

Spec == Init /\ [][Next]_vars

----------------------------------------------------------------------------
\* A name as FAT knows it: up to BASE characters, then nothing, or a dot and
\* up to EXT more.
Dotless(s) == \A i \in DOMAIN s : s[i] # "."

FatName(n) ==
  \/ Len(n) \in 1..BASE /\ Dotless(n)
  \/ \E k \in 1..BASE, e \in 1..EXT :
       /\ Len(n) = k + 1 + e /\ n[k + 1] = "."
       /\ Dotless(SubSeq(n, 1, k)) /\ Dotless(SubSeq(n, k + 2, Len(n)))

\* Such a name without an extension whose base is full, and one whose
\* extension is not.
FullBase(n) == Len(n) = BASE /\ Dotless(n)
ShortExt(n) == \E k \in 1..BASE : At(n, k) = "." /\ Len(n) < k + 1 + EXT

\* "... a specific format that we convert to a normal filename": every name
\* FAT knows comes back as it was typed, but for a full base without an
\* extension (DOCUMENT), whose extension the loop takes from the terminator:
\* it comes back with a dot (DOCUMENT.).  There and behind a short extension
\* (A.C) the record is filled with terminators, where another system expects
\* blanks; nowhere else.
RoundTrip ==
  pc = "listed" /\ FatName(typed) =>
    /\ shown = IF FullBase(typed) THEN Append(typed, ".") ELSE typed
    /\ (\E i \in DOMAIN record : record[i] = NUL) <=> FullBase(typed) \/ ShortExt(typed)

\* Whatever was typed, the name ls shows is stable: stored again it gives
\* the same record, so that it stands for this entry alone.
ShownIsStable == [][pc = "typed" /\ record # <<>> => record' = record]_vars

\* The shell's message " doesn't exist" is not given for a name under which
\* an entry was just made: if FAT knows such names, and also, although the
\* record keeps less of it, if its dot and its end come after the characters
\* that are compared.
FoundAgain ==
  pc = "listed" /\ (FatName(typed) \/ \A i \in 0..COMPARED : At(typed, i) \notin {".", NUL})
    => strcmp(shown, typed)
=============================================================================
