-------------------------- MODULE Fat32NamesProofs --------------------------
(***************************************************************************)
(* The way of a name through writeFileName and readFileName, for every     *)
(* size of base and extension and every name.                              *)
(***************************************************************************)
EXTENDS Fat32Names, WellFoundedInduction, TLAPS

\* What can be typed: not empty, without blanks and terminators.
Name == {n \in Seq(Char) : n # <<>>}

\* Where the loop of writeFileName stops.
Stop(n) == Min({i \in 0..BASE : i = BASE \/ At(n, i) \in {".", NUL}})

\* The name is all base: it has no dot and is shorter than BASE.
Short(n) == Stop(n) < BASE /\ At(n, Stop(n)) = NUL

\* The record of name n, and the name shown for it, byte by byte.
RecordOf(n, r) ==
  /\ r \in [1..(BASE + EXT) -> Char \cup {NUL, SPACE}]
  /\ \A i \in 1..Stop(n) : r[i] = n[i]
  /\ \A i \in (Stop(n) + 1)..BASE : r[i] = SPACE
  /\ \A i \in 1..EXT : r[BASE + i] = IF Short(n) THEN SPACE ELSE At(n, Stop(n) + i)

ShownFor(n, s) ==
  /\ s \in Name
  /\ \A i \in 0..(Stop(n) - 1) : At(s, i) = At(n, i)
  /\ At(s, Stop(n)) = IF Short(n) THEN NUL ELSE "."
  /\ ~Short(n) => /\ \A i \in 1..EXT : At(s, Stop(n) + i) = At(n, Stop(n) + i)
                  /\ Len(s) <= Stop(n) + 1 + EXT

\* Numbers have a least and, below a bound, a greatest one.
LEMMA LeastNumber ==
  ASSUME NEW T \in SUBSET Nat, T # {}
  PROVE  Min(T) \in T /\ \A y \in T : Min(T) <= y
<1>1. PICK x \in T : \A y \in T : ~(<<y, x>> \in OpToRel(<, Nat))
  BY NatLessThanWellFounded, WFMin
<1>2. \A y \in T : ~(y < x)
  BY <1>1 DEF OpToRel
<1>3. \E z \in T : \A y \in T : z =< y
  BY <1>2
<1> QED  BY <1>3 DEF Min

LEMMA GreatestNumber ==
  ASSUME NEW m \in Nat, NEW T \in SUBSET (0..m), T # {}
  PROVE  Max(T) \in T /\ \A y \in T : Max(T) >= y
<1> DEFINE U == {m - x : x \in T}
<1>1. U \in SUBSET Nat /\ U # {}
  <2>1. \A x \in T : x \in Nat /\ x <= m
    OBVIOUS
  <2>2. \A x \in T : m - x \in Nat
    BY <2>1
  <2>3. \A u \in U : u \in Nat
    BY <2>2
  <2>4. PICK x \in T : TRUE
    OBVIOUS
  <2>5. m - x \in U
    BY <2>4
  <2> QED  BY <2>3, <2>5
<1>2. Min(U) \in U /\ \A y \in U : Min(U) <= y
  BY <1>1, LeastNumber
<1>3. PICK z \in T : Min(U) = m - z
  BY <1>2
<1>4. \A y \in T : m - z <= m - y
  BY <1>2, <1>3
<1>5. \A y \in T : z >= y
  BY <1>4
<1> QED  BY <1>5 DEF Max

\* The loop stops within the name or at its end.
LEMMA StopIs ==
  ASSUME NEW n \in Name
  PROVE  /\ Stop(n) \in 0..BASE /\ Stop(n) <= Len(n)
         /\ Stop(n) = BASE \/ At(n, Stop(n)) \in {".", NUL}
         /\ \A i \in 0..(Stop(n) - 1) : At(n, i) \notin {".", NUL}
         /\ Short(n) <=> Stop(n) = Len(n) /\ Len(n) < BASE
<1> DEFINE T == {i \in 0..BASE : i = BASE \/ At(n, i) \in {".", NUL}}
<1>0. BASE \in Nat /\ n \in Seq(Char) /\ Len(n) \in Nat
  BY NamesAssumption DEF Name
<1>1. T \in SUBSET Nat /\ BASE \in T
  BY <1>0
<1>2. Stop(n) = Min(T)
  BY DEF Stop
<1>3. Stop(n) \in T /\ \A y \in T : Stop(n) <= y
  BY <1>1, <1>2, LeastNumber
<1>4. Stop(n) \in 0..BASE /\ (Stop(n) = BASE \/ At(n, Stop(n)) \in {".", NUL})
  BY <1>3
<1>5. \A i \in 0..(Stop(n) - 1) : At(n, i) \notin {".", NUL}
  <2> SUFFICES ASSUME NEW i \in 0..(Stop(n) - 1), At(n, i) \in {".", NUL} PROVE FALSE
    OBVIOUS
  <2>1. i \in T
    BY <1>4, <1>0
  <2> QED  BY <2>1, <1>3, <1>4, <1>0
<1>6. Stop(n) <= Len(n)
  <2> SUFFICES ASSUME Len(n) < Stop(n) PROVE FALSE
    BY <1>0, <1>4
  <2>1. At(n, Len(n)) = NUL
    BY <1>0 DEF At
  <2> QED  BY <2>1, <1>5, <1>4, <1>0
<1>7. \A i \in 0..(Len(n) - 1) : At(n, i) \in Char /\ At(n, i) # NUL
  BY <1>0, NamesAssumption DEF At
<1>8. At(n, Len(n)) = NUL
  BY <1>0 DEF At
<1>9. Short(n) <=> Stop(n) = Len(n) /\ Len(n) < BASE
  <2>1. ASSUME Short(n) PROVE Stop(n) = Len(n) /\ Len(n) < BASE
    <3>1. Stop(n) < BASE /\ At(n, Stop(n)) = NUL
      BY <2>1 DEF Short
    <3>2. ~(Stop(n) < Len(n))
      BY <3>1, <1>7, <1>4, <1>0
    <3> QED  BY <3>1, <3>2, <1>6, <1>4, <1>0
  <2>2. ASSUME Stop(n) = Len(n), Len(n) < BASE PROVE Short(n)
    BY <2>2, <1>8 DEF Short
  <2> QED  BY <2>1, <2>2
<1> QED  BY <1>4, <1>5, <1>6, <1>9

\* Bytes of a name.
LEMMA AtIs ==
  ASSUME NEW n \in Seq(Char), NEW i \in Nat
  PROVE  /\ i < Len(n) => At(n, i) = n[i + 1] /\ At(n, i) \in Char /\ At(n, i) # NUL /\ At(n, i) # SPACE
         /\ i >= Len(n) => At(n, i) = NUL
         /\ At(n, i) # SPACE
<1>1. ASSUME i < Len(n) PROVE At(n, i) = n[i + 1] /\ n[i + 1] \in Char
  BY <1>1 DEF At
<1>2. ASSUME i >= Len(n) PROVE At(n, i) = NUL
  BY <1>2 DEF At
<1>3. NUL \notin Char /\ SPACE \notin Char /\ NUL # SPACE
  BY NamesAssumption DEF NUL, SPACE
<1> QED  BY <1>1, <1>2, <1>3

\* What writeFileName puts into the record.
LEMMA Written ==
  ASSUME NEW n \in Name
  PROVE  RecordOf(n, writeFileName(n))
<1>0. BASE \in Nat \ {0} /\ EXT \in Nat \ {0} /\ n \in Seq(Char) /\ Len(n) \in Nat
  BY NamesAssumption DEF Name
<1>1. /\ Stop(n) \in 0..BASE /\ Stop(n) <= Len(n)
  BY StopIs
<1>2. writeFileName(n) =
        [i \in 1..(BASE + EXT) |->
           IF i <= BASE THEN IF i <= Stop(n) THEN n[i] ELSE SPACE
           ELSE IF Short(n) THEN SPACE
           ELSE At(n, Stop(n) + i - BASE)]
  BY DEF writeFileName, Stop, Short
<1> DEFINE r == writeFileName(n)
<1>3. ASSUME NEW i \in 1..(BASE + EXT) PROVE r[i] \in Char \cup {NUL, SPACE}
  <2>1. CASE i <= BASE
    BY <2>1, <1>0, <1>1, <1>2
  <2>2. CASE i > BASE
    <3>1. Stop(n) + i - BASE \in Nat
      BY <2>2, <1>0, <1>1
    <3>2. At(n, Stop(n) + i - BASE) \in Char \cup {NUL}
      BY <3>1, <1>0, AtIs
    <3> QED  BY <2>2, <3>2, <1>0, <1>2
  <2> QED  BY <2>1, <2>2, <1>0
<1>4. r \in [1..(BASE + EXT) -> Char \cup {NUL, SPACE}]
  BY <1>2, <1>3
<1>5. \A i \in 1..Stop(n) : r[i] = n[i]
  BY <1>0, <1>1, <1>2
<1>6. \A i \in (Stop(n) + 1)..BASE : r[i] = SPACE
  BY <1>0, <1>1, <1>2
<1>7. ASSUME NEW i \in 1..EXT
      PROVE  r[BASE + i] = IF Short(n) THEN SPACE ELSE At(n, Stop(n) + i)
  <2>1. BASE + i \in 1..(BASE + EXT) /\ ~(BASE + i <= BASE) /\ Stop(n) + (BASE + i) - BASE = Stop(n) + i
    BY <1>0, <1>1
  <2> QED  BY <2>1, <1>2
<1> QED  BY <1>4, <1>5, <1>6, <1>7 DEF RecordOf

\* A string up to its terminator.
LEMMA TerminatedIs ==
  ASSUME NEW t \in Seq(Char \cup {NUL})
  PROVE  /\ Terminated(t) \in Seq(Char) /\ Len(Terminated(t)) <= Len(t)
         /\ \A i \in 1..Len(Terminated(t)) : Terminated(t)[i] = t[i]
         /\ Len(Terminated(t)) < Len(t) => t[Len(Terminated(t)) + 1] = NUL
<1> DEFINE I == {i \in 1..Len(t) : t[i] = NUL}
<1>0. Len(t) \in Nat /\ \A i \in 1..Len(t) : t[i] \in Char \cup {NUL}
  OBVIOUS
<1>1. SelectInSeq(t, LAMBDA c : c = NUL) = IF I # {} THEN Min(I) ELSE 0
  BY DEF SelectInSeq
<1>2. CASE I = {}
  <2>1. Terminated(t) = t
    BY <1>2, <1>1 DEF Terminated
  <2>2. \A i \in 1..Len(t) : t[i] \in Char
    BY <1>2, <1>0
  <2>3. t \in Seq(Char)
    BY <2>2
  <2> QED  BY <2>1, <2>3, <1>0
<1>3. CASE I # {}
  <2>1. I \in SUBSET Nat
    BY <1>0
  <2>2. Min(I) \in I /\ \A y \in I : Min(I) <= y
    BY <2>1, <1>3, LeastNumber
  <2> DEFINE e == Min(I)
  <2>3. e \in 1..Len(t) /\ t[e] = NUL
    BY <2>2
  <2>4. \A i \in 1..(e - 1) : t[i] # NUL
    <3> SUFFICES ASSUME NEW i \in 1..(e - 1), t[i] = NUL PROVE FALSE
      OBVIOUS
    <3>1. i \in I
      BY <2>3, <1>0
    <3> QED  BY <3>1, <2>2, <2>3, <1>0
  <2> HIDE DEF e, I
  <2>5. Terminated(t) = SubSeq(t, 1, e - 1)
    <3>1. SelectInSeq(t, LAMBDA c : c = NUL) = e
      BY <1>1, <1>3 DEF e
    <3>2. e # 0
      BY <2>3, <1>0
    <3> QED  BY <3>1, <3>2, Zenon DEF Terminated
  <2>6. /\ Len(Terminated(t)) = e - 1
        /\ \A i \in 1..(e - 1) : Terminated(t)[i] = t[i]
    BY <2>5, <2>3, <1>0
  <2>7. Terminated(t) \in Seq(Char)
    <3>1. \A i \in 1..(e - 1) : t[i] \in Char
      BY <2>3, <2>4, <1>0
    <3>2. SubSeq(t, 1, e - 1) = [i \in 1..(e - 1) |-> t[i]]
      BY <2>3, <1>0
    <3>3. [i \in 1..(e - 1) |-> t[i]] \in Seq(Char)
      BY <2>3, <1>0, <3>1
    <3> QED  BY <2>5, <3>2, <3>3
  <2> QED  BY <2>6, <2>7, <2>3, <1>0
<1> QED  BY <1>2, <1>3

\* readFileName finds the end of the base where writeFileName left it.
LEMMA BaseFound ==
  ASSUME NEW n \in Name, NEW r, RecordOf(n, r)
  PROVE  SelectLastInSubSeq(r, 1, BASE, LAMBDA c : c # SPACE) = Stop(n)
<1> DEFINE I == {i \in 1..BASE : r[i] # SPACE}
<1>0. BASE \in Nat \ {0} /\ n \in Seq(Char) /\ Len(n) \in Nat /\ SPACE \notin Char
  BY NamesAssumption DEF Name
<1>1. Stop(n) \in 0..BASE /\ Stop(n) <= Len(n)
  BY StopIs
<1>2. /\ \A i \in 1..Stop(n) : r[i] = n[i]
      /\ \A i \in (Stop(n) + 1)..BASE : r[i] = SPACE
  BY DEF RecordOf
<1>3. \A i \in 1..Stop(n) : n[i] \in Char /\ n[i] # SPACE
  BY <1>0, <1>1
<1>4. I = 1..Stop(n)
  <2>1. ASSUME NEW i \in I PROVE i \in 1..Stop(n)
    BY <1>1, <1>2, <1>0
  <2>2. ASSUME NEW i \in 1..Stop(n) PROVE i \in I
    BY <1>1, <1>2, <1>3, <1>0
  <2> QED  BY <2>1, <2>2
<1>5. SelectLastInSubSeq(r, 1, BASE, LAMBDA c : c # SPACE) = IF I # {} THEN Max(I) ELSE 0
  BY DEF SelectLastInSubSeq
<1> HIDE DEF I
<1>6. CASE Stop(n) = 0
  BY <1>6, <1>4, <1>5
<1>7. CASE Stop(n) # 0
  <2>1. Stop(n) \in I /\ I # {} /\ I \in SUBSET (0..BASE)
    BY <1>7, <1>4, <1>1, <1>0
  <2>2. Max(I) \in I /\ \A y \in I : Max(I) >= y
    BY <2>1, <1>0, GreatestNumber
  <2>3. Max(I) = Stop(n)
    BY <2>1, <2>2, <1>4, <1>1, <1>0
  <2> QED  BY <2>1, <2>3, <1>5
<1> QED  BY <1>6, <1>7

\* What is shown for the record of a name; one that is all base comes back as
\* it was.
LEMMA ReadBack ==
  ASSUME NEW n \in Name, NEW r, RecordOf(n, r)
  PROVE  ShownFor(n, readFileName(r)) /\ (Short(n) => readFileName(r) = n)
<1> DEFINE k == Stop(n)
           s == readFileName(r)
           t == SubSeq(r, 1, k)
                  \o IF r[BASE + 1] = SPACE THEN <<>> ELSE <<".">> \o SubSeq(r, BASE + 1, BASE + EXT)
<1>0. /\ BASE \in Nat \ {0} /\ EXT \in Nat \ {0} /\ n \in Seq(Char) /\ n # <<>> /\ Len(n) \in Nat
      /\ Len(n) > 0 /\ NUL \notin Char /\ SPACE \notin Char /\ "." \in Char /\ NUL # SPACE
  <2>1. /\ BASE \in Nat \ {0} /\ EXT \in Nat \ {0}
        /\ NUL \notin Char /\ SPACE \notin Char /\ "." \in Char /\ NUL # SPACE
    BY NamesAssumption DEF NUL, SPACE
  <2>2. n \in Seq(Char) /\ n # <<>>
    BY DEF Name
  <2>3. Len(n) \in Nat /\ Len(n) > 0
    BY <2>2
  <2> QED  BY <2>1, <2>2, <2>3
<1>1. /\ k \in 0..BASE /\ k <= Len(n) /\ (Short(n) <=> k = Len(n) /\ Len(n) < BASE)
  BY StopIs
<1>2. /\ r \in [1..(BASE + EXT) -> Char \cup {NUL, SPACE}]
      /\ \A i \in 1..k : r[i] = n[i]
      /\ \A i \in (k + 1)..BASE : r[i] = SPACE
      /\ \A i \in 1..EXT : r[BASE + i] = IF Short(n) THEN SPACE ELSE At(n, k + i)
  BY DEF RecordOf
<1>3. r[1] # NUL
  <2>1. CASE k = 0
    BY <2>1, <1>0, <1>2
  <2>2. CASE k # 0
    BY <2>2, <1>0, <1>1, <1>2
  <2> QED  BY <2>1, <2>2
<1>4. s = Terminated(t)
  BY <1>3, BaseFound DEF readFileName
<1>5. r \in Seq(Char \cup {NUL, SPACE}) /\ Len(r) = BASE + EXT
  BY <1>2, <1>0
<1>6. Len(SubSeq(r, 1, k)) = k /\ \A i \in 1..k : SubSeq(r, 1, k)[i] = n[i]
  BY <1>5, <1>1, <1>0, <1>2
<1>7. \A i \in 1..k : n[i] \in Char
  BY <1>0, <1>1
<1>8. SubSeq(r, 1, k) \in Seq(Char)
  <2>1. SubSeq(r, 1, k) = [i \in 1..k |-> r[i]]
    BY <1>5, <1>1, <1>0
  <2>2. [i \in 1..k |-> r[i]] \in Seq(Char)
    BY <1>7, <1>2, <1>1
  <2> QED  BY <2>1, <2>2
<1> HIDE DEF k, s, t
<1>9. CASE Short(n)
  <2>1. r[BASE + 1] = SPACE
    BY <1>9, <1>2, <1>0
  <2>2. t = SubSeq(r, 1, k)
    BY <2>1, <1>8 DEF t
  <2>3. t = n
    BY <2>2, <1>6, <1>8, <1>0, <1>1, <1>9
  <2>4. t \in Seq(Char \cup {NUL})
    BY <2>3, <1>0
  <2>5. s \in Seq(Char) /\ Len(s) <= Len(n) /\ (\A i \in 1..Len(s) : s[i] = n[i])
        /\ (Len(s) < Len(n) => n[Len(s) + 1] = NUL)
    BY <2>3, <2>4, <1>4, TerminatedIs
  <2>6. Len(s) = Len(n)
    BY <2>5, <1>0
  <2>7. s = n
    BY <2>5, <2>6, <1>0
  <2>8. At(s, k) = NUL
    BY <2>7, <1>9, <1>1 DEF Short, k
  <2>9. s \in Name
    BY <2>7
  <2> QED  BY <2>7, <2>8, <2>9, <1>9 DEF ShownFor, k, s
<1>10. CASE ~Short(n)
  <2> DEFINE x == SubSeq(r, BASE + 1, BASE + EXT)
  <2>1. \A i \in 1..EXT : r[BASE + i] = At(n, k + i) /\ At(n, k + i) \in Char \cup {NUL}
    <3> SUFFICES ASSUME NEW i \in 1..EXT
                 PROVE  r[BASE + i] = At(n, k + i) /\ At(n, k + i) \in Char \cup {NUL}
      OBVIOUS
    <3>1. k + i \in Nat
      BY <1>1, <1>0
    <3>2. At(n, k + i) \in Char \cup {NUL}
      BY <3>1, <1>0, AtIs
    <3> QED  BY <3>2, <1>2, <1>10
  <2>2. r[BASE + 1] # SPACE
    BY <2>1, <1>0
  <2>3. x = [i \in 1..EXT |-> r[BASE + i]]
    BY <1>5, <1>0
  <2>4. x \in Seq(Char \cup {NUL}) /\ Len(x) = EXT /\ \A i \in 1..EXT : x[i] = At(n, k + i)
    <3>1. \A i \in 1..EXT : r[BASE + i] \in Char \cup {NUL}
      BY <2>1
    <3>2. [i \in 1..EXT |-> r[BASE + i]] \in Seq(Char \cup {NUL})
      BY <3>1, <1>0
    <3>3. Len([i \in 1..EXT |-> r[BASE + i]]) = EXT
      BY <1>0
    <3> QED  BY <3>2, <3>3, <2>3, <2>1, Zenon
  <2> HIDE DEF x
  <2>5. t = SubSeq(r, 1, k) \o (<<".">> \o x)
    BY <2>2 DEF t, x
  <2>6. /\ <<".">> \o x \in Seq(Char \cup {NUL}) /\ Len(<<".">> \o x) = EXT + 1
        /\ (<<".">> \o x)[1] = "."
        /\ \A i \in 1..EXT : (<<".">> \o x)[i + 1] = At(n, k + i)
    BY <2>4, <1>0
  <2> DEFINE y == <<".">> \o x
             b == SubSeq(r, 1, k)
  <2>7. y \in Seq(Char \cup {NUL}) /\ Len(y) = EXT + 1 /\ y[1] = "." /\ (\A i \in 1..EXT : y[i + 1] = At(n, k + i))
        /\ b \in Seq(Char \cup {NUL}) /\ Len(b) = k /\ t = b \o y
    <3>1. b \in Seq(Char \cup {NUL})
      BY <1>8
    <3> QED  BY <3>1, <2>5, <2>6, <1>6
  <2> HIDE DEF y, b
  <2>8. t \in Seq(Char \cup {NUL}) /\ Len(t) = k + 1 + EXT
    <3>0. b \in Seq(Char \cup {NUL}) /\ y \in Seq(Char \cup {NUL})
      BY <2>7
    <3>1. b \o y \in Seq(Char \cup {NUL}) /\ Len(b \o y) = Len(b) + Len(y)
      BY ONLY <3>0
    <3> QED  BY <3>1, <2>7, <1>1, <1>0
  <2>9. \A i \in 1..k : t[i] = n[i]
    BY <2>7, <1>6, <1>1, <1>0 DEF b
  <2>10. t[k + 1] = "."
    BY <2>7, <1>1, <1>0
  <2>11. \A i \in 1..EXT : t[k + 1 + i] = At(n, k + i)
    <3> SUFFICES ASSUME NEW i \in 1..EXT PROVE t[k + 1 + i] = At(n, k + i)
      OBVIOUS
    <3>1. t[k + (1 + i)] = y[1 + i]
      BY <2>7, <1>1, <1>0
    <3> QED  BY <3>1, <2>7, <1>1, <1>0
  <2>12. s \in Seq(Char) /\ Len(s) <= Len(t) /\ (\A i \in 1..Len(s) : s[i] = t[i])
        /\ (Len(s) < Len(t) => t[Len(s) + 1] = NUL)
    BY <2>8, <1>4, TerminatedIs
  <2>13. Len(s) \in Nat /\ Len(s) >= k + 1
    <3>1. "." # NUL
      BY <1>0
    <3>2. \A i \in 1..(k + 1) : t[i] # NUL
      BY <2>9, <2>10, <3>1, <1>7, <1>0, <1>1
    <3> QED  BY <3>2, <2>12, <2>8, <1>1, <1>0
  <2>14. ASSUME NEW i \in 0..(k - 1) PROVE At(s, i) = At(n, i)
    <3>1. At(s, i) = s[i + 1] /\ At(n, i) = n[i + 1]
      BY <2>13, <1>1, <1>0 DEF At
    <3> QED  BY <3>1, <2>12, <2>13, <2>9, <1>1
  <2>15. At(s, k) = "."
    BY <2>12, <2>13, <2>10, <1>1 DEF At
  <2>16. ASSUME NEW i \in 1..EXT PROVE At(s, k + i) = At(n, k + i)
    <3>1. CASE k + i < Len(s)
      <4>1. At(s, k + i) = s[k + i + 1] /\ k + i + 1 \in 1..Len(s)
        BY <3>1, <2>13, <1>1, <1>0 DEF At
      <4>2. s[k + i + 1] = t[k + 1 + i]
        BY <4>1, <2>12, <1>1, <1>0
      <4> QED  BY <4>1, <4>2, <2>11
    <3>2. CASE k + i >= Len(s)
      <4>1. At(s, k + i) = NUL
        BY <3>2, <2>13, <1>1, <1>0 DEF At
      <4>2. PICK j \in 1..EXT : j = Len(s) - k
        <5>1. Len(s) - k \in 1..EXT
          BY <3>2, <2>13, <1>1, <1>0
        <5> QED  BY <5>1
      <4>3. j <= i /\ Len(s) + 1 = k + 1 + j /\ Len(s) < Len(t)
        BY <4>2, <3>2, <2>8, <2>13, <1>1, <1>0
      <4>4. At(n, k + j) = NUL
        BY <4>3, <2>12, <2>11
      <4>5. ~(k + j < Len(n))
        BY <4>4, AtIs, <1>0, <1>1
      <4>6. At(n, k + i) = NUL
        BY <4>5, <4>3, <1>0, <1>1 DEF At
      <4> QED  BY <4>1, <4>6
    <3> QED  BY <3>1, <3>2, <2>13, <1>1
  <2>17. s \in Name
    BY <2>12, <2>13, <1>1 DEF Name
  <2> QED  BY <2>14, <2>15, <2>16, <2>17, <2>12, <2>8, <1>10 DEF ShownFor, k, s
<1> QED  BY <1>9, <1>10

\* The name shown, stored again, gives the same record.
LEMMA StoredAgain ==
  ASSUME NEW n \in Name, NEW s, ShownFor(n, s)
  PROVE  writeFileName(s) = writeFileName(n)
<1>0. BASE \in Nat \ {0} /\ EXT \in Nat \ {0} /\ s \in Name /\ NUL # "."
  BY NamesAssumption DEF ShownFor
<1>1. /\ Stop(n) \in 0..BASE /\ Stop(n) <= Len(n)
      /\ Stop(n) = BASE \/ At(n, Stop(n)) \in {".", NUL}
      /\ \A i \in 0..(Stop(n) - 1) : At(n, i) \notin {".", NUL}
  BY StopIs
<1>2. /\ Stop(s) \in 0..BASE /\ Stop(s) <= Len(s)
      /\ Stop(s) = BASE \/ At(s, Stop(s)) \in {".", NUL}
      /\ \A i \in 0..(Stop(s) - 1) : At(s, i) \notin {".", NUL}
  BY <1>0, StopIs
<1>3. /\ \A i \in 0..(Stop(n) - 1) : At(s, i) = At(n, i)
      /\ At(s, Stop(n)) = IF Short(n) THEN NUL ELSE "."
      /\ ~Short(n) => \A i \in 1..EXT : At(s, Stop(n) + i) = At(n, Stop(n) + i)
  BY DEF ShownFor
<1>4. Stop(s) = Stop(n)
  <2>1. ~(Stop(s) < Stop(n))
    <3> SUFFICES ASSUME Stop(s) < Stop(n) PROVE FALSE
      OBVIOUS
    <3>1. Stop(s) \in 0..(Stop(n) - 1) /\ Stop(s) # BASE
      BY <1>0, <1>1, <1>2
    <3> QED  BY <3>1, <1>1, <1>2, <1>3
  <2>2. ~(Stop(n) < Stop(s))
    <3> SUFFICES ASSUME Stop(n) < Stop(s) PROVE FALSE
      OBVIOUS
    <3>1. Stop(n) \in 0..(Stop(s) - 1)
      BY <1>0, <1>1, <1>2
    <3> QED  BY <3>1, <1>2, <1>3
  <2> QED  BY <2>1, <2>2, <1>0, <1>1, <1>2
<1>5. Short(s) <=> Short(n)
  BY <1>3, <1>4, <1>0 DEF Short
<1> DEFINE a == writeFileName(n)
           b == writeFileName(s)
<1>6. RecordOf(n, a) /\ RecordOf(s, b)
  BY Written, <1>0
<1> HIDE DEF a, b
<1>7. a \in [1..(BASE + EXT) -> Char \cup {NUL, SPACE}] /\ b \in [1..(BASE + EXT) -> Char \cup {NUL, SPACE}]
  BY <1>6 DEF RecordOf
<1>8. ASSUME NEW i \in 1..(BASE + EXT) PROVE a[i] = b[i]
  <2>1. CASE i \in 1..Stop(n)
    <3>1. a[i] = n[i] /\ b[i] = s[i]
      BY <2>1, <1>6, <1>4 DEF RecordOf
    <3>2. i - 1 \in 0..(Stop(n) - 1) /\ i - 1 < Len(n) /\ i - 1 < Len(s) /\ i \in Int /\ (i - 1) + 1 = i
      <4>1. Len(n) \in Nat /\ Len(s) \in Nat
        BY <1>0 DEF Name
      <4> QED  BY <2>1, <1>1, <1>2, <1>4, <1>0, <4>1
    <3>3. At(n, i - 1) = n[i] /\ At(s, i - 1) = s[i]
      BY <3>2 DEF At
    <3> QED  BY <3>1, <3>2, <3>3, <1>3
  <2>2. CASE i \in (Stop(n) + 1)..BASE
    BY <2>2, <1>6, <1>4 DEF RecordOf
  <2>3. CASE i \in (BASE + 1)..(BASE + EXT)
    <3>1. PICK j \in 1..EXT : i = BASE + j
      <4>1. i - BASE \in 1..EXT /\ i = BASE + (i - BASE)
        BY <2>3, <1>0
      <4> QED  BY <4>1
    <3>2. /\ a[BASE + j] = IF Short(n) THEN SPACE ELSE At(n, Stop(n) + j)
          /\ b[BASE + j] = IF Short(n) THEN SPACE ELSE At(s, Stop(n) + j)
      BY <1>6, <1>4, <1>5 DEF RecordOf
    <3> QED  BY <3>1, <3>2, <1>3
  <2> QED  BY <2>1, <2>2, <2>3, <1>0, <1>1
<1>9. a = b
  <2>1. \A i \in 1..(BASE + EXT) : a[i] = b[i]
    BY <1>8
  <2>2. a = [i \in 1..(BASE + EXT) |-> a[i]] /\ b = [i \in 1..(BASE + EXT) |-> b[i]]
    BY ONLY <1>7
  <2>3. [i \in 1..(BASE + EXT) |-> a[i]] = [i \in 1..(BASE + EXT) |-> b[i]]
    BY ONLY <2>1
  <2> QED  BY ONLY <2>2, <2>3
<1> QED  BY <1>9 DEF a, b

\* Names with the same bytes are the same.
LEMMA SameBytes ==
  ASSUME NEW s \in Seq(Char), NEW t \in Seq(Char), \A i \in Nat : At(s, i) = At(t, i)
  PROVE  s = t
<1>0. Len(s) \in Nat /\ Len(t) \in Nat
  OBVIOUS
<1>1. ~(Len(s) < Len(t))
  <2> SUFFICES ASSUME Len(s) < Len(t) PROVE FALSE
    OBVIOUS
  <2>1. At(s, Len(s)) = NUL /\ At(t, Len(s)) # NUL
    BY <1>0, AtIs
  <2> QED  BY <2>1, <1>0
<1>2. ~(Len(t) < Len(s))
  <2> SUFFICES ASSUME Len(t) < Len(s) PROVE FALSE
    OBVIOUS
  <2>1. At(t, Len(t)) = NUL /\ At(s, Len(t)) # NUL
    BY <1>0, AtIs
  <2> QED  BY <2>1, <1>0
<1>3. Len(s) = Len(t)
  BY <1>0, <1>1, <1>2
<1>4. ASSUME NEW i \in 1..Len(s) PROVE s[i] = t[i]
  <2>1. i - 1 \in Nat /\ i - 1 < Len(s) /\ i - 1 < Len(t) /\ (i - 1) + 1 = i
    BY <1>0, <1>3
  <2>2. At(s, i - 1) = s[i] /\ At(t, i - 1) = t[i]
    BY <2>1 DEF At
  <2> QED  BY <2>1, <2>2
<1> QED  BY <1>3, <1>4

\* Where the loop stops in a name FAT knows: at its end, behind a full base,
\* or at its dot.
LEMMA FatNameStop ==
  ASSUME NEW n \in Name, FatName(n)
  PROVE  \/ Short(n) /\ Dotless(n)
         \/ Stop(n) = BASE /\ FullBase(n) /\ ~Short(n)
         \/ \E e \in 1..EXT : /\ Stop(n) \in 1..BASE /\ ~Short(n) /\ ~Dotless(n)
                              /\ Len(n) = Stop(n) + 1 + e /\ At(n, Stop(n)) = "."
                              /\ \A i \in 0..(Len(n) - 1) : At(n, i) = "." => i = Stop(n)
<1>0. /\ BASE \in Nat \ {0} /\ EXT \in Nat \ {0} /\ NUL \notin Char
      /\ n \in Seq(Char) /\ Len(n) \in Nat
  BY NamesAssumption DEF Name
<1>2. /\ Stop(n) \in 0..BASE /\ Stop(n) <= Len(n)
      /\ Stop(n) = BASE \/ At(n, Stop(n)) \in {".", NUL}
      /\ \A i \in 0..(Stop(n) - 1) : At(n, i) \notin {".", NUL}
      /\ Short(n) <=> Stop(n) = Len(n) /\ Len(n) < BASE
  BY StopIs
<1>3. CASE Len(n) \in 1..BASE /\ Dotless(n)
  <2>1. ~(Stop(n) < Len(n))
    <3> SUFFICES ASSUME Stop(n) < Len(n) PROVE FALSE
      OBVIOUS
    <3>1. At(n, Stop(n)) = n[Stop(n) + 1] /\ At(n, Stop(n)) \in Char
      BY <1>0, <1>2, AtIs
    <3>2. Stop(n) # BASE /\ Stop(n) + 1 \in DOMAIN n
      BY <1>3, <1>0, <1>2
    <3>3. n[Stop(n) + 1] # "."
      BY <3>2, <1>3 DEF Dotless
    <3> QED  BY <3>1, <3>2, <3>3, <1>2, <1>0
  <2>2. Stop(n) = Len(n)
    BY <2>1, <1>2, <1>0
  <2>3. Len(n) < BASE \/ Len(n) = BASE
    BY <1>3, <1>0
  <2>4. ASSUME Len(n) < BASE PROVE Short(n)
    BY <2>2, <2>4, <1>2
  <2>5. ASSUME Len(n) = BASE PROVE Stop(n) = BASE /\ FullBase(n) /\ ~Short(n)
    BY <2>2, <2>5, <1>2, <1>3, <1>0 DEF FullBase
  <2> QED  BY <2>3, <2>4, <2>5, <1>3
<1>4. ASSUME NEW k \in 1..BASE, NEW e \in 1..EXT, Len(n) = k + 1 + e, n[k + 1] = ".",
             Dotless(SubSeq(n, 1, k)), Dotless(SubSeq(n, k + 2, Len(n)))
      PROVE  /\ Stop(n) = k /\ ~Short(n) /\ ~Dotless(n) /\ At(n, k) = "."
             /\ \A i \in 0..(Len(n) - 1) : At(n, i) = "." => i = k
  <2>1. At(n, k) = "."
    BY <1>4, <1>0 DEF At
  <2>2. ASSUME NEW i \in 0..(Len(n) - 1), At(n, i) = ".", i < k PROVE FALSE
    <3>1. DOMAIN SubSeq(n, 1, k) = 1..k /\ i + 1 \in 1..k /\ SubSeq(n, 1, k)[i + 1] = n[i + 1]
      BY <2>2, <1>0, <1>4
    <3>2. At(n, i) = n[i + 1]
      BY <2>2, <1>0 DEF At
    <3> QED  BY <3>1, <3>2, <2>2, <1>4 DEF Dotless
  <2>3. ASSUME NEW i \in 0..(Len(n) - 1), At(n, i) = ".", k < i PROVE FALSE
    <3>0. k + 2 \in 1..Len(n) /\ Len(n) - (k + 2) + 1 = e
      BY <1>0, <1>4
    <3>1. Len(SubSeq(n, k + 2, Len(n))) = e
      BY <3>0, <1>0
    <3>2. i - k \in 1..e /\ (k + 2) + (i - k) - 1 = i + 1
      BY <2>3, <1>0, <1>4
    <3>3. SubSeq(n, k + 2, Len(n))[i - k] = n[(k + 2) + (i - k) - 1]
      BY <3>0, <3>2, <1>0
    <3>4. At(n, i) = n[i + 1]
      BY <2>3, <1>0 DEF At
    <3>5. DOMAIN SubSeq(n, k + 2, Len(n)) = 1..e
      BY <3>1, <1>0
    <3> QED  BY <3>2, <3>3, <3>4, <3>5, <2>3, <1>4 DEF Dotless
  <2>4. \A i \in 0..(Len(n) - 1) : At(n, i) = "." => i = k
    <3> SUFFICES ASSUME NEW i \in 0..(Len(n) - 1), At(n, i) = "." PROVE i = k
      OBVIOUS
    <3>1. i \in Int /\ k \in Int
      BY <1>0
    <3> QED  BY <3>1, <2>2, <2>3
  <2>5. ~(k < Stop(n))
    <3> SUFFICES ASSUME k < Stop(n) PROVE FALSE
      OBVIOUS
    <3>1. k \in 0..(Stop(n) - 1)
      BY <1>2, <1>0
    <3> QED  BY <3>1, <2>1, <1>2
  <2>6. ~(Stop(n) < k)
    <3> SUFFICES ASSUME Stop(n) < k PROVE FALSE
      OBVIOUS
    <3>1. Stop(n) # BASE /\ Stop(n) \in 0..(Len(n) - 1)
      BY <1>2, <1>0, <1>4
    <3>2. At(n, Stop(n)) \in Char
      BY <3>1, <1>0, AtIs
    <3> QED  BY <3>1, <3>2, <2>2, <1>2, <1>0
  <2>7. Stop(n) = k /\ ~Short(n)
    BY <2>5, <2>6, <1>2, <1>0, <1>4
  <2>8. ~Dotless(n)
    <3>1. k + 1 \in DOMAIN n
      BY <1>0, <1>4
    <3> QED  BY <3>1, <1>4 DEF Dotless
  <2> QED  BY <2>1, <2>4, <2>7, <2>8
<1> QED  BY <1>3, <1>4 DEF FatName

\* What comes back of a name FAT knows, and what fills its record.
LEMMA FatNameBack ==
  ASSUME NEW n \in Name, FatName(n), NEW r, RecordOf(n, r)
  PROVE  /\ readFileName(r) = IF FullBase(n) THEN Append(n, ".") ELSE n
         /\ (\E i \in DOMAIN r : r[i] = NUL) <=> FullBase(n) \/ ShortExt(n)
<1> DEFINE s == readFileName(r)
           k == Stop(n)
<1>0. BASE \in Nat \ {0} /\ EXT \in Nat \ {0} /\ NUL \notin Char /\ SPACE # NUL /\ "." \in Char
  BY NamesAssumption DEF NUL, SPACE
<1>1. n \in Seq(Char) /\ Len(n) \in Nat
  BY DEF Name
<1>2. k \in 0..BASE /\ k <= Len(n) /\ (Short(n) <=> k = Len(n) /\ Len(n) < BASE)
  BY StopIs
<1>3. /\ r \in [1..(BASE + EXT) -> Char \cup {NUL, SPACE}]
      /\ \A i \in 1..k : r[i] = n[i]
      /\ \A i \in (k + 1)..BASE : r[i] = SPACE
      /\ \A i \in 1..EXT : r[BASE + i] = IF Short(n) THEN SPACE ELSE At(n, k + i)
  BY DEF RecordOf
<1>4. ShownFor(n, s) /\ (Short(n) => s = n)
  BY ReadBack
<1>5. /\ s \in Seq(Char) /\ Len(s) \in Nat
      /\ \A i \in 0..(k - 1) : At(s, i) = At(n, i)
      /\ ~Short(n) => /\ At(s, k) = "." /\ Len(s) <= k + 1 + EXT
                      /\ \A i \in 1..EXT : At(s, k + i) = At(n, k + i)
  BY <1>4 DEF ShownFor, Name
<1> HIDE DEF s, k
\* Only the extension can hold a terminator.
<1>6. ASSUME NEW i \in DOMAIN r, r[i] = NUL
      PROVE  \E j \in 1..EXT : r[BASE + j] = NUL
  <2>0. i \in 1..(BASE + EXT)
    BY <1>3
  <2>1. CASE i \in 1..k
    <3>1. n[i] \in Char
      BY <2>1, <1>1, <1>2, <1>0
    <3> QED  BY <2>1, <3>1, <1>3, <1>6, <1>0
  <2>2. CASE i \in (k + 1)..BASE
    BY <2>2, <1>3, <1>6, <1>0
  <2>3. CASE i \in (BASE + 1)..(BASE + EXT)
    <3>1. i - BASE \in 1..EXT /\ i = BASE + (i - BASE)
      BY <2>3, <1>0
    <3> QED  BY <3>1, <1>6
  <2> QED  BY <2>0, <2>1, <2>2, <2>3, <1>0, <1>2
<1>7. ASSUME NEW j \in 1..EXT, r[BASE + j] = NUL PROVE \E i \in DOMAIN r : r[i] = NUL
  <2>1. BASE + j \in DOMAIN r
    BY <1>3, <1>0
  <2> QED  BY <2>1, <1>7
\* Behind what the extension gives, nothing is shown.
<1>8. ASSUME ~Short(n), NEW i \in Nat, i > k + EXT PROVE At(s, i) = NUL
  BY <1>8, <1>5, <1>0, <1>2, AtIs
<1>9. CASE Short(n) /\ Dotless(n)
  <2>1. ~FullBase(n)
    BY <1>9, <1>2 DEF FullBase
  <2>2. ~ShortExt(n)
    <3> SUFFICES ASSUME NEW m \in 1..BASE, At(n, m) = "." PROVE FALSE
      BY DEF ShortExt
    <3>1. m \in Nat /\ "." # NUL
      BY <1>0
    <3>2. m < Len(n)
      BY <3>1, <1>1, AtIs
    <3>3. At(n, m) = n[m + 1] /\ m + 1 \in DOMAIN n
      BY <3>1, <3>2, <1>1 DEF At
    <3> QED  BY <3>3, <1>9 DEF Dotless
  <2>3. \A j \in 1..EXT : r[BASE + j] # NUL
    BY <1>9, <1>3, <1>0
  <2> QED  BY <2>1, <2>2, <2>3, <1>4, <1>6, <1>9 DEF s
<1>10. CASE k = BASE /\ FullBase(n) /\ ~Short(n)
  <2> DEFINE t == Append(n, ".")
  <2>1. t \in Seq(Char) /\ Len(t) = BASE + 1 /\ Len(n) = BASE
    BY <1>10, <1>1, <1>0 DEF FullBase
  <2>2. \A i \in 1..BASE : t[i] = n[i]
    BY <1>1, <2>1
  <2>3. t[BASE + 1] = "."
    BY <1>1, <2>1
  <2> HIDE DEF t
  <2>4. ASSUME NEW i \in Nat PROVE At(s, i) = At(t, i)
    <3>1. CASE i < BASE
      <4>1. At(t, i) = t[i + 1] /\ At(n, i) = n[i + 1] /\ i + 1 \in 1..BASE
        BY <3>1, <2>1, <1>0 DEF At
      <4>2. i \in 0..(k - 1)
        BY <3>1, <1>10, <1>0
      <4> QED  BY <4>1, <4>2, <2>2, <1>5
    <3>2. CASE i = BASE
      <4>1. At(t, i) = t[BASE + 1]
        BY <3>2, <2>1, <1>0 DEF At
      <4> QED  BY <4>1, <3>2, <2>3, <1>5, <1>10
    <3>3. CASE i > BASE
      <4>1. At(t, i) = NUL /\ At(n, i) = NUL
        BY <3>3, <2>1, <1>0 DEF At
      <4>2. CASE i <= BASE + EXT
        <5>1. i - BASE \in 1..EXT /\ i = k + (i - BASE)
          BY <3>3, <4>2, <1>10, <1>0
        <5> QED  BY <5>1, <4>1, <1>5, <1>10
      <4>3. CASE i > BASE + EXT
        BY <4>1, <4>3, <1>8, <1>10
      <4> QED  BY <4>2, <4>3, <1>0
    <3> QED  BY <3>1, <3>2, <3>3, <1>0
  <2>5. s = t
    BY <2>1, <2>4, <1>5, SameBytes
  <2>6. r[BASE + 1] = NUL
    <3>1. At(n, k + 1) = NUL
      BY <2>1, <1>10, <1>0 DEF At
    <3> QED  BY <3>1, <1>3, <1>10, <1>0
  <2>7. 1 \in 1..EXT
    BY <1>0
  <2> QED  BY <2>5, <2>6, <2>7, <1>7, <1>10 DEF s, t
<1>11. ASSUME NEW e \in 1..EXT, k \in 1..BASE, ~Short(n), ~Dotless(n), Len(n) = k + 1 + e,
              At(n, k) = ".", \A i \in 0..(Len(n) - 1) : At(n, i) = "." => i = k
       PROVE  s = n /\ ((\E i \in DOMAIN r : r[i] = NUL) <=> FullBase(n) \/ ShortExt(n)) /\ ~FullBase(n)
  <2>1. ~FullBase(n)
    BY <1>11 DEF FullBase
  <2>2. ASSUME NEW i \in Nat PROVE At(s, i) = At(n, i)
    <3>1. CASE i < k
      <4>1. i \in 0..(k - 1)
        BY <3>1, <1>2, <1>0
      <4> QED  BY <4>1, <1>5
    <3>2. CASE i = k
      BY <3>2, <1>5, <1>11
    <3>3. CASE i > k /\ i <= k + EXT
      <4>1. i - k \in 1..EXT /\ i = k + (i - k)
        BY <3>3, <1>2, <1>0
      <4> QED  BY <4>1, <1>5, <1>11
    <3>4. CASE i > k + EXT
      <4>1. At(n, i) = NUL
        BY <3>4, <1>11, <1>2, <1>0 DEF At
      <4> QED  BY <4>1, <3>4, <1>8, <1>11
    <3> QED  BY <3>1, <3>2, <3>3, <3>4, <1>2, <1>0
  <2>3. s = n
    BY <2>2, <1>1, <1>5, SameBytes
  <2>4. ShortExt(n) <=> e < EXT
    <3>1. ASSUME e < EXT PROVE ShortExt(n)
      <4>1. Len(n) < k + 1 + EXT
        BY <3>1, <1>11, <1>2, <1>0
      <4> QED  BY <4>1, <1>11 DEF ShortExt
    <3>2. ASSUME NEW m \in 1..BASE, At(n, m) = ".", Len(n) < m + 1 + EXT PROVE e < EXT
      <4>1. m \in 0..(Len(n) - 1)
        <5>1. m \in Nat /\ "." # NUL
          BY <1>0
        <5>2. m < Len(n)
          BY <5>1, <3>2, <1>1, AtIs
        <5> QED  BY <5>1, <5>2, <1>1
      <4>2. m = k
        BY <4>1, <3>2, <1>11
      <4> QED  BY <4>2, <3>2, <1>11, <1>2, <1>0
    <3> QED  BY <3>1, <3>2 DEF ShortExt
  <2>5. ASSUME NEW j \in 1..EXT PROVE r[BASE + j] = NUL <=> j > e
    <3>1. r[BASE + j] = At(n, k + j)
      BY <1>3, <1>11
    <3>2. k + j \in Nat /\ (k + j < Len(n) <=> ~(j > e)) /\ (k + j >= Len(n) <=> j > e)
      BY <1>11, <1>2, <1>0
    <3> QED  BY <3>1, <3>2, <1>1, AtIs
  <2>6. ASSUME e < EXT PROVE \E i \in DOMAIN r : r[i] = NUL
    <3>1. EXT \in 1..EXT /\ EXT > e
      BY <2>6, <1>0
    <3> QED  BY <3>1, <2>5, <1>7
  <2>7. ASSUME NEW i \in DOMAIN r, r[i] = NUL PROVE e < EXT
    <3>1. PICK j \in 1..EXT : r[BASE + j] = NUL
      BY <2>7, <1>6
    <3>2. j > e
      BY <3>1, <2>5
    <3> QED  BY <3>2, <1>0
  <2> QED  BY <2>1, <2>3, <2>4, <2>6, <2>7
<1>12. \/ Short(n) /\ Dotless(n)
       \/ k = BASE /\ FullBase(n) /\ ~Short(n)
       \/ \E e \in 1..EXT : /\ k \in 1..BASE /\ ~Short(n) /\ ~Dotless(n)
                            /\ Len(n) = k + 1 + e /\ At(n, k) = "."
                            /\ \A i \in 0..(Len(n) - 1) : At(n, i) = "." => i = k
  BY FatNameStop DEF k
<1> QED  BY <1>9, <1>10, <1>11, <1>12 DEF s

----------------------------------------------------------------------------
\* The inductive invariant: which of record and shown belong to the name, and
\* that after retype the record is the one the name will get.
NInv ==
  /\ typed \in Name /\ pc \in {"typed", "stored", "listed"}
  /\ pc # "typed" => record = writeFileName(typed)
  /\ pc = "listed" => shown = readFileName(record)
  /\ pc = "typed" /\ record # <<>> => writeFileName(typed) = record

LEMMA NamesInit == Init => NInv
<1> SUFFICES ASSUME Init PROVE NInv
  OBVIOUS
<1>1. PICK n \in 1..MaxLen : typed \in [1..n -> Char]
  BY DEF Init, Typed
<1>2. n \in Nat \ {0}
  BY NamesAssumption
<1>3. typed \in Seq(Char) /\ Len(typed) = n
  BY <1>1, <1>2
<1>4. typed # <<>>
  BY <1>2, <1>3
<1> QED  BY <1>3, <1>4 DEF Init, NInv, Name

LEMMA NamesStep == NInv /\ [Next]_vars => NInv'
<1> SUFFICES ASSUME NInv, [Next]_vars PROVE NInv'
  OBVIOUS
<1>1. CASE store
  BY <1>1 DEF NInv, store
<1>2. CASE list_files
  BY <1>2 DEF NInv, list_files
<1>3. CASE retype
  <2>1. /\ pc = "listed" /\ typed \in Name /\ record = writeFileName(typed)
        /\ shown = readFileName(record)
    BY <1>3 DEF retype, NInv
  <2>2. ShownFor(typed, shown)
    BY <2>1, Written, ReadBack
  <2>3. shown \in Name /\ writeFileName(shown) = record
    BY <2>1, <2>2, StoredAgain DEF ShownFor
  <2> QED  BY <1>3, <2>3 DEF retype, NInv
<1>4. CASE UNCHANGED vars
  BY <1>4 DEF NInv, vars
<1> QED  BY <1>1, <1>2, <1>3, <1>4 DEF Next

LEMMA NamesInvariance == Spec => []NInv
BY NamesInit, NamesStep, PTL DEF Spec

\* Every name FAT knows, short or full in either part, comes back from
\* writeFileName and readFileName as it was typed, but for a dot behind a full
\* base without extension; and exactly there and behind a short extension the
\* record is filled with terminators.
THEOREM NamesRoundTrip == Spec => []RoundTrip
<1>1. NInv => RoundTrip
  <2> SUFFICES ASSUME NInv, pc = "listed", FatName(typed)
               PROVE  /\ shown = IF FullBase(typed) THEN Append(typed, ".") ELSE typed
                      /\ (\E i \in DOMAIN record : record[i] = NUL)
                           <=> FullBase(typed) \/ ShortExt(typed)
    BY DEF RoundTrip
  <2>1. typed \in Name /\ RecordOf(typed, record) /\ shown = readFileName(record)
    BY Written DEF NInv
  <2> QED  BY <2>1, FatNameBack
<1> QED  BY <1>1, NamesInvariance, PTL

\* The name list_files shows, typed again, is written as the same record,
\* whatever was typed first.
THEOREM NamesStable == Spec => ShownIsStable
<1>1. NInv /\ [Next]_vars => [pc = "typed" /\ record # <<>> => record' = record]_vars
  <2> SUFFICES ASSUME NInv, Next, pc = "typed", record # <<>> PROVE record' = record
    OBVIOUS
  <2> QED  BY DEF Next, store, list_files, retype, NInv
<1> QED  BY <1>1, NamesInvariance, PTL DEF Spec, ShownIsStable

\* A name under which an entry was made is found again by the shell's strcmp,
\* if FAT knows it or its dot and end lie behind the characters compared.
THEOREM NamesFoundAgain == Spec => []FoundAgain
<1>1. NInv => FoundAgain
  <2> SUFFICES ASSUME NInv, pc = "listed",
                      FatName(typed) \/ \A i \in 0..COMPARED : At(typed, i) \notin {".", NUL}
               PROVE  strcmp(shown, typed)
    BY DEF FoundAgain
  <2>0. BASE \in Nat /\ COMPARED \in Nat /\ COMPARED <= BASE
    BY NamesAssumption
  <2>1. typed \in Name /\ RecordOf(typed, record) /\ shown = readFileName(record)
    BY Written DEF NInv
  <2>2. CASE FatName(typed) /\ ~FullBase(typed)
    <3>1. shown = typed
      BY <2>1, <2>2, FatNameBack
    <3> QED  BY <3>1 DEF strcmp
  <2>3. CASE FatName(typed) /\ FullBase(typed)
    <3>1. shown = Append(typed, ".") /\ typed \in Seq(Char) /\ Len(typed) = BASE
      BY <2>1, <2>3, FatNameBack DEF FullBase, Name
    <3>2. ASSUME NEW i \in 0..(COMPARED - 1) PROVE At(shown, i) = At(typed, i)
      <4>1. i + 1 \in 1..Len(typed) /\ i < Len(typed) /\ i < Len(shown)
        BY <3>1, <2>0
      <4>2. shown[i + 1] = typed[i + 1]
        BY <4>1, <3>1
      <4> QED  BY <4>1, <4>2 DEF At
    <3> QED  BY <3>2 DEF strcmp
  <2>4. CASE \A i \in 0..COMPARED : At(typed, i) \notin {".", NUL}
    <3>2. Stop(typed) \in 0..BASE /\ (Stop(typed) = BASE \/ At(typed, Stop(typed)) \in {".", NUL})
      BY <2>1, StopIs
    <3>3. COMPARED <= Stop(typed)
      BY <2>0, <3>2, <2>4
    <3>4. \A i \in 0..(Stop(typed) - 1) : At(shown, i) = At(typed, i)
      BY <2>1, ReadBack DEF ShownFor
    <3>5. \A i \in 0..(COMPARED - 1) : i \in 0..(Stop(typed) - 1)
      BY <2>0, <3>2, <3>3
    <3> QED  BY <3>4, <3>5 DEF strcmp
  <2> QED  BY <2>2, <2>3, <2>4
<1> QED  BY <1>1, NamesInvariance, PTL
=============================================================================
