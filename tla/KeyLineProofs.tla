---------------------------- MODULE KeyLineProofs ----------------------------
(***************************************************************************)
(* What holds of the interrupt controllers and the keyboard behind them    *)
(* whatever lines devices drive and however many codes are on their way:   *)
(* which vectors reach the processor, and what is_shifted counts.          *)
(***************************************************************************)
EXTENDS KeyLine, FiniteSetTheorems, TLAPS

\* Counting in sequences.

Marked(w, C) == {i \in 1..Len(w) : w[i] \in C}

\* The places are finitely many.
LEMMA MarkedFinite ==
  ASSUME NEW S, NEW w \in Seq(S), NEW C
  PROVE  IsFiniteSet(Marked(w, C)) /\ Cardinality(Marked(w, C)) \in Nat
<1>1. IsFiniteSet(1..Len(w))
  BY FS_Interval
<1>2. Marked(w, C) \subseteq 1..Len(w)
  BY DEF Marked
<1> QED  BY <1>1, <1>2, FS_Subset, FS_CardinalityType

\* One more at the end.
LEMMA MarkedAppend ==
  ASSUME NEW S, NEW w \in Seq(S), NEW c \in S, NEW C
  PROVE  Cardinality(Marked(Append(w, c), C)) =
           Cardinality(Marked(w, C)) + (IF c \in C THEN 1 ELSE 0)
<1> DEFINE u == Append(w, c)
           n == Len(w) + 1
<1>1. /\ Len(w) \in Nat /\ Len(u) = n /\ u[n] = c
      /\ \A i \in 1..Len(w) : u[i] = w[i]
  OBVIOUS
<1>2. IsFiniteSet(Marked(w, C)) /\ Cardinality(Marked(w, C)) \in Nat
  BY MarkedFinite
<1>3. n \notin Marked(w, C)
  BY <1>1 DEF Marked
<1> HIDE DEF u
<1>4. CASE c \in C
  <2>1. Marked(u, C) = Marked(w, C) \cup {n}
    BY <1>1, <1>4 DEF Marked
  <2> HIDE DEF n
  <2> QED  BY <1>2, <1>3, <1>4, <2>1, FS_AddElement DEF u
<1>5. CASE c \notin C
  <2>1. Marked(u, C) = Marked(w, C)
    BY <1>1, <1>5 DEF Marked
  <2> QED  BY <1>2, <1>5, <2>1 DEF u
<1> QED  BY <1>4, <1>5

\* One less at the front.
LEMMA MarkedTail ==
  ASSUME NEW S, NEW w \in Seq(S), w # <<>>, NEW C
  PROVE  Cardinality(Marked(w, C)) =
           Cardinality(Marked(Tail(w), C)) + (IF Head(w) \in C THEN 1 ELSE 0)
<1> DEFINE u == Tail(w)
           A == Marked(u, C)
           B == Marked(w, C) \ {1}
           f == [i \in A |-> i + 1]
<1>1. /\ u \in Seq(S) /\ Len(w) \in Nat \ {0} /\ Len(u) = Len(w) - 1 /\ Head(w) = w[1]
      /\ \A i \in 1..Len(u) : u[i] = w[i + 1]
  OBVIOUS
<1> HIDE DEF u
<1>2. /\ IsFiniteSet(A) /\ Cardinality(A) \in Nat
      /\ IsFiniteSet(Marked(w, C)) /\ Cardinality(Marked(w, C)) \in Nat
  BY <1>1, MarkedFinite
<1>3. ExistsBijection(A, B)
  <2>1. f \in [A -> B]
    BY <1>1 DEF Marked
  <2>2. \A i, j \in A : f[i] = f[j] => i = j
    BY <1>1 DEF Marked
  <2>3. \A k \in B : \E i \in A : f[i] = k
    <3>1. SUFFICES ASSUME NEW k \in B PROVE k - 1 \in A /\ f[k - 1] = k
      OBVIOUS
    <3>2. k \in 1..Len(w) /\ k # 1 /\ w[k] \in C
      BY <3>1 DEF Marked
    <3>3. k - 1 \in 1..Len(u) /\ k - 1 + 1 = k
      BY <1>1, <3>2
    <3>4. k - 1 \in A
      BY <1>1, <3>2, <3>3 DEF Marked
    <3> QED  BY <3>3, <3>4
  <2> HIDE DEF f, A, B
  <2>4. f \in Bijection(A, B)
    BY <2>1, <2>2, <2>3 DEF Bijection, Injection, Surjection, IsInjective
  <2> QED  BY <2>4 DEF ExistsBijection
<1>4. IsFiniteSet(B) /\ Cardinality(B) = Cardinality(A)
  <2> HIDE DEF A, B
  <2> QED  BY <1>2, <1>3, FS_Bijection
<1>5. CASE Head(w) \in C
  <2>1. Marked(w, C) = B \cup {1} /\ 1 \notin B
    BY <1>1, <1>5 DEF Marked
  <2> HIDE DEF B
  <2> QED  BY <1>4, <1>5, <2>1, FS_AddElement DEF u
<1>6. CASE Head(w) \notin C
  <2>1. Marked(w, C) = B
    BY <1>1, <1>6 DEF Marked
  <2> HIDE DEF B
  <2> QED  BY <1>2, <1>4, <1>6, <2>1 DEF u
<1> QED  BY <1>5, <1>6

----------------------------------------------------------------------------
\* The controllers.

\* The bits of the words setupPIC and the shell's call write.
LEMMA Words ==
  /\ 4 \in Bits(\h11) /\ 4 \notin Bits(\h28)
  /\ Bits(\hFF) = IRQ /\ Bits(\hFC) = 2..7
<1>1. 4 \in Bits(\h11) /\ 4 \notin Bits(\h28)
  BY DEF Bits, Weight, IRQ
<1>2. ASSUME NEW i \in IRQ
      PROVE  /\ (\hFF \div Weight[i + 1]) % 2 = 1
             /\ (\hFC \div Weight[i + 1]) % 2 = 1 <=> i \in 2..7
  <2>1. CASE i = 0
    BY <2>1 DEF Weight
  <2>2. CASE i = 1
    BY <2>2 DEF Weight
  <2>3. CASE i = 2
    BY <2>3 DEF Weight
  <2>4. CASE i = 3
    BY <2>4 DEF Weight
  <2>5. CASE i = 4
    BY <2>5 DEF Weight
  <2>6. CASE i = 5
    BY <2>6 DEF Weight
  <2>7. CASE i = 6
    BY <2>7 DEF Weight
  <2>8. CASE i = 7
    BY <2>8 DEF Weight
  <2> QED  BY <2>1, <2>2, <2>3, <2>4, <2>5, <2>6, <2>7, <2>8 DEF IRQ
<1>3. Bits(\hFF) = IRQ
  BY <1>2 DEF Bits
<1>4. Bits(\hFC) = 2..7
  BY <1>2 DEF Bits, IRQ
<1> QED  BY <1>1, <1>3, <1>4

\* What is left of a sequence.
LEMMA LeftOver ==
  ASSUME NEW S, NEW s \in Seq(S), NEW k \in 0..(Len(s) - 1)
  PROVE  /\ SubSeq(s, k + 1, Len(s)) # <<>>
         /\ Head(SubSeq(s, k + 1, Len(s))) = s[k + 1] /\ s[k + 1] \in S
         /\ Tail(SubSeq(s, k + 1, Len(s))) = SubSeq(s, k + 2, Len(s))
<1> DEFINE r == SubSeq(s, k + 1, Len(s))
           t == SubSeq(s, k + 2, Len(s))
<1>1. Len(s) \in Nat
  OBVIOUS
<1>2. /\ r \in Seq(S) /\ Len(r) = Len(s) - k
      /\ \A i \in 1..(Len(s) - k) : r[i] = s[k + i]
  BY <1>1
<1>3. /\ t \in Seq(S) /\ Len(t) = Len(s) - k - 1
      /\ \A i \in 1..(Len(s) - k - 1) : t[i] = s[k + 1 + i]
  BY <1>1
<1> HIDE DEF r, t
<1>a. k + 1 \in 1..Len(s)
  BY <1>1
<1>b. s[k + 1] \in S
  BY <1>a
<1>4. r # <<>> /\ Head(r) = s[k + 1]
  BY <1>1, <1>2
<1>5. /\ Tail(r) \in Seq(S) /\ Len(Tail(r)) = Len(t)
      /\ \A i \in 1..Len(t) : Tail(r)[i] = t[i]
  BY <1>1, <1>2, <1>3, <1>4
<1>6. Tail(r) = t
  <2> DEFINE v == Tail(r)
  <2>1. v \in Seq(S) /\ Len(v) = Len(t) /\ \A i \in 1..Len(t) : v[i] = t[i]
    BY <1>5
  <2> HIDE DEF v
  <2>2. v \in [1..Len(v) -> S] /\ t \in [1..Len(t) -> S]
    BY <1>3, <2>1
  <2>3. v = [i \in 1..Len(t) |-> v[i]] /\ t = [i \in 1..Len(t) |-> t[i]]
    BY <2>1, <2>2
  <2>4. v = t
    BY <2>1, <2>3
  <2> QED  BY <2>4 DEF v
<1> QED  BY <1>b, <1>4, <1>6 DEF r, t

----------------------------------------------------------------------------
\* The inductive invariant.

Code  == [code: {16, 42, 54, 144, 170, 182}, again: BOOLEAN]
Fresh == {c \in Code : c.code \in ShiftMake /\ ~c.again}
Ups   == {c \in Code : c.code \in ShiftBreak}

\* Types.
LineTyped ==
  /\ phase \in {"setup", "masked", "enable", "open"}
  /\ icw \in [Chips -> 0..4] /\ base \in [Chips -> Int]
  /\ imr \in [Chips -> SUBSET IRQ] /\ irr \in [Chips -> SUBSET IRQ]
  /\ down \subseteq KeySet /\ last \in KeySet \cup {NoKey} /\ wire \in Seq(Code)
  /\ repeats \in Nat /\ is_shifted \in Int

\* The master after k words of setupPIC: the one at port 0x20 in their
\* midst, meant for the slave, does not throw it off.
Master(k) ==
  /\ icw["master"] = CASE k \in {1, 2} -> 2 [] k \in {3, 4} -> 3
                       [] k \in {5, 6} -> 4 [] OTHER -> 0
  /\ k >= 3 => base["master"] = \h20
  /\ k >= 9 => imr["master"] = IRQ

\* What the master has been programmed to, phase by phase.
Programmed ==
  /\ phase = "setup" =>
       ~ints /\ \E k \in 0..10 : pc = SubSeq(setupPIC, k + 1, 10) /\ Master(k)
  /\ phase # "setup" => icw["master"] = 0 /\ base["master"] = \h20
  /\ phase = "masked" => pc = <<>> /\ imr["master"] = IRQ
  /\ phase = "enable" =>
       ~ints /\ \E k \in 0..2 : /\ pc = SubSeq(enable_kb_tim, k + 1, 2)
                                /\ imr["master"] = IF k = 0 THEN IRQ ELSE 2..7
  /\ phase = "open" => pc = <<>> /\ imr["master"] = 2..7

\* A request for the keyboard, or its handler about to run, stands for a
\* code, and never both for one.
Requested ==
  /\ taken # -1 => taken \in {\h20, \h21} /\ phase = "open"
  /\ phase = "setup" => wire = <<>>
  /\ 1 \in irr["master"] \/ taken = \h21 => wire # <<>>
  /\ ~(1 \in irr["master"] /\ taken = \h21)

\* The count and the codes on their way make up the keys held.
Balanced ==
  is_shifted + Cardinality(Marked(wire, Fresh)) =
    Cardinality(down \cap ShiftMake) + repeats + Cardinality(Marked(wire, Ups))

KInv == LineTyped /\ Programmed /\ Requested /\ Balanced

\* A word for a controller.
Word == [port: {"20", "21", "A0", "A1"}, value: Nat]

\* The two programs.
LEMMA Programs ==
  /\ setupPIC \in Seq(Word) /\ Len(setupPIC) = 10
  /\ enable_kb_tim \in Seq(Word) /\ Len(enable_kb_tim) = 2
<1>1. \A p \in {"20", "21", "A0", "A1"} : \A v \in Nat : Out(p, v) \in Word
  BY DEF Out, Word
<1>2. enable_kb_tim \in Seq(Word) /\ Len(enable_kb_tim) = 2
  BY <1>1 DEF enable_kb_tim
<1>3. setupPIC \in Seq(Word) /\ Len(setupPIC) = 10
  BY <1>1 DEF setupPIC
<1> QED  BY <1>2, <1>3

\* What a word may do, and that one for the slave leaves the master alone.
LEMMA OneWord ==
  ASSUME LineTyped, outb, Head(pc) \in Word, UNCHANGED keyVars
  PROVE  /\ LineTyped' /\ irr'["master"] \subseteq irr["master"]
         /\ Head(pc).port \in {"A0", "A1"} =>
              /\ icw'["master"] = icw["master"] /\ base'["master"] = base["master"]
              /\ imr'["master"] = imr["master"]
<1> DEFINE o == Head(pc)
           c == Chip(o.port)
<1>1. /\ c \in Chips /\ o.value \in Nat /\ "master" \in Chips
      /\ o.port \in {"A0", "A1"} => c = "slave"
  BY DEF Chip, Chips, Word
<1>2. /\ icw \in [Chips -> 0..4] /\ base \in [Chips -> Int]
      /\ imr \in [Chips -> SUBSET IRQ] /\ irr \in [Chips -> SUBSET IRQ]
  BY DEF LineTyped
<1>3. UNCHANGED <<phase, down, last, wire, repeats, is_shifted>>
  BY DEF outb, keyVars
<1>4. /\ Bits(o.value) \subseteq IRQ /\ o.value - (o.value % 8) \in Int
  BY <1>1 DEF Bits
<1>5. CASE Even(c, o.value)
  <2>1. /\ icw' \in [Chips -> 0..4] /\ base' \in [Chips -> Int]
        /\ imr' \in [Chips -> SUBSET IRQ] /\ irr' \in [Chips -> SUBSET IRQ]
        /\ irr'["master"] \subseteq irr["master"]
        /\ c = "slave" =>
             /\ icw'["master"] = icw["master"] /\ base'["master"] = base["master"]
             /\ imr'["master"] = imr["master"]
    <3> HIDE DEF o, c
    <3>1. CASE UNCHANGED chipVars
      BY <1>2, <3>1 DEF chipVars
    <3>2. CASE /\ icw' = [icw EXCEPT ![c] = 2] /\ imr' = [imr EXCEPT ![c] = {}]
               /\ irr' = [irr EXCEPT ![c] = {}] /\ UNCHANGED base
      BY <1>1, <1>2, <3>2
    <3> QED  BY <1>5, <3>1, <3>2 DEF Even
  <2> QED  BY <1>1, <1>3, <2>1 DEF LineTyped
<1>6. CASE Odd(c, o.value) /\ UNCHANGED irr
  <2>1. /\ icw' \in [Chips -> 0..4] /\ base' \in [Chips -> Int]
        /\ imr' \in [Chips -> SUBSET IRQ]
        /\ c = "slave" =>
             /\ icw'["master"] = icw["master"] /\ base'["master"] = base["master"]
             /\ imr'["master"] = imr["master"]
    <3> HIDE DEF o, c
    <3>1. CASE imr' = [imr EXCEPT ![c] = Bits(o.value)] /\ UNCHANGED <<icw, base>>
      BY <1>1, <1>2, <1>4, <3>1
    <3>2. CASE /\ base' = [base EXCEPT ![c] = o.value - (o.value % 8)]
               /\ icw' = [icw EXCEPT ![c] = 3] /\ UNCHANGED imr
      BY <1>1, <1>2, <1>4, <3>2
    <3>3. CASE icw' = [icw EXCEPT ![c] = 4] /\ UNCHANGED <<base, imr>>
      BY <1>1, <1>2, <3>3
    <3>4. CASE icw' = [icw EXCEPT ![c] = 0] /\ UNCHANGED <<base, imr>>
      BY <1>1, <1>2, <3>4
    <3> QED  BY <1>6, <3>1, <3>2, <3>3, <3>4 DEF Odd
  <2> QED  BY <1>1, <1>2, <1>3, <1>6, <2>1 DEF LineTyped
<1> QED  BY <1>5, <1>6 DEF outb

\* Word by word through setupPIC.
LEMMA SetupWord ==
  ASSUME LineTyped, outb, UNCHANGED keyVars,
         NEW k \in 0..9, pc = SubSeq(setupPIC, k + 1, 10), Master(k)
  PROVE  /\ pc' = SubSeq(setupPIC, k + 2, 10) /\ Master(k + 1)'
         /\ LineTyped' /\ irr'["master"] \subseteq irr["master"]
<1>0. /\ icw \in [Chips -> 0..4] /\ base \in [Chips -> Int]
      /\ imr \in [Chips -> SUBSET IRQ] /\ "master" \in Chips
      /\ icw["master"] = CASE k \in {1, 2} -> 2 [] k \in {3, 4} -> 3
                           [] k \in {5, 6} -> 4 [] OTHER -> 0
      /\ k >= 3 => base["master"] = \h20
      /\ k >= 9 => imr["master"] = IRQ
  BY DEF LineTyped, Chips, Master
<1>1. /\ Head(pc) = setupPIC[k + 1] /\ Tail(pc) = SubSeq(setupPIC, k + 2, 10)
      /\ Head(pc) \in Word
  <2>1. setupPIC \in Seq(Word) /\ Len(setupPIC) = 10
    BY Programs
  <2> HIDE DEF setupPIC
  <2>2. k \in 0..(Len(setupPIC) - 1) /\ k + 1 \in 1..Len(setupPIC)
    BY <2>1
  <2>3. /\ Head(SubSeq(setupPIC, k + 1, Len(setupPIC))) = setupPIC[k + 1]
        /\ Tail(SubSeq(setupPIC, k + 1, Len(setupPIC))) = SubSeq(setupPIC, k + 2, Len(setupPIC))
    BY <2>1, <2>2, LeftOver
  <2>4. setupPIC[k + 1] \in Word
    BY <2>1, <2>2, LeftOver
  <2> QED  BY <2>1, <2>3, <2>4
<1>2. /\ LineTyped' /\ irr'["master"] \subseteq irr["master"]
      /\ Head(pc).port \in {"A0", "A1"} =>
           /\ icw'["master"] = icw["master"] /\ base'["master"] = base["master"]
           /\ imr'["master"] = imr["master"]
  BY <1>1, OneWord
<1>3. pc' = SubSeq(setupPIC, k + 2, 10)
  BY <1>1 DEF outb
<1>4. SUFFICES Master(k + 1)'
  BY <1>2, <1>3
<1>5. CASE k = 0
  <2>1. Head(pc) = Out("20", \h11)
    BY <1>1, <1>5 DEF setupPIC
  <2>2. Even("master", \h11)
    BY <2>1 DEF outb, Out, Chip
  <2>3. icw'["master"] = 2
    BY <1>0, <2>2, Words DEF Even
  <2> QED  BY <1>0, <1>5, <2>3 DEF Master
<1>6. CASE k = 1
  <2>1. Head(pc) = Out("A0", \h11)
    BY <1>1, <1>6 DEF setupPIC
  <2>2. Head(pc).port \in {"A0", "A1"}
    BY <2>1 DEF Out
  <2> QED  BY <1>0, <1>6, <1>2, <2>2 DEF Master
<1>7. CASE k = 2
  <2>1. Head(pc) = Out("21", \h20)
    BY <1>1, <1>7 DEF setupPIC
  <2>2. icw["master"] = 2 /\ Odd("master", \h20)
    BY <1>0, <1>7, <2>1 DEF outb, Out, Chip, Master
  <2>3. icw'["master"] = 3 /\ base'["master"] = \h20
    BY <1>0, <2>2, Words DEF Odd
  <2> QED  BY <1>0, <1>7, <2>3 DEF Master
<1>8. CASE k = 3
  <2>1. Head(pc) = Out("20", \h28)
    BY <1>1, <1>8 DEF setupPIC
  <2>2. Even("master", \h28)
    BY <2>1 DEF outb, Out, Chip
  <2>3. icw' = icw /\ base' = base
    BY <2>2, Words DEF Even, chipVars
  <2> QED  BY <1>0, <1>8, <2>3 DEF Master
<1>9. CASE k = 4
  <2>1. Head(pc) = Out("21", \h04)
    BY <1>1, <1>9 DEF setupPIC
  <2>2. icw["master"] = 3 /\ Odd("master", \h04)
    BY <1>0, <1>9, <2>1 DEF outb, Out, Chip, Master
  <2>3. icw'["master"] = 4 /\ base' = base
    BY <1>0, <2>2, Words DEF Odd
  <2> QED  BY <1>0, <1>9, <2>3 DEF Master
<1>10. CASE k = 5
  <2>1. Head(pc) = Out("A1", \h02)
    BY <1>1, <1>10 DEF setupPIC
  <2>2. Head(pc).port \in {"A0", "A1"}
    BY <2>1 DEF Out
  <2> QED  BY <1>0, <1>10, <1>2, <2>2 DEF Master
<1>11. CASE k = 6
  <2>1. Head(pc) = Out("21", \h01)
    BY <1>1, <1>11 DEF setupPIC
  <2>2. icw["master"] = 4 /\ Odd("master", \h01)
    BY <1>0, <1>11, <2>1 DEF outb, Out, Chip, Master
  <2>3. icw'["master"] = 0 /\ base' = base
    BY <1>0, <2>2, Words DEF Odd
  <2> QED  BY <1>0, <1>11, <2>3 DEF Master
<1>12. CASE k = 7
  <2>1. Head(pc) = Out("A1", \h01)
    BY <1>1, <1>12 DEF setupPIC
  <2>2. Head(pc).port \in {"A0", "A1"}
    BY <2>1 DEF Out
  <2> QED  BY <1>0, <1>12, <1>2, <2>2 DEF Master
<1>13. CASE k = 8
  <2>1. Head(pc) = Out("21", \hFF)
    BY <1>1, <1>13 DEF setupPIC
  <2>2. icw["master"] = 0 /\ Odd("master", \hFF)
    BY <1>0, <1>13, <2>1 DEF outb, Out, Chip, Master
  <2>3. imr'["master"] = IRQ /\ icw' = icw /\ base' = base
    BY <1>0, <2>2, Words DEF Odd
  <2> QED  BY <1>0, <1>13, <2>3 DEF Master
<1>14. CASE k = 9
  <2>1. Head(pc) = Out("A1", \hFF)
    BY <1>1, <1>14 DEF setupPIC
  <2>2. Head(pc).port \in {"A0", "A1"}
    BY <2>1 DEF Out
  <2> QED  BY <1>0, <1>14, <1>2, <2>2 DEF Master
<1> QED  BY <1>5, <1>6, <1>7, <1>8, <1>9, <1>10, <1>11, <1>12, <1>13, <1>14

\* Word by word through the shell's call.
LEMMA EnableWord ==
  ASSUME LineTyped, outb, UNCHANGED keyVars, icw["master"] = 0, base["master"] = \h20,
         NEW k \in 0..1, pc = SubSeq(enable_kb_tim, k + 1, 2),
         imr["master"] = IF k = 0 THEN IRQ ELSE 2..7
  PROVE  /\ pc' = SubSeq(enable_kb_tim, k + 2, 2) /\ imr'["master"] = 2..7
         /\ icw'["master"] = 0 /\ base'["master"] = \h20
         /\ LineTyped' /\ irr'["master"] \subseteq irr["master"]
<1>0. /\ icw \in [Chips -> 0..4] /\ base \in [Chips -> Int]
      /\ imr \in [Chips -> SUBSET IRQ] /\ "master" \in Chips
  BY DEF LineTyped, Chips
<1>1. /\ Head(pc) = enable_kb_tim[k + 1] /\ Tail(pc) = SubSeq(enable_kb_tim, k + 2, 2)
      /\ Head(pc) \in Word
  <2>1. enable_kb_tim \in Seq(Word) /\ Len(enable_kb_tim) = 2
    BY Programs
  <2> HIDE DEF enable_kb_tim
  <2>2. k \in 0..(Len(enable_kb_tim) - 1) /\ k + 1 \in 1..Len(enable_kb_tim)
    BY <2>1
  <2>3. /\ Head(SubSeq(enable_kb_tim, k + 1, Len(enable_kb_tim))) = enable_kb_tim[k + 1]
        /\ Tail(SubSeq(enable_kb_tim, k + 1, Len(enable_kb_tim))) = SubSeq(enable_kb_tim, k + 2, Len(enable_kb_tim))
    BY <2>1, <2>2, LeftOver
  <2>4. enable_kb_tim[k + 1] \in Word
    BY <2>1, <2>2, LeftOver
  <2> QED  BY <2>1, <2>3, <2>4
<1>2. /\ LineTyped' /\ irr'["master"] \subseteq irr["master"]
      /\ Head(pc).port \in {"A0", "A1"} =>
           /\ icw'["master"] = icw["master"] /\ base'["master"] = base["master"]
           /\ imr'["master"] = imr["master"]
  BY <1>1, OneWord
<1>3. pc' = SubSeq(enable_kb_tim, k + 2, 2)
  BY <1>1 DEF outb
<1>4. CASE k = 0
  <2>1. Head(pc) = Out("21", \hFC)
    BY <1>1, <1>4 DEF enable_kb_tim
  <2>2. Odd("master", \hFC)
    BY <2>1 DEF outb, Out, Chip
  <2>3. imr'["master"] = 2..7 /\ icw' = icw /\ base' = base
    BY <1>0, <2>2, Words DEF Odd
  <2> QED  BY <1>2, <1>3, <2>3
<1>5. CASE k = 1
  <2>1. Head(pc) = Out("A1", \hFF)
    BY <1>1, <1>5 DEF enable_kb_tim
  <2>2. Head(pc).port \in {"A0", "A1"}
    BY <2>1 DEF Out
  <2> QED  BY <1>2, <1>3, <1>5, <2>2
<1> QED  BY <1>4, <1>5

\* The beginning of a program is all of it, its end nothing.
LEMMA WholeAndEnd ==
  ASSUME NEW s \in Seq(Word), NEW n, n = Len(s)
  PROVE  /\ SubSeq(s, 1, n) = s
         /\ \A k \in 0..n : SubSeq(s, k + 1, n) = <<>> <=> k = n
<1>0. n \in Nat
  OBVIOUS
<1>1. SubSeq(s, 1, n) = s
  <2> DEFINE r == SubSeq(s, 1, n)
  <2>1. r \in Seq(Word) /\ Len(r) = n /\ \A i \in 1..n : r[i] = s[i]
    OBVIOUS
  <2> HIDE DEF r
  <2>2. r \in [1..n -> Word] /\ s \in [1..n -> Word]
    BY <2>1
  <2>3. r = [i \in 1..n |-> r[i]] /\ s = [i \in 1..n |-> s[i]]
    BY <2>2
  <2>4. r = s
    BY <2>1, <2>3
  <2> QED  BY <2>4 DEF r
<1>2. ASSUME NEW k \in 0..n PROVE SubSeq(s, k + 1, n) = <<>> <=> k = n
  <2> DEFINE r == SubSeq(s, k + 1, n)
  <2>1. r \in Seq(Word) /\ Len(r) = n - k
    BY <1>0
  <2> HIDE DEF r
  <2>2. r = <<>> <=> k = n
    BY <1>0, <2>1
  <2> QED  BY <2>2 DEF r
<1> QED  BY <1>1, <1>2

LEMMA Ends ==
  /\ SubSeq(setupPIC, 1, 10) = setupPIC /\ SubSeq(enable_kb_tim, 1, 2) = enable_kb_tim
  /\ \A k \in 0..10 : SubSeq(setupPIC, k + 1, 10) = <<>> <=> k = 10
  /\ \A k \in 0..2 : SubSeq(enable_kb_tim, k + 1, 2) = <<>> <=> k = 2
<1>1. /\ SubSeq(setupPIC, 1, 10) = setupPIC
      /\ \A k \in 0..10 : SubSeq(setupPIC, k + 1, 10) = <<>> <=> k = 10
  <2>1. setupPIC \in Seq(Word) /\ 10 = Len(setupPIC)
    BY Programs
  <2> QED  BY ONLY <2>1, WholeAndEnd
<1>2. /\ SubSeq(enable_kb_tim, 1, 2) = enable_kb_tim
      /\ \A k \in 0..2 : SubSeq(enable_kb_tim, k + 1, 2) = <<>> <=> k = 2
  <2>1. enable_kb_tim \in Seq(Word) /\ 2 = Len(enable_kb_tim)
    BY Programs
  <2> QED  BY ONLY <2>1, WholeAndEnd
<1> QED  BY <1>1, <1>2

\* Programming the controllers.
LEMMA OutbKeeps ==
  ASSUME KInv, outb, UNCHANGED keyVars PROVE KInv'
<1>0. /\ pc # <<>> /\ UNCHANGED <<phase, ints, taken, wire>> /\ LineTyped
  BY DEF outb, keyVars, KInv
<1>1. Balanced'
  BY DEF KInv, Balanced, keyVars
<1>2. ASSUME irr'["master"] \subseteq irr["master"] PROVE Requested'
  BY <1>0, <1>2 DEF KInv, Requested
<1>3. CASE phase = "setup"
  <2>1. PICK k \in 0..10 : pc = SubSeq(setupPIC, k + 1, 10) /\ Master(k)
    BY <1>3 DEF KInv, Programmed
  <2>2. k \in 0..9
    BY <1>0, <2>1, Ends
  <2>3. /\ pc' = SubSeq(setupPIC, k + 2, 10) /\ Master(k + 1)'
        /\ LineTyped' /\ irr'["master"] \subseteq irr["master"]
    BY <1>0, <2>1, <2>2, SetupWord
  <2>4. k + 1 \in 0..10 /\ k + 2 = (k + 1) + 1
    BY <2>2
  <2>5. \E n \in 0..10 : pc' = SubSeq(setupPIC, n + 1, 10) /\ Master(n)'
    BY <2>3, <2>4
  <2>6. Programmed'
    BY <1>0, <1>3, <2>5 DEF KInv, Programmed
  <2> QED  BY <1>1, <1>2, <2>3, <2>6 DEF KInv
<1>4. CASE phase = "enable"
  <2>1. PICK k \in 0..2 : /\ pc = SubSeq(enable_kb_tim, k + 1, 2)
                          /\ imr["master"] = IF k = 0 THEN IRQ ELSE 2..7
    BY <1>4 DEF KInv, Programmed
  <2>2. k \in 0..1 /\ icw["master"] = 0 /\ base["master"] = \h20
    BY <1>0, <1>4, <2>1, Ends DEF KInv, Programmed
  <2>3. /\ pc' = SubSeq(enable_kb_tim, k + 2, 2) /\ imr'["master"] = 2..7
        /\ icw'["master"] = 0 /\ base'["master"] = \h20
        /\ LineTyped' /\ irr'["master"] \subseteq irr["master"]
    BY <1>0, <2>1, <2>2, EnableWord
  <2>4. k + 1 \in 0..2 /\ k + 2 = (k + 1) + 1 /\ k + 1 # 0
    BY <2>2
  <2>5. \E n \in 0..2 : /\ pc' = SubSeq(enable_kb_tim, n + 1, 2)
                        /\ imr'["master"] = IF n = 0 THEN IRQ ELSE 2..7
    BY <2>3, <2>4
  <2>6. Programmed'
    BY <1>0, <1>4, <2>3, <2>5 DEF KInv, Programmed
  <2> QED  BY <1>1, <1>2, <2>3, <2>6 DEF KInv
<1> QED  BY <1>0, <1>3, <1>4 DEF KInv, LineTyped, Programmed

\* From phase to phase.
LEMMA PhaseKeeps ==
  ASSUME KInv, UNCHANGED keyVars,
         setupInterrupts \/ sys_enable_kb_tim \/ exception_return
  PROVE  KInv'
<1>0. UNCHANGED <<icw, base, imr, irr, isr, taken, down, last, wire, repeats, is_shifted>>
  BY DEF keyVars, setupInterrupts, sys_enable_kb_tim, exception_return, chipVars
<1>1. Balanced'
  BY <1>0 DEF KInv, Balanced
<1>2. CASE setupInterrupts
  <2>1. phase = "setup" /\ pc = <<>> /\ phase' = "masked" /\ pc' = pc
    BY <1>2 DEF setupInterrupts
  <2>2. PICK k \in 0..10 : pc = SubSeq(setupPIC, k + 1, 10) /\ Master(k)
    BY <2>1 DEF KInv, Programmed
  <2>3. k = 10
    BY <2>1, <2>2, Ends
  <2>4. icw["master"] = 0 /\ base["master"] = \h20 /\ imr["master"] = IRQ
    BY <2>2, <2>3 DEF Master
  <2>5. LineTyped' /\ Programmed' /\ Requested'
    BY <1>0, <2>1, <2>4 DEF KInv, LineTyped, Programmed, Requested
  <2> QED  BY <1>1, <2>5 DEF KInv
<1>3. CASE sys_enable_kb_tim
  <2>1. /\ phase = "masked" /\ phase' = "enable" /\ pc' = enable_kb_tim /\ ~ints'
        /\ taken = -1
    BY <1>3 DEF sys_enable_kb_tim
  <2>2. icw["master"] = 0 /\ base["master"] = \h20 /\ imr["master"] = IRQ
    BY <2>1 DEF KInv, Programmed
  <2>3. \E n \in 0..2 : /\ pc' = SubSeq(enable_kb_tim, n + 1, 2)
                        /\ imr'["master"] = IF n = 0 THEN IRQ ELSE 2..7
    <3>1. 0 \in 0..2 /\ 0 + 1 = 1 /\ pc' = SubSeq(enable_kb_tim, 1, 2)
      BY <2>1, Ends
    <3> QED  BY <1>0, <2>2, <3>1
  <2>4. LineTyped' /\ Requested'
    BY <1>0, <2>1 DEF KInv, LineTyped, Requested
  <2>5. Programmed'
    BY <1>0, <2>1, <2>2, <2>3 DEF Programmed
  <2> QED  BY <1>1, <2>4, <2>5 DEF KInv
<1>4. CASE exception_return
  <2>1. phase = "enable" /\ pc = <<>> /\ phase' = "open" /\ pc' = pc
    BY <1>4 DEF exception_return
  <2>2. PICK k \in 0..2 : /\ pc = SubSeq(enable_kb_tim, k + 1, 2)
                          /\ imr["master"] = IF k = 0 THEN IRQ ELSE 2..7
    BY <2>1 DEF KInv, Programmed
  <2>3. k = 2
    BY <2>1, <2>2, Ends
  <2>4. icw["master"] = 0 /\ base["master"] = \h20 /\ imr["master"] = 2..7
    BY <2>1, <2>2, <2>3 DEF KInv, Programmed
  <2>5. LineTyped' /\ Programmed' /\ Requested'
    BY <1>0, <2>1, <2>4 DEF KInv, LineTyped, Programmed, Requested
  <2> QED  BY <1>1, <2>5 DEF KInv
<1> QED  BY <1>2, <1>3, <1>4

\* The processor is interrupted.
LEMMA AcknowledgeKeeps ==
  ASSUME KInv, Acknowledge, UNCHANGED keyVars PROVE KInv'
<1>0. /\ ints /\ taken = -1 /\ MasterAsks # {}
      /\ UNCHANGED <<pc, phase, ints, icw, base, imr, down, last, wire, repeats, is_shifted>>
      /\ irr \in [Chips -> SUBSET IRQ] /\ "master" \in Chips
  BY DEF Acknowledge, keyVars, KInv, LineTyped, Chips
<1>1. phase \in {"masked", "open"}
  BY <1>0 DEF KInv, LineTyped, Programmed
<1>2. MasterAsks \subseteq IRQ \ imr["master"]
  BY <1>0 DEF MasterAsks, IRQ
<1>3. phase = "open" /\ imr["master"] = 2..7 /\ base["master"] = \h20
  BY <1>0, <1>1, <1>2 DEF KInv, Programmed
<1>4. MasterAsks \subseteq {0, 1} /\ MasterAsks \subseteq irr["master"]
  <2>1. MasterAsks \subseteq {0, 1}
    BY <1>2, <1>3 DEF IRQ
  <2> QED  BY <2>1 DEF MasterAsks
<1> DEFINE i == Least(MasterAsks)
<1>5. i \in {0, 1} /\ i \in irr["master"]
  <2> DEFINE M == MasterAsks
  <2>0. M # {} /\ M \subseteq {0, 1}
    BY <1>0, <1>4
  <2> HIDE DEF M
  <2>1. \E m \in M : \A j \in M : m <= j
    <3>1. CASE 0 \in M
      BY <2>0, <3>1
    <3>2. CASE 0 \notin M
      <4>1. M = {1}
        BY <2>0, <3>2
      <4> QED  BY <4>1
    <3> QED  BY <3>1, <3>2
  <2> USE DEF M
  <2>2. i \in MasterAsks
    BY <2>1 DEF Least
  <2> QED  BY <1>4, <2>2
<1>6. taken' = \h20 + i /\ irr' = [irr EXCEPT !["master"] = @ \ {i}]
  <2>1. i # 2
    BY <1>5
  <2>2. taken' = base["master"] + i /\ irr' = [irr EXCEPT !["master"] = @ \ {i}]
    BY <2>1, Zenon DEF Acknowledge
  <2> QED  BY <1>3, <2>2
<1> HIDE DEF i
<1>7. /\ irr' \in [Chips -> SUBSET IRQ] /\ irr'["master"] = irr["master"] \ {i}
  BY <1>0, <1>6
<1>8. LineTyped' /\ Programmed'
  BY <1>0, <1>3, <1>7 DEF KInv, LineTyped, Programmed
<1>9. Requested'
  BY <1>0, <1>3, <1>5, <1>6, <1>7 DEF KInv, Requested
<1>10. Balanced'
  BY <1>0 DEF KInv, Balanced
<1> QED  BY <1>8, <1>9, <1>10 DEF KInv

\* The clock's handler, and a line that rises.
LEMMA ClockKeeps ==
  ASSUME KInv, UNCHANGED keyVars, time_handler \/ \E line \in Lines : Raise(line)
  PROVE  KInv'
<1>0. /\ UNCHANGED <<pc, phase, ints, icw, base, imr, down, last, wire, repeats, is_shifted>>
      /\ irr \in [Chips -> SUBSET IRQ] /\ Chips = {"master", "slave"}
  BY DEF time_handler, Raise, keyVars, KInv, LineTyped, Chips
<1>1. Balanced' /\ Programmed'
  BY <1>0 DEF KInv, Balanced, Programmed, Master
<1>2. CASE time_handler
  <2>1. taken' = -1 /\ irr' = irr
    BY <1>2 DEF time_handler
  <2> QED  BY <1>0, <1>1, <2>1 DEF KInv, LineTyped, Requested
<1>3. ASSUME NEW line \in Lines, Raise(line) PROVE KInv'
  <2> DEFINE c == IF line < 8 THEN "master" ELSE "slave"
  <2>1. /\ irr' = [irr EXCEPT ![c] = @ \cup {line % 8}] /\ UNCHANGED taken
    BY <1>3 DEF Raise
  <2>2. line \in 0..15 /\ line # 1 /\ line % 8 \in IRQ /\ (line < 8 => line % 8 = line)
    BY PicAssumption, LineAssumption DEF IRQ
  <2>3. irr' \in [Chips -> SUBSET IRQ] /\ (1 \in irr'["master"] => 1 \in irr["master"])
    BY <1>0, <2>1, <2>2
  <2> QED  BY <1>0, <1>1, <2>1, <2>3 DEF KInv, LineTyped, Requested
<1> QED  BY <1>2, <1>3

\* The shift keys held are finitely many; a key that goes down or up.
LEMMA HeldFinite ==
  ASSUME NEW D PROVE IsFiniteSet(D \cap ShiftMake) /\ Cardinality(D \cap ShiftMake) \in Nat
<1>1. IsFiniteSet({42} \cup {54}) /\ {42} \cup {54} = {42, 54}
  BY FS_AddElement, FS_Singleton
<1>2. D \cap ShiftMake \subseteq {42, 54}
  BY DEF ShiftMake
<1> QED  BY <1>1, <1>2, FS_Subset, FS_CardinalityType

LEMMA HeldOneMore ==
  ASSUME NEW D, NEW k, k \notin D
  PROVE  Cardinality((D \cup {k}) \cap ShiftMake) =
           Cardinality(D \cap ShiftMake) + (IF k \in ShiftMake THEN 1 ELSE 0)
<1> DEFINE H == D \cap ShiftMake
<1>1. IsFiniteSet(H) /\ Cardinality(H) \in Nat /\ k \notin H
  BY HeldFinite
<1>2. CASE k \in ShiftMake
  <2>1. (D \cup {k}) \cap ShiftMake = H \cup {k}
    BY <1>2
  <2> HIDE DEF H
  <2>2. Cardinality(H \cup {k}) = Cardinality(H) + 1
    BY <1>1, FS_AddElement
  <2> QED  BY <1>2, <2>1, <2>2 DEF H
<1>3. CASE k \notin ShiftMake
  <2>1. (D \cup {k}) \cap ShiftMake = H
    BY <1>3
  <2>2. Cardinality(H) = Cardinality(H) + 0
    BY <1>1
  <2> HIDE DEF H
  <2> QED  BY <1>3, <2>1, <2>2 DEF H
<1> QED  BY <1>2, <1>3

\* A code goes onto the wire.
LEMMA SendKeeps ==
  ASSUME KInv, NEW c \in Code, Send(c), UNCHANGED repeats,
         down' \subseteq KeySet, last' \in KeySet \cup {NoKey},
         Cardinality(down' \cap ShiftMake) + (IF c \in Ups THEN 1 ELSE 0) =
           Cardinality(down \cap ShiftMake) + (IF c \in Fresh THEN 1 ELSE 0)
  PROVE  KInv'
<1>0. /\ phase # "setup" /\ wire' = Append(wire, c)
      /\ irr' = IF wire = <<>> THEN [irr EXCEPT !["master"] = @ \cup {1}] ELSE irr
      /\ UNCHANGED <<pc, phase, ints, icw, base, imr, isr, taken, is_shifted, repeats>>
      /\ irr \in [Chips -> SUBSET IRQ] /\ "master" \in Chips
  BY DEF Send, KInv, LineTyped, Chips
<1>1. wire \in Seq(Code)
  BY DEF KInv, LineTyped
<1>2. wire' \in Seq(Code) /\ wire' # <<>>
  BY <1>0, <1>1
<1>3. irr' \in [Chips -> SUBSET IRQ] /\ (wire # <<>> => irr' = irr)
  BY <1>0 DEF IRQ
<1>4. LineTyped'
  BY <1>0, <1>2, <1>3 DEF KInv, LineTyped
<1>5. Programmed'
  BY <1>0 DEF KInv, Programmed, Master
<1>6. Requested'
  BY <1>0, <1>2, <1>3 DEF KInv, Requested
<1>7. Balanced'
  <2> DEFINE f == Cardinality(Marked(wire, Fresh))
             u == Cardinality(Marked(wire, Ups))
             n == Cardinality(down \cap ShiftMake)
             m == Cardinality(down' \cap ShiftMake)
  <2>1. /\ Cardinality(Marked(wire', Fresh)) = f + (IF c \in Fresh THEN 1 ELSE 0)
        /\ Cardinality(Marked(wire', Ups)) = u + (IF c \in Ups THEN 1 ELSE 0)
    BY <1>0, <1>1, MarkedAppend
  <2>2. f \in Nat /\ u \in Nat /\ is_shifted \in Int /\ repeats \in Nat
    BY <1>1, MarkedFinite DEF KInv, LineTyped
  <2>3. n \in Nat /\ m \in Nat
    BY HeldFinite DEF KInv, LineTyped
  <2>4. is_shifted + f = n + repeats + u
    BY DEF KInv, Balanced
  <2>5. m + (IF c \in Ups THEN 1 ELSE 0) = n + (IF c \in Fresh THEN 1 ELSE 0)
    OBVIOUS
  <2> HIDE DEF f, u, n, m
  <2>6. is_shifted + (f + (IF c \in Fresh THEN 1 ELSE 0)) =
          m + repeats + (u + (IF c \in Ups THEN 1 ELSE 0))
    BY <2>2, <2>3, <2>4, <2>5
  <2> QED  BY <1>0, <2>1, <2>6 DEF Balanced, m
<1> QED  BY <1>4, <1>5, <1>6, <1>7 DEF KInv

\* A key goes down, comes up, or is held for long.
LEMMA KeysKeep ==
  ASSUME KInv, Repeat \/ \E k \in KeySet : Press(k) \/ Release(k)
  PROVE  KInv'
<1>0. down \subseteq KeySet /\ last \in KeySet \cup {NoKey}
  BY DEF KInv, LineTyped
<1>k. ASSUME NEW k \in KeySet, NEW a \in BOOLEAN
      PROVE  /\ [code |-> k, again |-> a] \in Code /\ [code |-> k + 128, again |-> a] \in Code
             /\ [code |-> k, again |-> a] \notin Ups /\ [code |-> k + 128, again |-> a] \notin Fresh
             /\ [code |-> k, again |-> a] \in Fresh <=> k \in ShiftMake /\ ~a
             /\ [code |-> k + 128, again |-> a] \in Ups <=> k \in ShiftMake
  BY <1>k DEF KeySet, Code, Fresh, Ups, ShiftMake, ShiftBreak
<1>1. ASSUME NEW k \in KeySet, Press(k) PROVE KInv'
  <2> DEFINE c == [code |-> k, again |-> FALSE]
  <2>1. /\ k \notin down /\ down' = down \cup {k} /\ last' = k /\ Send(c) /\ UNCHANGED repeats
    BY <1>1 DEF Press, Make
  <2>2. c \in Code /\ c \notin Ups /\ (c \in Fresh <=> k \in ShiftMake)
    BY <1>k, ZenonT(60)
  <2>3. Cardinality(down' \cap ShiftMake) =
          Cardinality(down \cap ShiftMake) + (IF k \in ShiftMake THEN 1 ELSE 0)
    BY <2>1, HeldOneMore
  <2>4. Cardinality(down \cap ShiftMake) \in Nat
    BY HeldFinite
  <2> HIDE DEF c
  <2>5. Cardinality(down' \cap ShiftMake) + (IF c \in Ups THEN 1 ELSE 0) =
          Cardinality(down \cap ShiftMake) + (IF c \in Fresh THEN 1 ELSE 0)
    BY <2>2, <2>3, <2>4
  <2>6. down' \subseteq KeySet /\ last' \in KeySet \cup {NoKey}
    BY <1>0, <2>1
  <2> QED  BY <2>1, <2>2, <2>5, <2>6, SendKeeps
<1>2. ASSUME NEW k \in KeySet, Release(k) PROVE KInv'
  <2> DEFINE c == [code |-> k + 128, again |-> FALSE]
  <2>1. /\ k \in down /\ down' = down \ {k} /\ last' \in {last, NoKey}
        /\ Send(c) /\ UNCHANGED repeats
    BY <1>2 DEF Release, Break
  <2>2. c \in Code /\ c \notin Fresh /\ (c \in Ups <=> k \in ShiftMake)
    BY <1>k, ZenonT(60)
  <2>3. k \notin down' /\ down = down' \cup {k}
    BY <2>1
  <2>4. Cardinality(down \cap ShiftMake) =
          Cardinality(down' \cap ShiftMake) + (IF k \in ShiftMake THEN 1 ELSE 0)
    BY <2>3, HeldOneMore
  <2>5. Cardinality(down \cap ShiftMake) \in Nat
    BY HeldFinite
  <2> HIDE DEF c
  <2>6. Cardinality(down' \cap ShiftMake) + (IF c \in Ups THEN 1 ELSE 0) =
          Cardinality(down \cap ShiftMake) + (IF c \in Fresh THEN 1 ELSE 0)
    BY <2>2, <2>4, <2>5
  <2>7. down' \subseteq KeySet /\ last' \in KeySet \cup {NoKey}
    BY <1>0, <2>1
  <2> QED  BY <2>1, <2>2, <2>6, <2>7, SendKeeps
<1>3. CASE Repeat
  <2> DEFINE c == [code |-> last, again |-> TRUE]
  <2>1. last \in KeySet /\ Send(c) /\ UNCHANGED <<down, last, repeats>>
    BY <1>0, <1>3 DEF Repeat, Make
  <2>2. c \in Code /\ c \notin Ups /\ c \notin Fresh
    BY <1>k, <2>1, ZenonT(60)
  <2> HIDE DEF c
  <2>3. Cardinality(down' \cap ShiftMake) + (IF c \in Ups THEN 1 ELSE 0) =
          Cardinality(down \cap ShiftMake) + (IF c \in Fresh THEN 1 ELSE 0)
    BY <2>1, <2>2
  <2> QED  BY <1>0, <2>1, <2>2, <2>3, SendKeeps
<1> QED  BY <1>1, <1>2, <1>3

\* The handler reads a code.
LEMMA HandlerKeeps ==
  ASSUME KInv, keyboard_handler PROVE KInv'
<1> DEFINE c == Head(wire)
<1>0. /\ taken = \h21 /\ taken' = -1 /\ wire' = Tail(wire)
      /\ is_shifted' = ShiftAfter(c.code, is_shifted)
      /\ repeats' = repeats + (IF c.again /\ c.code \in ShiftMake THEN 1 ELSE 0)
      /\ irr' = IF wire' = <<>> THEN irr ELSE [irr EXCEPT !["master"] = @ \cup {1}]
      /\ UNCHANGED <<pc, phase, ints, icw, base, imr, down, last>>
  BY DEF keyboard_handler
<1>1. /\ wire # <<>> /\ phase = "open" /\ 1 \notin irr["master"]
      /\ wire \in Seq(Code) /\ irr \in [Chips -> SUBSET IRQ]
      /\ is_shifted \in Int /\ repeats \in Nat
  BY <1>0 DEF KInv, LineTyped, Requested
<1>2. c \in Code /\ wire' \in Seq(Code)
  BY <1>0, <1>1
<1> HIDE DEF c
<1>3. irr' \in [Chips -> SUBSET IRQ] /\ (wire' = <<>> => irr' = irr)
  <2>1. wire' = <<>> => irr' = irr
    BY <1>0
  <2>2. irr' = irr \/ irr' = [irr EXCEPT !["master"] = @ \cup {1}]
    BY <1>0
  <2>3. 1 \in IRQ
    BY DEF IRQ
  <2> QED  BY <1>1, <2>1, <2>2, <2>3
<1>4. /\ c.code \in {16, 42, 54, 144, 170, 182} /\ c.again \in BOOLEAN
      /\ c \in Fresh <=> c.code \in ShiftMake /\ ~c.again
      /\ c \in Ups <=> c.code \in ShiftBreak
      /\ ~(c.code \in ShiftMake /\ c.code \in ShiftBreak)
  BY <1>2 DEF Code, Fresh, Ups, ShiftMake, ShiftBreak
<1>5. repeats' \in Nat /\ is_shifted' \in Int
  BY <1>0, <1>1, <1>4 DEF ShiftAfter
<1>6. LineTyped' /\ Programmed'
  BY <1>0, <1>1, <1>2, <1>3, <1>5 DEF KInv, LineTyped, Programmed, Master
<1>7. Requested'
  BY <1>0, <1>1, <1>3 DEF Requested
<1>8. Balanced'
  <2> DEFINE f == Cardinality(Marked(wire', Fresh))
             u == Cardinality(Marked(wire', Ups))
             n == Cardinality(down \cap ShiftMake)
  <2>1. /\ Cardinality(Marked(wire, Fresh)) = f + (IF c \in Fresh THEN 1 ELSE 0)
        /\ Cardinality(Marked(wire, Ups)) = u + (IF c \in Ups THEN 1 ELSE 0)
    BY <1>0, <1>1, MarkedTail DEF c
  <2>2. f \in Nat /\ u \in Nat /\ n \in Nat
    BY <1>2, MarkedFinite, HeldFinite
  <2>3. is_shifted + Cardinality(Marked(wire, Fresh)) =
          n + repeats + Cardinality(Marked(wire, Ups))
    BY DEF KInv, Balanced
  <2> HIDE DEF f, u, n
  <2>4. is_shifted + (f + (IF c \in Fresh THEN 1 ELSE 0)) =
          n + repeats + (u + (IF c \in Ups THEN 1 ELSE 0))
    BY <2>1, <2>3
  <2>5. is_shifted' + f = n + repeats' + u
    <3>1. CASE c.code \in ShiftMake
      <4>1. /\ is_shifted' = is_shifted + 1 /\ c \notin Ups
            /\ c.again => repeats' = repeats + 1 /\ c \notin Fresh
            /\ ~c.again => repeats' = repeats /\ c \in Fresh
        BY <1>0, <1>1, <1>4, <3>1 DEF ShiftAfter
      <4> QED  BY <1>1, <1>4, <2>2, <2>4, <4>1, SMTT(60)
    <3>2. CASE c.code \in ShiftBreak
      <4>1. is_shifted' = is_shifted - 1 /\ c \in Ups /\ c \notin Fresh /\ repeats' = repeats
        BY <1>0, <1>1, <1>4, <3>2 DEF ShiftAfter
      <4> QED  BY <1>1, <2>2, <2>4, <4>1
    <3>3. CASE c.code \notin ShiftMake /\ c.code \notin ShiftBreak
      <4>1. is_shifted' = is_shifted /\ c \notin Ups /\ c \notin Fresh /\ repeats' = repeats
        BY <1>0, <1>1, <1>4, <3>3 DEF ShiftAfter
      <4> QED  BY <1>1, <2>2, <2>4, <4>1
    <3> QED  BY <3>1, <3>2, <3>3
  <2> QED  BY <1>0, <2>5 DEF Balanced, f, u, n
<1> QED  BY <1>6, <1>7, <1>8 DEF KInv

\* The beginning.
LEMMA KeyStart ==
  ASSUME Init PROVE KInv
<1>0. /\ phase = "setup" /\ pc = setupPIC /\ ~ints /\ taken = -1
      /\ icw = [c \in Chips |-> 0] /\ base = BiosBase /\ imr \in [Chips -> {{}, IRQ}]
      /\ irr = [c \in Chips |-> {}] /\ "master" \in Chips
      /\ down = {} /\ last = NoKey /\ wire = <<>> /\ repeats = 0 /\ is_shifted = 0
  BY DEF Init, PicInit, Chips
<1>a. /\ base \in [Chips -> Int] /\ imr \in [Chips -> SUBSET IRQ]
      /\ irr \in [Chips -> SUBSET IRQ] /\ 1 \notin irr["master"]
  <2>1. base \in [Chips -> Int]
    <3>1. base \in [Chips -> Byte] /\ Byte \subseteq Int
      BY <1>0, PicAssumption DEF Byte
    <3> QED  BY ONLY <3>1
  <2>2. {{}, IRQ} \subseteq SUBSET IRQ
    OBVIOUS
  <2> QED  BY <1>0, <2>1, <2>2
<1>1. Master(0) /\ 0 \in 0..10 /\ pc = SubSeq(setupPIC, 0 + 1, 10)
  <2>1. pc = SubSeq(setupPIC, 1, 10)
    BY <1>0, Ends
  <2> QED  BY <1>0, <2>1 DEF Master
<1>2. Programmed
  BY <1>0, <1>1 DEF Programmed
<1>3. LineTyped /\ Requested
  BY <1>0, <1>a DEF LineTyped, Requested, KeySet, NoKey
<1>4. Marked(wire, Fresh) = {} /\ Marked(wire, Ups) = {} /\ down \cap ShiftMake = {}
  BY <1>0 DEF Marked
<1>5. Balanced
  <2>1. Cardinality({}) = 0
    BY FS_EmptySet
  <2>2. is_shifted + 0 = 0 + repeats + 0
    BY <1>0
  <2> QED  BY <1>4, <2>1, <2>2 DEF Balanced
<1> QED  BY <1>2, <1>3, <1>5 DEF KInv

\* Every behaviour keeps the invariant.
THEOREM KeyInvariance == Spec => []KInv
<1>1. Init => KInv
  BY KeyStart
<1>2. KInv /\ [Next]_vars => KInv'
  <2> SUFFICES ASSUME KInv, [Next]_vars PROVE KInv'
    OBVIOUS
  <2>1. CASE Processor /\ UNCHANGED keyVars
    BY <2>1, OutbKeeps, PhaseKeeps DEF Processor
  <2>2. CASE (Acknowledge \/ time_handler) /\ UNCHANGED keyVars
    BY <2>2, AcknowledgeKeeps, ClockKeeps
  <2>3. CASE (\E line \in Lines : Raise(line)) /\ UNCHANGED keyVars
    BY <2>3, ClockKeeps
  <2>4. CASE Repeat \/ \E k \in KeySet : Press(k) \/ Release(k)
    BY <2>4, KeysKeep
  <2>5. CASE keyboard_handler
    BY <2>5, HandlerKeeps
  <2>6. CASE UNCHANGED vars
    BY <2>6 DEF vars, picVars, chipVars, keyVars, KInv, LineTyped, Programmed, Master,
                Requested, Balanced
  <2> QED  BY <2>1, <2>2, <2>3, <2>4, <2>5, <2>6 DEF Next
<1> QED  BY <1>1, <1>2, PTL DEF Spec

\* Whatever lines the devices drive, only the clock's vector and the
\* keyboard's ever reach the processor, and only once the shell has asked.
THEOREM OnlyTwoVectors == Spec => []OnlyClockAndKeyboard
<1>1. KInv => OnlyClockAndKeyboard
  BY DEF KInv, Requested, OnlyClockAndKeyboard
<1> QED  BY <1>1, KeyInvariance, PTL

\* However many codes wait and however often a held key repeats, is_shifted
\* is the number of shift keys held and of the repeats, once all are read.
THEOREM ShiftCounted == Spec => []ShiftTracked
<1>1. KInv => ShiftTracked
  <2> SUFFICES ASSUME KInv, wire = <<>>
               PROVE  is_shifted = Cardinality(down \cap ShiftMake) + repeats
    BY DEF ShiftTracked
  <2>1. Marked(wire, Fresh) = {} /\ Marked(wire, Ups) = {}
    BY DEF Marked
  <2>2. Cardinality(Marked(wire, Fresh)) = 0 /\ Cardinality(Marked(wire, Ups)) = 0
    BY <2>1, FS_EmptySet
  <2>3. Cardinality(down \cap ShiftMake) \in Nat /\ repeats \in Nat /\ is_shifted \in Int
    BY HeldFinite DEF KInv, LineTyped
  <2>4. is_shifted + 0 = Cardinality(down \cap ShiftMake) + repeats + 0
    BY <2>2 DEF KInv, Balanced
  <2> QED  BY <2>3, <2>4
<1> QED  BY <1>1, KeyInvariance, PTL
=============================================================================
