------------------------- MODULE ShellEditorProofs -------------------------
(***************************************************************************)
(* The line editor for every size of screen and path and every sequence of *)
(* keys: line and screen agree, writes stay on the screen, parse_cmd finds *)
(* the words, the path names the directories.                              *)
(***************************************************************************)
EXTENDS ShellEditor, FiniteSetTheorems, WellFoundedInduction, TLAPS

\* A set of numbers without a least one is empty.
LEMMA NoLeastNumber ==
  ASSUME NEW Bad \in SUBSET Nat, \A m \in Bad : \E k \in Bad : k < m
  PROVE  Bad = {}
<1> SUFFICES ASSUME Bad # {} PROVE FALSE
  OBVIOUS
<1>1. PICK x \in Bad : \A y \in Bad : ~(<<y, x>> \in OpToRel(<, Nat))
  BY NatLessThanWellFounded, WFMin
<1>2. \A y \in Bad : ~(y < x)
  BY <1>1 DEF OpToRel
<1> QED  BY <1>2

LEMMA LeastNumber ==
  ASSUME NEW T \in SUBSET Nat, T # {}
  PROVE  Min(T) \in T /\ \A y \in T : Min(T) <= y
<1>1. PICK x \in T : ~\E y \in T : y < x
  BY NoLeastNumber
<1>2. \E z \in T : \A y \in T : z =< y
  BY <1>1
<1> QED  BY <1>2 DEF Min

LEMMA GreatestNumber ==
  ASSUME NEW m \in Nat, NEW T \in SUBSET (0..m), T # {}
  PROVE  Max(T) \in T /\ \A y \in T : Max(T) >= y
<1> DEFINE U == {m - x : x \in T}
<1>1. U \in SUBSET Nat /\ U # {}
  <2>1. \A x \in T : x \in Nat /\ x <= m
    OBVIOUS
  <2>2. \A x \in T : m - x \in Nat
    BY <2>1
  <2>3. \A u \in U : u \in Nat
    BY <2>2
  <2>4. PICK x \in T : TRUE
    OBVIOUS
  <2>5. m - x \in U
    BY <2>4
  <2> QED  BY <2>3, <2>5
<1>2. Min(U) \in U /\ \A y \in U : Min(U) <= y
  BY <1>1, LeastNumber
<1>3. PICK z \in T : Min(U) = m - z
  BY <1>2
<1>4. \A y \in T : m - z <= m - y
  BY <1>2, <1>3
<1>5. \A y \in T : z >= y
  BY <1>4
<1> QED  BY <1>5 DEF Max

----------------------------------------------------------------------------
\* Rows.

LEMMA Sizes ==
  /\ COLS \in Nat /\ COLS > 2 /\ ROWS \in Nat /\ ROWS >= 1
  /\ SCREEN_SIZE = COLS * ROWS /\ SCREEN_SIZE \in Nat /\ SCREEN_SIZE >= COLS
  /\ Cells = 0..(SCREEN_SIZE - 1) /\ BUFF_LEN = COLS - 2
<1>1. COLS \in Nat /\ COLS > 2 /\ ROWS \in Nat /\ ROWS >= 1
  BY EditorAssumption
<1>2. COLS * ROWS \in Nat /\ COLS * ROWS >= COLS
  <2>1. PICK k \in Nat : ROWS = 1 + k
    <3>1. ROWS - 1 \in Nat /\ ROWS = 1 + (ROWS - 1)
      BY <1>1
    <3> QED  BY <3>1
  <2>2. COLS * ROWS = COLS + COLS * k /\ COLS * k >= 0 /\ COLS * k \in Nat
    BY <2>1, <1>1
  <2> QED  BY <2>2, <1>1
<1> QED  BY <1>1, <1>2 DEF SCREEN_SIZE, Cells, BUFF_LEN

\* Multiples of COLS are ordered as their factors, and COLS apart.
LEMMA Multiples ==
  ASSUME NEW a \in Int, NEW b \in Int
  PROVE  /\ a * COLS \in Int /\ b * COLS \in Int
         /\ (a + 1) * COLS = a * COLS + COLS
         /\ (a - b) * COLS = a * COLS - b * COLS
         /\ a < b => a * COLS + COLS <= b * COLS
         /\ a * COLS < b * COLS => a < b
<1>1. COLS \in Nat /\ COLS > 2
  BY Sizes
<1>2. /\ a * COLS \in Int /\ b * COLS \in Int
      /\ (a + 1) * COLS = a * COLS + COLS
      /\ (a - b) * COLS = a * COLS - b * COLS
  BY <1>1
<1>3. ASSUME NEW x \in Int, NEW y \in Int, x < y PROVE x * COLS + COLS <= y * COLS
  <2>1. PICK k \in Nat : y = x + 1 + k
    <3>1. y - x - 1 \in Nat /\ y = x + 1 + (y - x - 1)
      BY <1>3
    <3> QED  BY <3>1
  <2>2. y * COLS = x * COLS + COLS + k * COLS
    BY <2>1, <1>1
  <2>3. k * COLS \in Nat /\ x * COLS \in Int
    BY <1>1
  <2> QED  BY <2>2, <2>3, <1>1
<1>4. ASSUME a * COLS < b * COLS PROVE a < b
  <2> SUFFICES ASSUME ~(a < b) PROVE FALSE
    OBVIOUS
  <2>1. CASE a = b
    BY <2>1, <1>4, <1>2
  <2>2. CASE b < a
    <3>1. b * COLS + COLS <= a * COLS
      BY <2>2, <1>3
    <3> QED  BY <3>1, <1>4, <1>2, <1>1
  <2> QED  BY <2>1, <2>2
<1> QED  BY <1>2, <1>3, <1>4

\* The first cell of a row.
RowStart(p) == \E r \in 0..(ROWS - 1) : p = r * COLS

LEMMA RowStartIn ==
  ASSUME NEW p, RowStart(p)
  PROVE  p \in Cells /\ p + COLS <= SCREEN_SIZE /\ p \in Nat
<1>1. PICK r \in 0..(ROWS - 1) : p = r * COLS
  BY DEF RowStart
<1>2. r \in Nat /\ r < ROWS /\ ROWS \in Int
  BY Sizes, <1>1
<1>3. p \in Nat
  BY <1>1, <1>2, Sizes
<1>4. r * COLS + COLS <= ROWS * COLS
  BY <1>2, Multiples
<1>5. ROWS * COLS = SCREEN_SIZE
  BY Sizes
<1> QED  BY <1>1, <1>3, <1>4, <1>5, Sizes

----------------------------------------------------------------------------
\* The screen, with characters from A on it.

Tty(A) == [screen: [Cells -> A], cursor: Int]

LEMMA ScrollIs ==
  ASSUME NEW A, BLANK \in A, NEW screen \in [Cells -> A], NEW n \in Nat
  PROVE  /\ scroll(screen, n) \in [Cells -> A]
         /\ \A p \in Cells : p + n * COLS \in Cells => scroll(screen, n)[p] = screen[p + n * COLS]
         /\ n = 0 => scroll(screen, n) = screen
<1>1. scroll(screen, n) =
        [p \in Cells |-> IF p + n * COLS \in Cells THEN screen[p + n * COLS] ELSE BLANK]
  BY DEF scroll
<1>2. \A p \in Cells : (IF p + n * COLS \in Cells THEN screen[p + n * COLS] ELSE BLANK) \in A
  OBVIOUS
<1>3. scroll(screen, n) \in [Cells -> A]
  BY <1>1, <1>2
<1>4. ASSUME n = 0 PROVE scroll(screen, n) = screen
  <2>1. n * COLS = 0
    BY <1>4, Sizes
  <2>2. \A p \in Cells : p + n * COLS = p
    BY <2>1, Sizes
  <2>3. \A p \in Cells : (IF p + n * COLS \in Cells THEN screen[p + n * COLS] ELSE BLANK) = screen[p]
    BY <2>2
  <2>4. [p \in Cells |-> IF p + n * COLS \in Cells THEN screen[p + n * COLS] ELSE BLANK]
          = [p \in Cells |-> screen[p]]
    BY <2>3
  <2>5. [p \in Cells |-> screen[p]] = screen
    OBVIOUS
  <2> QED  BY <1>1, <2>4, <2>5
<1> QED  BY <1>1, <1>3, <1>4

\* set_cursor scrolls until the cursor is in the last row, or not at all.
LEMMA SetCursorIs ==
  ASSUME NEW A, BLANK \in A, NEW t \in Tty(A), NEW pos \in Int
  PROVE  /\ set_cursor(t, pos) \in Tty(A)
         /\ pos < SCREEN_SIZE => set_cursor(t, pos) = [t EXCEPT !.cursor = pos]
         /\ \E n \in Nat :
              /\ set_cursor(t, pos).screen = scroll(t.screen, n)
              /\ set_cursor(t, pos).cursor = pos - n * COLS
              /\ pos < SCREEN_SIZE => n = 0
              /\ pos >= SCREEN_SIZE => /\ set_cursor(t, pos).cursor < SCREEN_SIZE
                                       /\ SCREEN_SIZE - COLS <= set_cursor(t, pos).cursor
<1> DEFINE n == IF pos < SCREEN_SIZE THEN 0 ELSE ((pos - SCREEN_SIZE) \div COLS) + 1
           u == set_cursor(t, pos)
<1>0. /\ COLS \in Nat /\ COLS > 2 /\ SCREEN_SIZE \in Nat
      /\ t.screen \in [Cells -> A] /\ t.cursor \in Int
  BY Sizes DEF Tty
<1>1. n \in Nat
  BY <1>0
<1>2. u = [t EXCEPT !.screen = scroll(t.screen, n), !.cursor = pos - n * COLS]
  BY DEF set_cursor
<1>3. u.screen = scroll(t.screen, n) /\ u.cursor = pos - n * COLS
      /\ u = [screen |-> scroll(t.screen, n), cursor |-> pos - n * COLS]
  BY <1>2 DEF Tty
<1>4. n * COLS \in Int
  BY <1>1, <1>0
<1>5. pos >= SCREEN_SIZE => u.cursor < SCREEN_SIZE /\ SCREEN_SIZE - COLS <= u.cursor
  <2> SUFFICES ASSUME pos >= SCREEN_SIZE
               PROVE  u.cursor < SCREEN_SIZE /\ SCREEN_SIZE - COLS <= u.cursor
    OBVIOUS
  <2> DEFINE d == pos - SCREEN_SIZE
             q == d \div COLS
             m == d % COLS
  <2>1. d \in Nat
    BY <1>0
  <2>2. q \in Nat /\ m \in 0..(COLS - 1) /\ d = COLS * q + m
    BY <2>1, <1>0
  <2>3. n = q + 1
    BY <1>0
  <2> HIDE DEF q, m, n, u
  <2>4. n * COLS = COLS * q + COLS /\ COLS * q \in Int
    BY <2>2, <2>3, <1>0
  <2> QED  BY <2>2, <2>4, <1>3, <1>0
<1>6. pos < SCREEN_SIZE => n = 0
  OBVIOUS
<1> HIDE DEF n
<1>7. scroll(t.screen, n) \in [Cells -> A] /\ (n = 0 => scroll(t.screen, n) = t.screen)
  BY <1>1, <1>0, ScrollIs
<1>8. u \in Tty(A)
  BY <1>3, <1>4, <1>7 DEF Tty
<1>9. pos < SCREEN_SIZE => u = [t EXCEPT !.cursor = pos]
  <2> SUFFICES ASSUME pos < SCREEN_SIZE PROVE u = [t EXCEPT !.cursor = pos]
    OBVIOUS
  <2>1. n * COLS = 0 /\ pos - n * COLS = pos
    BY <1>6, <1>0
  <2>2. u = [screen |-> t.screen, cursor |-> pos]
    BY <2>1, <1>6, <1>3, <1>7
  <2> QED  BY <2>2 DEF Tty
<1> QED  BY <1>1, <1>3, <1>5, <1>6, <1>8, <1>9

\* A new line is the beginning of a row.
LEMMA NewLineIs ==
  ASSUME NEW A, BLANK \in A, NEW t \in Tty(A), t.cursor > -COLS
  PROVE  NewLine(t) \in Tty(A) /\ RowStart(NewLine(t).cursor)
<1> DEFINE c == t.cursor
           pos == c + COLS - Rem(c)
<1>0. COLS \in Nat /\ COLS > 2 /\ SCREEN_SIZE \in Nat /\ c \in Int /\ ROWS \in Nat /\ ROWS >= 1
  BY Sizes DEF Tty
<1>1. PICK q \in Nat : pos = q * COLS /\ q >= 1
  <2>1. CASE c >= 0
    <3> DEFINE k == c \div COLS
    <3>1. k \in Nat /\ c % COLS \in Int /\ c = COLS * k + (c % COLS)
      BY <2>1, <1>0
    <3>2. Rem(c) = c % COLS
      BY <2>1 DEF Rem
    <3> HIDE DEF k
    <3>3. pos = COLS * k + COLS /\ COLS * k \in Int
      BY <3>1, <3>2, <1>0
    <3>4. (k + 1) * COLS = COLS * k + COLS
      BY <3>1, <1>0
    <3>5. k + 1 \in Nat /\ k + 1 >= 1
      BY <3>1
    <3> QED  BY <3>3, <3>4, <3>5
  <2>2. CASE c < 0
    <3>1. (-c) \in 0..(COLS - 1)
      BY <2>2, <1>0
    <3>2. (-c) % COLS = -c
      BY <3>1, <1>0
    <3>3. Rem(c) = c
      BY <2>2, <3>2, <1>0 DEF Rem
    <3>4. pos = 1 * COLS
      BY <3>3, <1>0
    <3> QED  BY <3>4
  <2> QED  BY <2>1, <2>2, <1>0
<1>2. NewLine(t) = set_cursor(t, pos)
  BY DEF NewLine
<1> HIDE DEF pos
<1>3. pos \in Int
  BY <1>1, <1>0
<1>4. SCREEN_SIZE = ROWS * COLS
  BY Sizes
<1>5. PICK n \in Nat :
        /\ NewLine(t).cursor = pos - n * COLS
        /\ pos < SCREEN_SIZE => n = 0
        /\ pos >= SCREEN_SIZE => /\ NewLine(t).cursor < SCREEN_SIZE
                                 /\ SCREEN_SIZE - COLS <= NewLine(t).cursor
  <2>1. PICK n \in Nat :
          /\ set_cursor(t, pos).cursor = pos - n * COLS
          /\ pos < SCREEN_SIZE => n = 0
          /\ pos >= SCREEN_SIZE => /\ set_cursor(t, pos).cursor < SCREEN_SIZE
                                   /\ SCREEN_SIZE - COLS <= set_cursor(t, pos).cursor
    BY <1>3, SetCursorIs, Zenon
  <2> QED  BY <2>1, <1>2
<1>6. NewLine(t).cursor = (q - n) * COLS
  BY <1>5, <1>1, Multiples
<1>7. q - n \in 0..(ROWS - 1)
  <2>1. CASE pos < SCREEN_SIZE
    <3>1. n = 0 /\ q < ROWS
      BY <2>1, <1>5, <1>1, <1>4, <1>0, Multiples
    <3> QED  BY <3>1, <1>0
  <2>2. CASE pos >= SCREEN_SIZE
    <3>1. (q - n) * COLS < ROWS * COLS
      BY <2>2, <1>5, <1>6, <1>4
    <3>2. q - n < ROWS
      BY <3>1, <1>0, Multiples
    <3>3. (q - n + 1) * COLS = (q - n) * COLS + COLS /\ (q - n) * COLS \in Int
      BY Multiples
    <3>4. ~(q - n + 1 < ROWS)
      <4> SUFFICES ASSUME q - n + 1 < ROWS PROVE FALSE
        OBVIOUS
      <4>1. (q - n + 1) * COLS + COLS <= ROWS * COLS
        BY <1>0, Multiples
      <4>2. ROWS * COLS - COLS <= (q - n) * COLS
        BY <2>2, <1>5, <1>6, <1>4
      <4> QED  BY <4>1, <4>2, <3>3, <1>0, <1>4
    <3> QED  BY <3>2, <3>4, <1>0
  <2> QED  BY <2>1, <2>2, <1>3, <1>0
<1>8. NewLine(t) \in Tty(A)
  BY <1>2, <1>3, SetCursorIs
<1> QED  BY <1>6, <1>7, <1>8 DEF RowStart

OnTty(A) == {t \in Tty(A) : t.cursor \in Cells}

LEMMA WriteCharIs ==
  ASSUME NEW A, NEW t \in Tty(A), NEW c \in A, NEW pos \in Int, NEW n \in Nat
  PROVE  /\ sys_write_char(t, pos, c, n) \in Tty(A)
         /\ sys_write_char(t, pos, c, n).cursor = t.cursor
         /\ \A p \in Cells : sys_write_char(t, pos, c, n).screen[p]
                               = IF p \in pos..(pos + n - 1) THEN c ELSE t.screen[p]
<1> DEFINE w == [p \in Cells |-> IF p \in pos..(pos + n - 1) THEN c ELSE t.screen[p]]
<1>1. t.screen \in [Cells -> A] /\ t = [screen |-> t.screen, cursor |-> t.cursor] /\ t.cursor \in Int
  BY DEF Tty
<1>2. sys_write_char(t, pos, c, n) = [t EXCEPT !.screen = w]
  BY DEF sys_write_char
<1>3. w \in [Cells -> A]
  BY <1>1
<1> HIDE DEF w
<1>4. sys_write_char(t, pos, c, n) = [screen |-> w, cursor |-> t.cursor]
  BY <1>1, <1>2
<1>5. sys_write_char(t, pos, c, n) \in Tty(A)
  BY <1>4, <1>3, <1>1 DEF Tty
<1>6. sys_write_char(t, pos, c, n).screen = w /\ sys_write_char(t, pos, c, n).cursor = t.cursor
  BY <1>4
<1>7. \A p \in Cells : w[p] = IF p \in pos..(pos + n - 1) THEN c ELSE t.screen[p]
  BY DEF w
<1> QED  BY <1>5, <1>6, <1>7

LEMMA WriteOneIs ==
  ASSUME NEW A, BLANK \in A, NEW t \in OnTty(A), NEW c \in A
  PROVE  /\ WriteOne(t, c) \in OnTty(A)
         /\ c = "\n" => RowStart(WriteOne(t, c).cursor)
<1>0. t \in Tty(A) /\ t.cursor \in Nat /\ t.cursor < SCREEN_SIZE /\ COLS \in Nat /\ COLS > 2
      /\ SCREEN_SIZE \in Nat /\ SCREEN_SIZE >= COLS /\ Cells = 0..(SCREEN_SIZE - 1)
  BY Sizes DEF OnTty
<1>1. CASE c = "\n"
  <2>1. WriteOne(t, c) = NewLine(t)
    BY <1>1 DEF WriteOne
  <2>2. t.cursor > -COLS
    BY <1>0
  <2>3. NewLine(t) \in Tty(A) /\ RowStart(NewLine(t).cursor)
    BY <2>2, <1>0, NewLineIs
  <2>4. NewLine(t).cursor \in Cells
    BY <2>3, RowStartIn
  <2> QED  BY <2>1, <2>3, <2>4 DEF OnTty
<1>2. CASE c # "\n"
  <2> DEFINE u == sys_write_char(t, t.cursor, c, 1)
             pos == t.cursor + 1
  <2>1. WriteOne(t, c) = set_cursor(u, pos)
    BY <1>2 DEF WriteOne
  <2>2. u \in Tty(A) /\ pos \in Int /\ pos >= 0
    BY <1>0, WriteCharIs
  <2> HIDE DEF u, pos
  <2>3. set_cursor(u, pos) \in Tty(A) /\ (pos < SCREEN_SIZE => set_cursor(u, pos) = [u EXCEPT !.cursor = pos])
    BY <2>2, SetCursorIs
  <2>4. pos >= SCREEN_SIZE => set_cursor(u, pos).cursor < SCREEN_SIZE /\ SCREEN_SIZE - COLS <= set_cursor(u, pos).cursor
    BY <2>2, SetCursorIs, Zenon
  <2>5. pos < SCREEN_SIZE => set_cursor(u, pos).cursor = pos
    BY <2>2, <2>3 DEF Tty
  <2>6. set_cursor(u, pos).cursor \in Int
    BY <2>3 DEF Tty
  <2>7. set_cursor(u, pos).cursor \in Cells
    BY <2>2, <2>4, <2>5, <2>6, <1>0
  <2> QED  BY <1>2, <2>1, <2>3, <2>7 DEF OnTty
<1> QED  BY <1>1, <1>2

----------------------------------------------------------------------------
\* sys_write, character by character.

\* f takes len steps from t, the n-th by G.
Steps(f, len, T, t, G) ==
  f \in [0..len -> T] /\ f[0] = t /\ \A n \in 1..len : f[n] = G[<<n, f[n - 1]>>]

LEMMA StepsExist ==
  ASSUME NEW T, NEW t \in T, NEW len \in Nat, NEW G \in [(1..len) \X T -> T]
  PROVE  \E f : Steps(f, len, T, t, G)
<1> DEFINE B(m) == {a \in [0..m -> T] :
                      a[0] = t /\ \A i \in 0..(m - 1) : a[i + 1] = G[<<i + 1, a[i]>>]}
           Bad == {m \in 0..len : B(m) = {}}
<1>1. ASSUME NEW m \in Bad PROVE \E k \in Bad : k < m
  <2>1. m \in Nat /\ m <= len /\ B(m) = {}
    OBVIOUS
  <2>2. m # 0
    <3> SUFFICES ASSUME m = 0 PROVE FALSE
      OBVIOUS
    <3>1. [i \in 0..0 |-> t] \in B(0)
      OBVIOUS
    <3> QED  BY <3>1, <2>1
  <2>3. B(m - 1) = {}
    <3> SUFFICES ASSUME NEW a \in B(m - 1) PROVE FALSE
      OBVIOUS
    <3>1. /\ a \in [0..(m - 1) -> T] /\ a[0] = t
          /\ \A i \in 0..(m - 2) : a[i + 1] = G[<<i + 1, a[i]>>]
      BY <2>1
    <3> DEFINE b == [i \in 0..m |-> IF i = m THEN G[<<m, a[m - 1]>>] ELSE a[i]]
    <3>2. a[m - 1] \in T /\ <<m, a[m - 1]>> \in (1..len) \X T
      BY <3>1, <2>1, <2>2
    <3>3. G[<<m, a[m - 1]>>] \in T
      BY <3>2
    <3>4. b \in [0..m -> T]
      <4>1. \A i \in 0..m : i # m => i \in 0..(m - 1)
        BY <2>1
      <4> QED  BY <4>1, <3>1, <3>3
    <3>5. b[0] = t
      BY <3>1, <2>1, <2>2
    <3>6. ASSUME NEW i \in 0..(m - 1) PROVE b[i + 1] = G[<<i + 1, b[i]>>]
      <4>0. i \in 0..m /\ i + 1 \in 0..m /\ i # m /\ b[i] = a[i]
        BY <2>1
      <4>1. CASE i = m - 1
        <5>1. i + 1 = m
          BY <4>1, <2>1
        <5> QED  BY <4>0, <5>1, <4>1
      <4>2. CASE i # m - 1
        <5>1. i \in 0..(m - 2) /\ i + 1 # m
          BY <4>2, <2>1
        <5> QED  BY <4>0, <5>1, <3>1
      <4> QED  BY <4>1, <4>2
    <3>7. b \in B(m)
      BY <3>4, <3>5, <3>6
    <3> QED  BY <3>7, <2>1
  <2>4. m - 1 \in Bad /\ m - 1 < m
    BY <2>1, <2>2, <2>3
  <2> QED  BY <2>4
<1>2. Bad \in SUBSET Nat
  OBVIOUS
<1> HIDE DEF Bad
<1>3. Bad = {}
  BY <1>1, <1>2, NoLeastNumber
<1>4. len \in 0..len
  OBVIOUS
<1>5. B(len) # {}
  BY <1>3, <1>4 DEF Bad
<1>6. PICK a \in B(len) : TRUE
  BY <1>5
<1>7. /\ a \in [0..len -> T] /\ a[0] = t
      /\ \A i \in 0..(len - 1) : a[i + 1] = G[<<i + 1, a[i]>>]
  BY <1>6
<1>8. \A n \in 1..len : a[n] = G[<<n, a[n - 1]>>]
  <2> SUFFICES ASSUME NEW n \in 1..len PROVE a[n] = G[<<n, a[n - 1]>>]
    OBVIOUS
  <2>1. n - 1 \in 0..(len - 1) /\ (n - 1) + 1 = n
    OBVIOUS
  <2> QED  BY <2>1, <1>7
<1> QED  BY <1>7, <1>8 DEF Steps

Writes(f, t, s) == f = [n \in 0..Len(s) |-> IF n = 0 THEN t ELSE WriteOne(f[n - 1], s[n])]

LEMMA WritesExist ==
  ASSUME NEW A, BLANK \in A, NEW t \in OnTty(A), NEW s \in Seq(A)
  PROVE  \E f : Writes(f, t, s)
<1> DEFINE G == [x \in (1..Len(s)) \X OnTty(A) |-> WriteOne(x[2], s[x[1]])]
<1>0. Len(s) \in Nat /\ \A i \in 1..Len(s) : s[i] \in A
  OBVIOUS
<1>1. G \in [(1..Len(s)) \X OnTty(A) -> OnTty(A)]
  <2>1. ASSUME NEW x \in (1..Len(s)) \X OnTty(A) PROVE WriteOne(x[2], s[x[1]]) \in OnTty(A)
    <3>1. x[2] \in OnTty(A) /\ s[x[1]] \in A
      BY <1>0
    <3> QED  BY <3>1, WriteOneIs
  <2> QED  BY <2>1
<1>2. \A n \in 1..Len(s), u \in OnTty(A) : G[<<n, u>>] = WriteOne(u, s[n])
  OBVIOUS
<1> HIDE DEF G
<1>3. PICK f \in [0..Len(s) -> OnTty(A)] : f[0] = t /\ \A n \in 1..Len(s) : f[n] = G[<<n, f[n - 1]>>]
  <2> DEFINE len == Len(s)
             T == OnTty(A)
  <2>1. len \in Nat /\ t \in T /\ G \in [(1..len) \X T -> T]
    BY <1>0, <1>1
  <2> HIDE DEF len, T
  <2>2. \E f : Steps(f, len, T, t, G)
    BY <2>1, StepsExist, Zenon
  <2> QED  BY <2>2 DEF len, T, Steps
<1>4. \A n \in 0..Len(s) : f[n] = IF n = 0 THEN t ELSE WriteOne(f[n - 1], s[n])
  <2> SUFFICES ASSUME NEW n \in 0..Len(s), n # 0 PROVE f[n] = WriteOne(f[n - 1], s[n])
    BY <1>3
  <2>1. n \in 1..Len(s) /\ n - 1 \in 0..Len(s)
    BY <1>0
  <2>2. f[n - 1] \in OnTty(A)
    BY <2>1, <1>3
  <2> QED  BY <2>1, <2>2, <1>2, <1>3
<1>5. f = [n \in 0..Len(s) |-> f[n]]
  BY <1>3
<1>6. [n \in 0..Len(s) |-> f[n]] = [n \in 0..Len(s) |-> IF n = 0 THEN t ELSE WriteOne(f[n - 1], s[n])]
  BY <1>4
<1>7. Writes(f, t, s)
  BY <1>5, <1>6 DEF Writes
<1> QED  BY <1>7

LEMMA SysWriteIs ==
  ASSUME NEW A, BLANK \in A, NEW t \in OnTty(A), NEW s \in Seq(A)
  PROVE  \E f \in [0..Len(s) -> OnTty(A)] :
           /\ f[0] = t
           /\ \A n \in 1..Len(s) : f[n] = WriteOne(f[n - 1], s[n])
           /\ sys_write(t, s) = f[Len(s)]
<1> DEFINE f == CHOOSE g : Writes(g, t, s)
<1>0. Len(s) \in Nat /\ \A i \in 1..Len(s) : s[i] \in A
  OBVIOUS
<1>1. sys_write(t, s) = f[Len(s)]
  BY Zenon DEF sys_write, Writes
<1>2. Writes(f, t, s)
  BY WritesExist
<1> HIDE DEF f
<1>3. f = [n \in 0..Len(s) |-> IF n = 0 THEN t ELSE WriteOne(f[n - 1], s[n])]
  BY <1>2 DEF Writes
<1>4. DOMAIN f = 0..Len(s) /\ \A n \in 0..Len(s) : f[n] = IF n = 0 THEN t ELSE WriteOne(f[n - 1], s[n])
  BY <1>3
<1>5. f[0] = t /\ \A n \in 1..Len(s) : f[n] = WriteOne(f[n - 1], s[n])
  BY <1>4, <1>0
<1> DEFINE Bad == {n \in 0..Len(s) : f[n] \notin OnTty(A)}
<1>6. ASSUME NEW m \in Bad PROVE \E k \in Bad : k < m
  <2>1. m \in Nat /\ m <= Len(s) /\ f[m] \notin OnTty(A)
    BY <1>0
  <2>2. m # 0
    BY <2>1, <1>5
  <2>3. f[m] = WriteOne(f[m - 1], s[m]) /\ s[m] \in A
    BY <2>1, <2>2, <1>5, <1>0
  <2>4. f[m - 1] \notin OnTty(A)
    BY <2>1, <2>3, WriteOneIs
  <2>5. m - 1 \in Bad /\ m - 1 < m
    BY <2>1, <2>2, <2>4, <1>0
  <2> QED  BY <2>5
<1>7. Bad \in SUBSET Nat
  BY <1>0
<1> HIDE DEF Bad
<1>8. Bad = {}
  BY <1>6, <1>7, NoLeastNumber
<1>9. \A n \in 0..Len(s) : f[n] \in OnTty(A)
  BY <1>8 DEF Bad
<1>10. f \in [0..Len(s) -> OnTty(A)]
  <2>1. f = [n \in 0..Len(s) |-> f[n]]
    BY <1>3, <1>4
  <2> QED  BY <2>1, <1>9
<1> QED  BY <1>1, <1>5, <1>10

\* What is written stays on the screen; after a newline a row begins.
LEMMA SysWriteKeeps ==
  ASSUME NEW A, BLANK \in A, NEW t \in OnTty(A), NEW s \in Seq(A)
  PROVE  /\ sys_write(t, s) \in OnTty(A)
         /\ s # <<>> /\ s[Len(s)] = "\n" => RowStart(sys_write(t, s).cursor)
<1>1. PICK f \in [0..Len(s) -> OnTty(A)] :
           /\ f[0] = t
           /\ \A n \in 1..Len(s) : f[n] = WriteOne(f[n - 1], s[n])
           /\ sys_write(t, s) = f[Len(s)]
  BY SysWriteIs
<1>0. Len(s) \in Nat /\ \A i \in 1..Len(s) : s[i] \in A
  OBVIOUS
<1>2. sys_write(t, s) \in OnTty(A)
  BY <1>0, <1>1
<1>3. ASSUME s # <<>>, s[Len(s)] = "\n" PROVE RowStart(sys_write(t, s).cursor)
  <2>1. Len(s) \in 1..Len(s) /\ Len(s) - 1 \in 0..Len(s)
    BY <1>3, <1>0
  <2>2. f[Len(s) - 1] \in OnTty(A) /\ s[Len(s)] \in A
    BY <2>1, <1>0
  <2>3. RowStart(WriteOne(f[Len(s) - 1], s[Len(s)]).cursor)
    BY <2>2, <1>3, WriteOneIs
  <2> QED  BY <2>1, <2>3, <1>1
<1> QED  BY <1>2, <1>3

\* A bare prompt at the beginning of a row.
LEMMA PromptIs ==
  ASSUME NEW A, {BLANK, ">", SPACE} \subseteq A, NEW t \in OnTty(A), RowStart(t.cursor)
  PROVE  /\ prompt(t, <<>>) \in OnTty(A)
         /\ prompt(t, <<>>).cursor = t.cursor + 2
         /\ prompt(t, <<>>).screen[t.cursor] = ">"
         /\ prompt(t, <<>>).screen[t.cursor + 1] = SPACE
<1>0. /\ t \in Tty(A) /\ t.cursor \in Nat /\ t.cursor + COLS <= SCREEN_SIZE
      /\ COLS \in Nat /\ COLS > 2 /\ SCREEN_SIZE \in Nat /\ Cells = 0..(SCREEN_SIZE - 1)
  BY RowStartIn, Sizes DEF OnTty
<1>1. PROMPT \in Seq(A) /\ Len(PROMPT) = 2 /\ PROMPT[1] = ">" /\ PROMPT[2] = SPACE
  BY DEF PROMPT
<1>2. <<>> \o PROMPT = PROMPT
  BY <1>1
<1>3. prompt(t, <<>>) = sys_write(t, PROMPT)
  BY <1>2 DEF prompt
<1>4. PICK f \in [0..2 -> OnTty(A)] :
           /\ f[0] = t
           /\ \A n \in 1..2 : f[n] = WriteOne(f[n - 1], PROMPT[n])
           /\ sys_write(t, PROMPT) = f[2]
  BY <1>1, SysWriteIs
<1>5. f[1] = WriteOne(t, ">") /\ f[2] = WriteOne(f[1], SPACE) /\ f[1] \in OnTty(A) /\ f[2] \in OnTty(A)
  BY <1>4, <1>1
<1>6. ASSUME NEW u \in Tty(A), u.cursor \in Nat, u.cursor + 1 < SCREEN_SIZE, NEW c \in A, c # "\n"
      PROVE  /\ WriteOne(u, c).cursor = u.cursor + 1
             /\ \A p \in Cells : WriteOne(u, c).screen[p] = IF p = u.cursor THEN c ELSE u.screen[p]
  <2> DEFINE w == sys_write_char(u, u.cursor, c, 1)
  <2>1. /\ w \in Tty(A)
        /\ \A p \in Cells : w.screen[p] = IF p \in u.cursor..(u.cursor + 1 - 1) THEN c ELSE u.screen[p]
    BY <1>6, WriteCharIs
  <2> HIDE DEF w
  <2>2. WriteOne(u, c) = set_cursor(w, u.cursor + 1)
    BY <1>6 DEF WriteOne, w
  <2>3. set_cursor(w, u.cursor + 1) = [w EXCEPT !.cursor = u.cursor + 1]
    <3>1. u.cursor + 1 \in Int /\ u.cursor + 1 < SCREEN_SIZE /\ BLANK \in A
      BY <1>6
    <3> QED  BY <3>1, <2>1, SetCursorIs, ZenonT(60)
  <2>4. WriteOne(u, c).cursor = u.cursor + 1 /\ WriteOne(u, c).screen = w.screen
    BY <2>1, <2>2, <2>3 DEF Tty
  <2>5. \A p \in Cells : p \in u.cursor..(u.cursor + 1 - 1) <=> p = u.cursor
    BY <1>6, <1>0
  <2> QED  BY <2>1, <2>4, <2>5
<1>7. ">" # "\n" /\ SPACE # "\n" /\ ">" \in A /\ SPACE \in A
  BY DEF SPACE
<1>8. /\ f[1].cursor = t.cursor + 1
      /\ \A p \in Cells : f[1].screen[p] = IF p = t.cursor THEN ">" ELSE t.screen[p]
  BY <1>0, <1>5, <1>6, <1>7
<1>9. /\ f[2].cursor = f[1].cursor + 1
      /\ \A p \in Cells : f[2].screen[p] = IF p = f[1].cursor THEN SPACE ELSE f[1].screen[p]
  <2>1. f[1] \in Tty(A) /\ f[1].cursor \in Nat /\ f[1].cursor + 1 < SCREEN_SIZE
    BY <1>0, <1>5, <1>8 DEF OnTty
  <2> QED  BY <2>1, <1>5, <1>6, <1>7
<1>10. t.cursor \in Cells /\ t.cursor + 1 \in Cells
  BY <1>0
<1>11. f[2].cursor = t.cursor + 2 /\ f[2].screen[t.cursor + 1] = SPACE
  BY <1>8, <1>9, <1>10, <1>0
<1>12. f[2].screen[t.cursor] = ">"
  <2>1. t.cursor # f[1].cursor
    BY <1>8, <1>0
  <2> QED  BY <2>1, <1>8, <1>9, <1>10
<1> QED  BY <1>3, <1>4, <1>5, <1>11, <1>12

----------------------------------------------------------------------------
\* The parser's loops.

LEMMA BlanksIs ==
  ASSUME line \in Seq(Char), NEW i \in 0..Len(line)
  PROVE  /\ Blanks(i) \in i..Len(line)
         /\ \A j \in (i + 1)..Blanks(i) : line[j] = SPACE
         /\ Blanks(i) = Len(line) \/ line[Blanks(i) + 1] # SPACE
<1> DEFINE T == {j \in i..Len(line) : j = Len(line) \/ line[j + 1] # SPACE}
<1>0. Len(line) \in Nat /\ i \in Nat /\ i <= Len(line)
  OBVIOUS
<1>1. T \in SUBSET Nat /\ Len(line) \in T
  BY <1>0
<1>2. Blanks(i) = Min(T)
  BY DEF Blanks
<1>3. Blanks(i) \in T /\ \A y \in T : Blanks(i) <= y
  BY <1>1, <1>2, LeastNumber
<1>4. Blanks(i) \in i..Len(line) /\ (Blanks(i) = Len(line) \/ line[Blanks(i) + 1] # SPACE)
  BY <1>3
<1>5. ASSUME NEW j \in (i + 1)..Blanks(i), line[j] # SPACE PROVE FALSE
  <2>1. j - 1 \in i..Len(line) /\ (j - 1) + 1 = j /\ j - 1 < Blanks(i)
    BY <1>0, <1>4
  <2>2. j - 1 \in T
    BY <2>1, <1>5
  <2> QED  BY <2>1, <2>2, <1>3, <1>4, <1>0
<1> QED  BY <1>4, <1>5

LEMMA WordIs ==
  ASSUME line \in Seq(Char), NEW i \in 0..Len(line)
  PROVE  /\ Word(i) \in i..Len(line)
         /\ \A j \in (i + 1)..Word(i) : line[j] # SPACE
         /\ Word(i) = Len(line) \/ line[Word(i) + 1] = SPACE
<1> DEFINE T == {j \in i..Len(line) : j = Len(line) \/ line[j + 1] = SPACE}
<1>0. Len(line) \in Nat /\ i \in Nat /\ i <= Len(line)
  OBVIOUS
<1>1. T \in SUBSET Nat /\ Len(line) \in T
  BY <1>0
<1>2. Word(i) = Min(T)
  BY DEF Word
<1>3. Word(i) \in T /\ \A y \in T : Word(i) <= y
  BY <1>1, <1>2, LeastNumber
<1>4. Word(i) \in i..Len(line) /\ (Word(i) = Len(line) \/ line[Word(i) + 1] = SPACE)
  BY <1>3
<1>5. ASSUME NEW j \in (i + 1)..Word(i), line[j] = SPACE PROVE FALSE
  <2>1. j - 1 \in i..Len(line) /\ (j - 1) + 1 = j /\ j - 1 < Word(i)
    BY <1>0, <1>4
  <2>2. j - 1 \in T
    BY <2>1, <1>5
  <2> QED  BY <2>1, <2>2, <1>3, <1>4, <1>0
<1> QED  BY <1>4, <1>5

\* Where the parts of the line begin and end.
From1 == Blanks(0)
To1   == Word(From1)
From2 == Blanks(To1)
To2   == Word(From2)
From3 == Blanks(To2)

LEMMA PartsAre ==
  ASSUME line \in Seq(Char)
  PROVE  /\ From1 \in 0..Len(line) /\ To1 \in From1..Len(line) /\ From2 \in To1..Len(line)
         /\ To2 \in From2..Len(line) /\ From3 \in To2..Len(line)
         /\ parse_cmd[1] = SubSeq(line, From1 + 1, To1)
         /\ parse_cmd[2] = SubSeq(line, From2 + 1, To2)
         /\ parse_cmd[3] = SubSeq(line, From3 + 1, Len(line))
<1>0. Len(line) \in Nat
  OBVIOUS
<1>1. From1 \in 0..Len(line)
  BY <1>0, BlanksIs DEF From1
<1>2. To1 \in From1..Len(line)
  BY <1>0, <1>1, WordIs DEF To1
<1>3. From2 \in To1..Len(line)
  <2>1. To1 \in 0..Len(line)
    BY <1>0, <1>1, <1>2
  <2> QED  BY <2>1, BlanksIs DEF From2
<1>4. To2 \in From2..Len(line)
  <2>1. From2 \in 0..Len(line)
    BY <1>0, <1>1, <1>2, <1>3
  <2> QED  BY <2>1, WordIs DEF To2
<1>5. From3 \in To2..Len(line)
  <2>1. To2 \in 0..Len(line)
    BY <1>0, <1>1, <1>2, <1>3, <1>4
  <2> QED  BY <2>1, BlanksIs DEF From3
<1>6. parse_cmd = <<SubSeq(line, From1 + 1, To1), SubSeq(line, From2 + 1, To2), SubSeq(line, From3 + 1, Len(line))>>
  BY DEF parse_cmd, From1, To1, From2, To2, From3
<1> QED  BY <1>1, <1>2, <1>3, <1>4, <1>5, <1>6

\* A part of a sequence.
LEMMA PartOf ==
  ASSUME NEW S, NEW s \in Seq(S), NEW a \in Nat, NEW b \in a..Len(s)
  PROVE  /\ SubSeq(s, a + 1, b) \in Seq(S) /\ Len(SubSeq(s, a + 1, b)) = b - a
         /\ \A i \in 1..(b - a) : SubSeq(s, a + 1, b)[i] = s[a + i]
<1>1. SubSeq(s, a + 1, b) = [i \in 1..(b - a) |-> s[a + i]]
  <2>1. SubSeq(s, a + 1, b) = [i \in 1..(1 + b - (a + 1)) |-> s[i + (a + 1) - 1]]
    OBVIOUS
  <2>2. 1 + b - (a + 1) = b - a
    OBVIOUS
  <2>3. \A i \in 1..(b - a) : i + (a + 1) - 1 = a + i
    OBVIOUS
  <2> QED  BY <2>1, <2>2, <2>3
<1>2. \A i \in 1..(b - a) : s[a + i] \in S
  OBVIOUS
<1>3. b - a \in Nat
  OBVIOUS
<1>4. [i \in 1..(b - a) |-> s[a + i]] \in Seq(S) /\ Len([i \in 1..(b - a) |-> s[a + i]]) = b - a
  BY <1>2, <1>3
<1> QED  BY <1>1, <1>4

----------------------------------------------------------------------------
\* The inductive invariant.

LEMMA DrawnAre ==
  /\ {BLANK, ">", SPACE, SLASH} \subseteq Drawn /\ Char \subseteq Drawn
  /\ BLANK \in Drawn /\ SPACE \in Char /\ PROMPT \in Seq(Drawn) /\ Len(PROMPT) = 2
  /\ \A m \in Messages : m \in Seq(Drawn) /\ m # <<>> /\ m[Len(m)] = "\n"
<1>1. {BLANK, ">", SLASH} \subseteq Drawn /\ Char \subseteq Drawn /\ SPACE \in Char
  BY EditorAssumption DEF Drawn
<1>2. PROMPT \in Seq(Drawn) /\ Len(PROMPT) = 2
  BY <1>1 DEF PROMPT
<1>3. ASSUME NEW m \in Messages PROVE m \in Seq(Drawn) /\ m # <<>> /\ m[Len(m)] = "\n"
  <2>1. m \in Seq(STRING) /\ m # <<>> /\ m[Len(m)] = "\n"
    BY MessagesAssumption
  <2>2. Len(m) \in Nat /\ DOMAIN m = 1..Len(m) /\ m = [i \in 1..Len(m) |-> m[i]]
    BY <2>1
  <2>3. \A i \in 1..Len(m) : m[i] \in Drawn
    BY <2>2 DEF Drawn
  <2>4. [i \in 1..Len(m) |-> m[i]] \in Seq(Drawn)
    BY <2>2, <2>3
  <2> QED  BY <2>1, <2>2, <2>4
<1> QED  BY <1>1, <1>2, <1>3

\* Behind a bare prompt the line begins in the third column of a row, of one
\* that is on the screen or has left it at the top.
Home(p) == \E r \in Int : r < ROWS /\ p = r * COLS + 2

\* The line ln behind its prompt, from place f on.
Shows(screen, ln, f) ==
  /\ \A i \in 1..Len(ln) : screen[f + i - 1] = ln[i]
  /\ screen[f - 2] = ">" /\ screen[f - 1] = SPACE

EditorOK(ln, ind, t, pth) ==
  /\ ln \in Seq(Char) /\ Len(ln) <= BUFF_LEN /\ ind \in 0..Len(ln)
  /\ t \in Tty(Drawn) /\ pth \in Seq(Char \cup {SLASH})
  /\ t.cursor - ind >= -BUFF_LEN
  /\ pth = <<>> => /\ Home(t.cursor - ind)
                   /\ t.cursor - ind >= 2 => Shows(t.screen, ln, t.cursor - ind)

EInv == EditorOK(line, cmd_ind, tty, path)

\* A line that begins on the screen ends with its row.
LEMMA HomeIn ==
  ASSUME NEW p \in Int, Home(p), p >= 2
  PROVE  p + BUFF_LEN <= SCREEN_SIZE
<1>1. PICK r \in Int : r < ROWS /\ p = r * COLS + 2
  BY DEF Home
<1>2. r * COLS + COLS <= ROWS * COLS /\ r * COLS \in Int
  BY <1>1, Sizes, Multiples
<1>3. ROWS * COLS = SCREEN_SIZE /\ BUFF_LEN = COLS - 2 /\ COLS \in Nat /\ SCREEN_SIZE \in Nat
  BY Sizes
<1> QED  BY <1>1, <1>2, <1>3

\* What the invariant says of line and screen.
LEMMA EditorShows == EInv => TypeOK /\ OnScreen /\ ScreenShowsLine
<1> SUFFICES ASSUME EInv PROVE TypeOK /\ OnScreen /\ ScreenShowsLine
  OBVIOUS
<1>1. /\ line \in Seq(Char) /\ Len(line) \in Nat /\ Len(line) <= BUFF_LEN /\ cmd_ind \in 0..Len(line)
      /\ tty.cursor \in Int /\ tty.screen \in [Cells -> Drawn] /\ path \in Seq(Char \cup {SLASH})
      /\ DOMAIN line = 1..Len(line)
  BY DEF EInv, EditorOK, Tty
<1>2. first \in Int /\ cursor = first + cmd_ind /\ first = tty.cursor - cmd_ind
  BY <1>1 DEF first, cursor
<1>3. path = <<>> => Home(first) /\ (first >= 2 => Shows(tty.screen, line, first))
  BY <1>2 DEF EInv, EditorOK
<1> HIDE DEF first, cursor
<1>4. SCREEN_SIZE \in Nat /\ BUFF_LEN \in Int /\ Cells = 0..(SCREEN_SIZE - 1)
  BY Sizes
<1>5. TypeOK
  BY <1>1 DEF TypeOK
<1>6. Len(PROMPT) = 2 /\ DOMAIN PROMPT = 1..2 /\ PROMPT[1] = ">" /\ PROMPT[2] = SPACE
  BY DEF PROMPT
<1>7. ASSUME path = <<>>, first >= 2
      PROVE  /\ \A i \in DOMAIN line : first + i - 1 \in Cells
             /\ cursor \in 0..SCREEN_SIZE
  <2>1. first + BUFF_LEN <= SCREEN_SIZE
    BY <1>2, <1>3, <1>7, HomeIn
  <2>2. ASSUME NEW i \in 1..Len(line) PROVE first + i - 1 \in Cells
    <3>1. i \in Int /\ i >= 1 /\ i <= BUFF_LEN
      BY <1>1, <1>4
    <3>2. first + i - 1 \in Int /\ 0 <= first + i - 1 /\ first + i - 1 <= SCREEN_SIZE - 1
      BY <3>1, <2>1, <1>2, <1>4, <1>7, SMTT(60)
    <3> QED  BY <3>2, <1>4
  <2>3. cmd_ind \in Int /\ 0 <= cmd_ind /\ cmd_ind <= BUFF_LEN
    <3>1. cmd_ind \in Int /\ 0 <= cmd_ind /\ cmd_ind <= Len(line)
      BY <1>1
    <3>2. Len(line) \in Int /\ Len(line) <= BUFF_LEN
      BY <1>1
    <3>3. BUFF_LEN \in Int
      BY <1>4
    <3> QED  BY ONLY <3>1, <3>2, <3>3
  <2>4. cursor \in Int /\ 0 <= cursor /\ cursor <= SCREEN_SIZE
    BY ONLY <2>1, <2>3, <1>2, <1>4, <1>7
  <2>5. cursor \in 0..SCREEN_SIZE
    BY ONLY <2>4, <1>4
  <2> QED  BY <2>2, <2>5, <1>1
<1>8. ASSUME path = <<>>, first >= 2
      PROVE  /\ \A i \in DOMAIN line : tty.screen[first + i - 1] = line[i]
             /\ \A i \in DOMAIN PROMPT : tty.screen[first - Len(PROMPT) + i - 1] = PROMPT[i]
  <2>1. Shows(tty.screen, line, first)
    BY <1>3, <1>8
  <2>2. first - 2 + 1 - 1 = first - 2 /\ first - 2 + 2 - 1 = first - 1
    BY <1>2
  <2>3. ASSUME NEW i \in 1..2 PROVE tty.screen[first - 2 + i - 1] = PROMPT[i]
    <3>1. i = 1 \/ i = 2
      OBVIOUS
    <3> QED  BY <3>1, <2>1, <2>2, <1>6 DEF Shows
  <2> QED  BY <2>1, <2>3, <1>6, <1>1 DEF Shows
<1>9. OnScreen
  BY <1>7, <1>6 DEF OnScreen, LineStarts
<1>10. ScreenShowsLine
  BY <1>8, <1>6 DEF ScreenShowsLine, LineStarts
<1> QED  BY <1>5, <1>9, <1>10

\* A character over n places of line and screen.
LEMMA PutKeeps ==
  ASSUME NEW ln, NEW ind, NEW t, NEW pth, EditorOK(ln, ind, t, pth),
         NEW c \in Char, NEW n \in Nat, ind + n <= BUFF_LEN
  PROVE  EditorOK([i \in 1..Max({Len(ln), ind + n}) |-> IF i \in (ind + 1)..(ind + n) THEN c ELSE ln[i]],
                  ind + n, [sys_write_char(t, t.cursor, c, n) EXCEPT !.cursor = @ + n], pth)
<1> DEFINE m == Max({Len(ln), ind + n})
           ln2 == [i \in 1..m |-> IF i \in (ind + 1)..(ind + n) THEN c ELSE ln[i]]
           w == sys_write_char(t, t.cursor, c, n)
           t2 == [w EXCEPT !.cursor = @ + n]
           f == t.cursor - ind
<1>1. /\ ln \in Seq(Char) /\ Len(ln) \in Nat /\ Len(ln) <= BUFF_LEN /\ ind \in 0..Len(ln)
      /\ t \in Tty(Drawn) /\ t.cursor \in Int /\ pth \in Seq(Char \cup {SLASH}) /\ f \in Int
      /\ BUFF_LEN \in Int /\ f >= -BUFF_LEN
  BY Sizes DEF EditorOK, Tty
<1>2. m \in {Len(ln), ind + n} /\ m >= Len(ln) /\ m >= ind + n
  <2>1. {Len(ln), ind + n} \in SUBSET (0..(Len(ln) + n)) /\ Len(ln) + n \in Nat
    BY <1>1
  <2>2. Max({Len(ln), ind + n}) \in {Len(ln), ind + n} /\ \A y \in {Len(ln), ind + n} : Max({Len(ln), ind + n}) >= y
    BY <2>1, GreatestNumber
  <2> QED  BY <2>2
<1> HIDE DEF m
<1>3. m \in Nat /\ m <= BUFF_LEN /\ ind + n \in 0..m
  BY <1>1, <1>2
<1>4. \A i \in 1..m : i \notin (ind + 1)..(ind + n) => i \in 1..Len(ln)
  BY <1>1, <1>2
<1>5. \A i \in 1..m : (IF i \in (ind + 1)..(ind + n) THEN c ELSE ln[i]) \in Char
  BY <1>4, <1>1
<1>6. ln2 \in Seq(Char) /\ Len(ln2) = m
  BY <1>3, <1>5
<1>7. /\ w \in Tty(Drawn) /\ w.cursor = t.cursor
      /\ \A p \in Cells : w.screen[p] = IF p \in t.cursor..(t.cursor + n - 1) THEN c ELSE t.screen[p]
  <2>1. c \in Drawn
    BY DrawnAre
  <2> QED  BY <2>1, <1>1, WriteCharIs
<1> HIDE DEF w
<1>8. t2.cursor = t.cursor + n /\ t2.screen = w.screen /\ t2 \in Tty(Drawn)
  BY <1>7, <1>1, SMTT(60) DEF Tty
<1> HIDE DEF t2
<1>9. t2.cursor - (ind + n) = f
  BY <1>8, <1>1
<1>10. ASSUME pth = <<>>, f >= 2 PROVE Shows(t2.screen, ln2, f)
  <2>1. Shows(t.screen, ln, f) /\ Home(f)
    BY <1>1, <1>10 DEF EditorOK
  <2>2. f + BUFF_LEN <= SCREEN_SIZE
    BY <2>1, <1>1, <1>10, HomeIn
  <2> HIDE DEF f
  <2>3. t.cursor = f + ind
    BY <1>1 DEF f
  <2>4. ASSUME NEW i \in 1..m PROVE t2.screen[f + i - 1] = ln2[i]
    <3>1. f + i - 1 \in Cells
      BY <2>2, <1>1, <1>3, <1>10, Sizes
    <3>2. f + i - 1 \in t.cursor..(t.cursor + n - 1) <=> i \in (ind + 1)..(ind + n)
      BY <2>3, <1>1
    <3>3. i \notin (ind + 1)..(ind + n) => t.screen[f + i - 1] = ln[i]
      BY <2>1, <1>4 DEF Shows
    <3> QED  BY <3>1, <3>2, <3>3, <1>7, <1>8
  <2>5. ASSUME NEW p \in {f - 2, f - 1} PROVE t2.screen[p] = t.screen[p]
    <3>1. p \in Cells /\ p \notin t.cursor..(t.cursor + n - 1)
      BY <2>2, <2>3, <1>1, <1>10, Sizes
    <3> QED  BY <3>1, <1>7, <1>8
  <2> QED  BY <2>1, <2>4, <2>5, <1>6 DEF Shows
<1>11. pth = <<>> => Home(f)
  BY DEF EditorOK
<1> HIDE DEF f, ln2
<1>12. EditorOK(ln2, ind + n, t2, pth)
  BY <1>1, <1>3, <1>6, <1>8, <1>9, <1>10, <1>11 DEF EditorOK
<1> QED  BY <1>12 DEF ln2, t2, w, m

\* Scrolling takes the line along.
LEMMA ScrollKeeps ==
  ASSUME NEW ln \in Seq(Char), Len(ln) <= BUFF_LEN, NEW f \in Int, Home(f), NEW n \in Nat,
         NEW old, NEW new, f >= 2 => Shows(old, ln, f),
         \A p \in Cells : p + n * COLS \in Cells => new[p] = old[p + n * COLS]
  PROVE  Home(f - n * COLS) /\ (f - n * COLS >= 2 => Shows(new, ln, f - n * COLS))
<1> DEFINE k == n * COLS
           g == f - k
<1>0. k \in Nat /\ COLS \in Nat /\ COLS > 2 /\ BUFF_LEN = COLS - 2 /\ SCREEN_SIZE \in Nat /\ Len(ln) \in Nat
      /\ Cells = 0..(SCREEN_SIZE - 1) /\ ROWS \in Nat
  BY Sizes
<1>1. Home(g)
  <2>1. PICK r \in Int : r < ROWS /\ f = r * COLS + 2
    BY DEF Home
  <2>2. r - n \in Int /\ r - n < ROWS /\ (r - n) * COLS = r * COLS - n * COLS
        /\ r * COLS \in Int
    BY <2>1, <1>0, Multiples
  <2>3. g = (r - n) * COLS + 2
    BY <2>1, <2>2, <1>0
  <2> QED  BY <2>2, <2>3 DEF Home
<1> HIDE DEF k
<1>2. ASSUME g >= 2 PROVE Shows(new, ln, g)
  <2>1. f >= 2
    BY <1>2, <1>0
  <2>2. f + BUFF_LEN <= SCREEN_SIZE
    BY <2>1, HomeIn
  <2>3. Shows(old, ln, f)
    BY <2>1
  <2>4. ASSUME NEW p \in Int, p >= 0, p + k < SCREEN_SIZE PROVE new[p] = old[p + k]
    <3>1. p \in Cells /\ p + k \in Cells
      BY <2>4, <1>0
    <3> QED  BY <3>1 DEF k
  <2>5. ASSUME NEW i \in 1..Len(ln) PROVE new[g + i - 1] = ln[i]
    <3>1. i \in Int /\ i >= 1 /\ i <= BUFF_LEN
      BY <1>0
    <3>2. g + i - 1 \in Int /\ g + i - 1 >= 0 /\ (g + i - 1) + k = f + i - 1 /\ f + i - 1 < SCREEN_SIZE
      BY <3>1, <2>2, <1>0, <1>2
    <3>3. new[g + i - 1] = old[f + i - 1]
      BY <3>2, <2>4
    <3> QED  BY <3>3, <2>3 DEF Shows
  <2>6. new[g - 2] = old[f - 2] /\ new[g - 1] = old[f - 1]
    <3>1. /\ g - 2 \in Int /\ g - 2 >= 0 /\ (g - 2) + k = f - 2 /\ f - 2 < SCREEN_SIZE
          /\ g - 1 \in Int /\ g - 1 >= 0 /\ (g - 1) + k = f - 1 /\ f - 1 < SCREEN_SIZE
      BY <2>2, <1>0, <1>2
    <3> QED  BY <3>1, <2>4
  <2> QED  BY <2>3, <2>5, <2>6 DEF Shows
<1> QED  BY <1>1, <1>2 DEF k

\* The cursor goes to place ind2 of the line.
LEMMA MoveKeeps ==
  ASSUME NEW ln, NEW ind, NEW t, NEW pth, EditorOK(ln, ind, t, pth),
         NEW ind2 \in 0..Len(ln), NEW pos \in Int, pos = t.cursor - ind + ind2
  PROVE  EditorOK(ln, ind2, set_cursor(t, pos), pth)
<1> DEFINE u == set_cursor(t, pos)
           f == t.cursor - ind
<1>1. /\ ln \in Seq(Char) /\ Len(ln) \in Nat /\ Len(ln) <= BUFF_LEN /\ ind \in 0..Len(ln)
      /\ t \in Tty(Drawn) /\ t.cursor \in Int /\ t.screen \in [Cells -> Drawn] /\ f \in Int
      /\ pth \in Seq(Char \cup {SLASH}) /\ BUFF_LEN \in Int /\ f >= -BUFF_LEN
  BY Sizes DEF EditorOK, Tty
<1>2. BLANK \in Drawn
  BY DrawnAre
<1>3. u \in Tty(Drawn)
  BY <1>1, <1>2, SetCursorIs
<1>4. PICK n \in Nat :
        /\ u.screen = scroll(t.screen, n)
        /\ u.cursor = pos - n * COLS
        /\ pos < SCREEN_SIZE => n = 0
        /\ pos >= SCREEN_SIZE => /\ u.cursor < SCREEN_SIZE
                                 /\ SCREEN_SIZE - COLS <= u.cursor
  BY <1>1, <1>2, SetCursorIs, ZenonT(60)
<1> HIDE DEF u
<1>5. n * COLS \in Int /\ (n = 0 => n * COLS = 0) /\ SCREEN_SIZE \in Nat /\ COLS \in Nat
      /\ SCREEN_SIZE >= COLS
  BY Sizes
<1> DEFINE k == n * COLS
<1>a. k \in Int /\ u.cursor = pos - k /\ ind2 \in Int /\ ind2 <= BUFF_LEN /\ u.cursor \in Int /\ pos = f + ind2
  <2>1. u.cursor \in Int
    BY <1>3 DEF Tty
  <2>2. ind2 \in Int /\ ind2 <= BUFF_LEN
    BY <1>1
  <2> QED  BY <2>1, <2>2, <1>4, <1>5
<1> HIDE DEF f, k
<1>b. u.cursor - ind2 = f - k
  BY <1>a, <1>1
<1>6. u.cursor - ind2 = f - n * COLS
  BY <1>b DEF k
<1>7. u.cursor - ind2 >= -BUFF_LEN
  <2>1. CASE pos < SCREEN_SIZE
    <3>1. k = 0
      BY <2>1, <1>4, <1>5 DEF k
    <3> QED  BY <3>1, <1>b, <1>a, <1>1
  <2>2. CASE pos >= SCREEN_SIZE
    <3>1. u.cursor >= 0
      BY <2>2, <1>4, <1>5, <1>a
    <3>2. BUFF_LEN \in Int /\ u.cursor \in Int /\ ind2 \in Int /\ ind2 <= BUFF_LEN
      BY <1>a, <1>1
    <3> QED  BY ONLY <3>1, <3>2
  <2> QED  BY <2>1, <2>2, <1>5
<1>8. ASSUME pth = <<>>
      PROVE  Home(f - n * COLS) /\ (f - n * COLS >= 2 => Shows(u.screen, ln, f - n * COLS))
  <2>1. Home(f) /\ (f >= 2 => Shows(t.screen, ln, f))
    BY <1>8 DEF EditorOK, f
  <2>2. \A p \in Cells : p + n * COLS \in Cells => u.screen[p] = t.screen[p + n * COLS]
    BY <1>1, <1>2, <1>4, ScrollIs
  <2> QED  BY <2>1, <2>2, <1>1, ScrollKeeps
<1> QED  BY <1>1, <1>3, <1>6, <1>7, <1>8 DEF EditorOK, u

\* Up: everything, the cursor too, moves one row.
LEMMA UpKeeps ==
  ASSUME NEW ln, NEW ind, NEW t, NEW pth, EditorOK(ln, ind, t, pth), t.cursor - COLS >= 0
  PROVE  EditorOK(ln, ind, set_cursor([t EXCEPT !.screen = scroll(@, 1)], t.cursor - COLS), pth)
<1> DEFINE v == [t EXCEPT !.screen = scroll(@, 1)]
           u == set_cursor(v, t.cursor - COLS)
           pos == t.cursor - COLS
           f == t.cursor - ind
<1>1. /\ ln \in Seq(Char) /\ Len(ln) \in Nat /\ Len(ln) <= BUFF_LEN /\ ind \in 0..Len(ln)
      /\ t \in Tty(Drawn) /\ t.cursor \in Int /\ t.screen \in [Cells -> Drawn] /\ f \in Int
      /\ pth \in Seq(Char \cup {SLASH}) /\ BUFF_LEN \in Int
  BY Sizes DEF EditorOK, Tty
<1>2. BLANK \in Drawn /\ COLS \in Nat /\ SCREEN_SIZE \in Nat /\ SCREEN_SIZE >= COLS /\ COLS > 2 /\ pos \in Int
      /\ BUFF_LEN = COLS - 2
  BY DrawnAre, Sizes, <1>1
<1>3. /\ scroll(t.screen, 1) \in [Cells -> Drawn]
      /\ \A p \in Cells : p + 1 * COLS \in Cells => scroll(t.screen, 1)[p] = t.screen[p + 1 * COLS]
  BY <1>1, <1>2, ScrollIs
<1>4. v \in Tty(Drawn) /\ v.screen = scroll(t.screen, 1) /\ v.cursor = t.cursor
  BY <1>1, <1>3 DEF Tty
<1> HIDE DEF v
<1>5. u \in Tty(Drawn) /\ (pos < SCREEN_SIZE => u = [v EXCEPT !.cursor = pos])
  BY <1>2, <1>4, SetCursorIs, ZenonT(60)
<1>6. pos >= SCREEN_SIZE => SCREEN_SIZE - COLS <= u.cursor
  BY <1>2, <1>4, SetCursorIs, Zenon
<1> HIDE DEF u
<1>7. pos < SCREEN_SIZE => u.cursor = pos /\ u.screen = v.screen
  BY <1>5, <1>4 DEF Tty
<1>8. u.cursor \in Int /\ u.cursor >= 0
  <2>1. u.cursor \in Int
    BY <1>5 DEF Tty
  <2>2. CASE pos < SCREEN_SIZE
    BY <2>2, <1>7, <1>2
  <2>3. CASE pos >= SCREEN_SIZE
    BY <2>1, <2>3, <1>6, <1>2
  <2> QED  BY <2>1, <2>2, <2>3, <1>2
<1>9. u.cursor - ind >= -BUFF_LEN
  BY <1>8, <1>1
<1>10. ASSUME pth = <<>>
       PROVE  Home(u.cursor - ind) /\ (u.cursor - ind >= 2 => Shows(u.screen, ln, u.cursor - ind))
  <2>1. Home(f) /\ (f >= 2 => Shows(t.screen, ln, f))
    BY <1>10 DEF EditorOK
  <2>2. pos < SCREEN_SIZE
    <3>1. PICK r \in Int : r < ROWS /\ f = r * COLS + 2
      BY <2>1 DEF Home
    <3>2. r * COLS + COLS <= ROWS * COLS /\ r * COLS \in Int /\ ROWS * COLS = SCREEN_SIZE
      BY <3>1, Sizes, Multiples
    <3>3. t.cursor = f + ind /\ ind <= COLS - 2 /\ ind \in Int
      BY <1>1, <1>2
    <3> HIDE DEF f
    <3>4. t.cursor <= SCREEN_SIZE
      BY <3>1, <3>2, <3>3, <1>2
    <3> QED  BY <3>4, <1>1, <1>2
  <2>3. u.cursor - ind = f - 1 * COLS
    BY <2>2, <1>7, <1>1, <1>2
  <2>4. \A p \in Cells : p + 1 * COLS \in Cells => u.screen[p] = t.screen[p + 1 * COLS]
    BY <2>2, <1>7, <1>4, <1>3
  <2> HIDE DEF f
  <2>5. Home(f - 1 * COLS) /\ (f - 1 * COLS >= 2 => Shows(u.screen, ln, f - 1 * COLS))
    BY <2>1, <2>4, <1>1, ScrollKeeps
  <2> QED  BY <2>3, <2>5
<1>11. EditorOK(ln, ind, u, pth)
  BY <1>1, <1>5, <1>9, <1>10 DEF EditorOK
<1> QED  BY <1>11 DEF u, v

\* Backspace: the line gets shorter, or a blank.
LEMMA BackspaceKeeps ==
  ASSUME NEW ln, NEW ind, NEW t, NEW pth, EditorOK(ln, ind, t, pth), ind # 0
  PROVE  EditorOK(IF ind = Len(ln) THEN Front(ln) ELSE [ln EXCEPT ![ind] = SPACE], ind - 1,
                  [sys_write_char(t, t.cursor - 1, SPACE, 1) EXCEPT !.cursor = @ - 1], pth)
<1> DEFINE ln2 == IF ind = Len(ln) THEN Front(ln) ELSE [ln EXCEPT ![ind] = SPACE]
           w == sys_write_char(t, t.cursor - 1, SPACE, 1)
           t2 == [w EXCEPT !.cursor = @ - 1]
           f == t.cursor - ind
<1>1. /\ ln \in Seq(Char) /\ Len(ln) \in Nat /\ Len(ln) <= BUFF_LEN /\ ind \in 0..Len(ln)
      /\ t \in Tty(Drawn) /\ t.cursor \in Int /\ pth \in Seq(Char \cup {SLASH}) /\ f \in Int
      /\ BUFF_LEN \in Int /\ f >= -BUFF_LEN
  BY Sizes DEF EditorOK, Tty
<1>2. SPACE \in Char /\ SPACE \in Drawn
  BY DrawnAre
<1>3. /\ ln2 \in Seq(Char) /\ Len(ln2) \in Nat /\ Len(ln2) <= Len(ln) /\ ind - 1 \in 0..Len(ln2)
      /\ \A i \in 1..Len(ln2) : i \in 1..Len(ln) /\ ln2[i] = IF i = ind THEN SPACE ELSE ln[i]
  <2>1. CASE ind = Len(ln)
    <3>1. Front(ln) = SubSeq(ln, 0 + 1, Len(ln) - 1) /\ Len(ln) - 1 \in 0..Len(ln)
      BY <2>1, <1>1 DEF Front
    <3> DEFINE b == Len(ln) - 1
               x == SubSeq(ln, 0 + 1, b)
    <3>2. x \in Seq(Char) /\ Len(x) = b - 0 /\ \A i \in 1..(b - 0) : x[i] = ln[0 + i]
      <4>1. 0 \in Nat /\ b \in 0..Len(ln)
        BY <3>1
      <4> HIDE DEF b
      <4> QED  BY <4>1, <1>1, PartOf, Zenon
    <3>3. ln2 = x
      BY <2>1, <3>1
    <3>4. b \in Nat /\ b - 0 = b /\ b < Len(ln) /\ b = ind - 1
      BY <2>1, <1>1
    <3>5. \A i \in 1..b : i \in 1..Len(ln) /\ i # ind /\ 0 + i = i
      BY <3>4, <1>1
    <3> HIDE DEF b, x, ln2
    <3>6. Len(ln2) = b /\ \A i \in 1..b : ln2[i] = ln[i]
      BY <3>2, <3>3, <3>4, <3>5
    <3> QED  BY <3>2, <3>3, <3>4, <3>5, <3>6, <1>1
  <2>2. CASE ind # Len(ln)
    <3>1. ln2 = [ln EXCEPT ![ind] = SPACE]
      BY <2>2
    <3>2. ln2 \in Seq(Char) /\ Len(ln2) = Len(ln)
      BY <3>1, <1>1, <1>2
    <3>3. \A i \in 1..Len(ln) : ln2[i] = IF i = ind THEN SPACE ELSE ln[i]
      BY <3>1, <1>1
    <3> HIDE DEF ln2
    <3> QED  BY <3>2, <3>3, <1>1, <2>2
  <2> QED  BY <2>1, <2>2
<1> HIDE DEF ln2
<1>4. /\ w \in Tty(Drawn) /\ w.cursor = t.cursor
      /\ \A p \in Cells : w.screen[p]
           = IF p \in (t.cursor - 1)..(t.cursor - 1 + 1 - 1) THEN SPACE ELSE t.screen[p]
  <2>1. t.cursor - 1 \in Int /\ 1 \in Nat
    BY <1>1
  <2> QED  BY <2>1, <1>1, <1>2, WriteCharIs
<1> HIDE DEF w
<1>5. t2.cursor = t.cursor - 1 /\ t2.screen = w.screen /\ t2 \in Tty(Drawn)
  <2>1. w.screen \in [Cells -> Drawn] /\ w = [screen |-> w.screen, cursor |-> w.cursor]
    BY <1>4 DEF Tty
  <2>2. t2 = [screen |-> w.screen, cursor |-> t.cursor - 1]
    BY <2>1, <1>4
  <2>3. t.cursor - 1 \in Int
    BY <1>1
  <2> QED  BY ONLY <2>1, <2>2, <2>3 DEF Tty
<1> HIDE DEF t2
<1>6. t2.cursor - (ind - 1) = f
  BY <1>5, <1>1
<1>7. ASSUME pth = <<>>, f >= 2 PROVE Shows(t2.screen, ln2, f)
  <2>1. Shows(t.screen, ln, f) /\ Home(f)
    BY <1>1, <1>7 DEF EditorOK
  <2>2. f + BUFF_LEN <= SCREEN_SIZE
    BY <2>1, <1>1, <1>7, HomeIn
  <2> HIDE DEF f
  <2>3. t.cursor = f + ind
    BY <1>1 DEF f
  <2>4. ASSUME NEW i \in 1..Len(ln2) PROVE t2.screen[f + i - 1] = ln2[i]
    <3>0. i \in Int /\ i >= 1 /\ i <= Len(ln)
      BY <1>3, <1>1
    <3>1. f + i - 1 \in Cells
      BY <3>0, <2>2, <1>1, <1>7, Sizes
    <3>2. f + i - 1 \in (t.cursor - 1)..(t.cursor - 1 + 1 - 1) <=> i = ind
      BY <3>0, <2>3, <1>1
    <3>3. t.screen[f + i - 1] = ln[i] /\ ln2[i] = IF i = ind THEN SPACE ELSE ln[i]
      BY <2>1, <1>3 DEF Shows
    <3> QED  BY <3>1, <3>2, <3>3, <1>4, <1>5
  <2>5. ASSUME NEW p \in {f - 2, f - 1} PROVE t2.screen[p] = t.screen[p]
    <3>1. p \in Cells /\ p \notin (t.cursor - 1)..(t.cursor - 1 + 1 - 1)
      BY <2>2, <2>3, <1>1, <1>7, Sizes
    <3> QED  BY <3>1, <1>4, <1>5
  <2> QED  BY <2>1, <2>4, <2>5 DEF Shows
<1>8. pth = <<>> => Home(f)
  BY DEF EditorOK
<1> HIDE DEF f
<1>9. EditorOK(ln2, ind - 1, t2, pth)
  BY <1>1, <1>3, <1>5, <1>6, <1>7, <1>8 DEF EditorOK
<1> QED  BY <1>9 DEF ln2, t2, w

\* The end of a command: a new prompt at the beginning of a row.
LEMMA DoneKeeps ==
  ASSUME NEW t \in OnTty(Drawn), RowStart(t.cursor), NEW pth \in Seq(Char \cup {SLASH})
  PROVE  EditorOK(<<>>, 0, prompt(t, pth), pth)
<1> DEFINE u == prompt(t, pth)
<1>0. /\ {BLANK, ">", SPACE} \subseteq Drawn /\ PROMPT \in Seq(Drawn) /\ BUFF_LEN \in Nat
      /\ Char \cup {SLASH} \subseteq Drawn /\ BLANK \in Drawn /\ Cells = 0..(SCREEN_SIZE - 1)
      /\ SCREEN_SIZE \in Nat
  BY DrawnAre, Sizes
<1>1. pth \in Seq(Drawn)
  BY <1>0
<1>2. pth \o PROMPT \in Seq(Drawn)
  BY <1>0, <1>1
<1>3. u \in OnTty(Drawn)
  BY <1>0, <1>2, SysWriteKeeps DEF prompt
<1>4. u \in Tty(Drawn) /\ u.cursor \in Nat
  BY <1>0, <1>3 DEF OnTty
<1> HIDE DEF u
<1>5. u.cursor - 0 = u.cursor /\ u.cursor >= -BUFF_LEN
  BY <1>0, <1>4
<1>6. ASSUME pth = <<>> PROVE Home(u.cursor) /\ Shows(u.screen, <<>>, u.cursor)
  <2>1. /\ u.cursor = t.cursor + 2
        /\ u.screen[t.cursor] = ">"
        /\ u.screen[t.cursor + 1] = SPACE
    BY <1>0, <1>6, PromptIs DEF u
  <2>2. PICK r \in 0..(ROWS - 1) : t.cursor = r * COLS
    BY DEF RowStart
  <2>3. r \in Int /\ r < ROWS
    BY Sizes, <2>2
  <2>4. Home(u.cursor)
    BY <2>1, <2>2, <2>3 DEF Home
  <2>5. t.cursor \in Nat /\ u.cursor - 2 = t.cursor /\ u.cursor - 1 = t.cursor + 1
    BY <2>1, RowStartIn
  <2>6. \A i \in 1..Len(<<>>) : u.screen[u.cursor + i - 1] = <<>>[i]
    OBVIOUS
  <2> QED  BY <2>1, <2>4, <2>5, <2>6 DEF Shows
<1>7. <<>> \in Seq(Char) /\ Len(<<>>) = 0 /\ 0 \in 0..Len(<<>>) /\ Len(<<>>) <= BUFF_LEN
  BY <1>0
<1>8. EditorOK(<<>>, 0, u, pth)
  BY <1>4, <1>5, <1>6, <1>7 DEF EditorOK
<1> QED  BY <1>8 DEF u

LEMMA EditorInit == Init => EInv
<1> SUFFICES ASSUME Init PROVE EInv
  OBVIOUS
<1> DEFINE t == [screen |-> [p \in Cells |-> BLANK], cursor |-> 0]
<1>1. BLANK \in Drawn /\ Cells = 0..(SCREEN_SIZE - 1) /\ SCREEN_SIZE \in Nat /\ SCREEN_SIZE >= 1
      /\ ROWS \in Nat /\ ROWS >= 1 /\ COLS \in Nat
  BY DrawnAre, Sizes
<1>2. t.screen \in [Cells -> Drawn] /\ t.cursor = 0 /\ 0 \in Cells
  BY <1>1
<1>3. t \in OnTty(Drawn)
  BY <1>2 DEF OnTty, Tty
<1>4. RowStart(t.cursor)
  <2>1. 0 \in 0..(ROWS - 1) /\ 0 = 0 * COLS
    BY <1>1
  <2> QED  BY <2>1, <1>2 DEF RowStart
<1>5. tty = prompt(t, <<>>) /\ line = <<>> /\ cmd_ind = 0 /\ path = <<>>
  BY DEF Init
<1> HIDE DEF t
<1>6. <<>> \in Seq(Char \cup {SLASH})
  OBVIOUS
<1>7. EditorOK(<<>>, 0, prompt(t, <<>>), <<>>)
  BY <1>3, <1>4, <1>6, DoneKeeps
<1> QED  BY <1>5, <1>7 DEF EInv

\* Enter, whatever the command turns out to be.
LEMMA CommandKeeps ==
  ASSUME EInv, process_cmd
  PROVE  EInv'
<1> DEFINE t == NewLine(tty)
<1>0. /\ BLANK \in Drawn /\ SPACE \in Drawn /\ Cells = 0..(SCREEN_SIZE - 1) /\ SCREEN_SIZE \in Nat /\ SCREEN_SIZE >= COLS
      /\ ROWS \in Nat /\ ROWS >= 1 /\ COLS \in Nat /\ COLS > 2 /\ BUFF_LEN = COLS - 2
  BY DrawnAre, Sizes
<1>1. /\ tty \in Tty(Drawn) /\ tty.cursor \in Int /\ tty.cursor - cmd_ind >= -BUFF_LEN
      /\ line \in Seq(Char) /\ Len(line) \in Nat /\ cmd_ind \in 0..Len(line) /\ path \in Seq(Char \cup {SLASH})
  BY DEF EInv, EditorOK, Tty
<1>2. tty.cursor > -COLS
  BY <1>0, <1>1
<1>3. t \in Tty(Drawn) /\ RowStart(t.cursor)
  BY <1>0, <1>1, <1>2, NewLineIs
<1>4. t \in OnTty(Drawn)
  BY <1>3, RowStartIn DEF OnTty
<1>5. ASSUME NEW u \in OnTty(Drawn), RowStart(u.cursor), NEW pth \in Seq(Char \cup {SLASH}), Done(u, pth)
      PROVE  EInv'
  <2>1. EditorOK(<<>>, 0, prompt(u, pth), pth)
    BY <1>5, DoneKeeps
  <2> QED  BY <1>5, <2>1 DEF Done, EInv
<1>6. parse_cmd[2] \in Seq(Char)
  <2>1. From2 \in Nat /\ To2 \in From2..Len(line) /\ parse_cmd[2] = SubSeq(line, From2 + 1, To2)
    <3>1. /\ From1 \in 0..Len(line) /\ To1 \in From1..Len(line) /\ From2 \in To1..Len(line)
          /\ To2 \in From2..Len(line) /\ parse_cmd[2] = SubSeq(line, From2 + 1, To2)
      BY <1>1, PartsAre
    <3> QED  BY <3>1
  <2> QED  BY <2>1, <1>1, PartOf
<1> HIDE DEF t
<1>7. CASE \E pth \in {path} : Done(t, pth)
  BY <1>7, <1>1, <1>3, <1>4, <1>5
<1>8. ASSUME NEW m \in Messages, Done(sys_write(t, m), path) PROVE EInv'
  <2>1. m \in Seq(Drawn) /\ m # <<>> /\ m[Len(m)] = "\n"
    BY DrawnAre
  <2>2. sys_write(t, m) \in OnTty(Drawn) /\ RowStart(sys_write(t, m).cursor)
    BY <2>1, <1>0, <1>4, SysWriteKeeps
  <2> QED  BY <2>2, <1>1, <1>5, <1>8
<1>9. ASSUME Done(set_cursor(clear_screen(t), 0), path) PROVE EInv'
  <2> DEFINE v == clear_screen(t)
             u == set_cursor(v, 0)
  <2>1. v \in Tty(Drawn)
    <3>1. [p \in Cells |-> BLANK] \in [Cells -> Drawn]
      BY <1>0
    <3>2. v = [t EXCEPT !.screen = [p \in Cells |-> BLANK]]
      BY DEF clear_screen
    <3>3. v = [screen |-> [p \in Cells |-> BLANK], cursor |-> t.cursor] /\ t.cursor \in Int
      BY <3>2, <1>3 DEF Tty
    <3> QED  BY <3>1, <3>3 DEF Tty
  <2> HIDE DEF v
  <2>2. 0 < SCREEN_SIZE /\ 0 \in Int
    BY <1>0
  <2>3. u \in Tty(Drawn) /\ u = [v EXCEPT !.cursor = 0]
    BY <2>1, <2>2, <1>0, SetCursorIs
  <2>4. u.cursor = 0
    BY <2>1, <2>3 DEF Tty
  <2>5. 0 \in Cells /\ 0 \in 0..(ROWS - 1) /\ 0 = 0 * COLS
    BY <1>0
  <2>6. u \in OnTty(Drawn) /\ RowStart(u.cursor)
    BY <2>3, <2>4, <2>5 DEF OnTty, RowStart
  <2> HIDE DEF u
  <2>7. Done(u, path)
    BY <1>9 DEF u, v
  <2> QED  BY <2>6, <2>7, <1>1, <1>5
<1>10. ASSUME NEW col \in Columns, Done(clear_column(t, col), path) PROVE EInv'
  <2> DEFINE w == [p \in Cells |-> IF p % COLS = col THEN SPACE ELSE t.screen[p]]
             u == clear_column(t, col)
  <2>1. t.screen \in [Cells -> Drawn] /\ t = [screen |-> t.screen, cursor |-> t.cursor]
    BY <1>3 DEF Tty
  <2>2. w \in [Cells -> Drawn]
    BY <2>1, <1>0
  <2>3. u = [t EXCEPT !.screen = w]
    BY DEF clear_column
  <2> HIDE DEF w, u
  <2>4. u = [screen |-> w, cursor |-> t.cursor]
    BY <2>1, <2>3
  <2>5. u.cursor = t.cursor /\ t.cursor \in Int /\ t.cursor \in Cells
    BY <2>4, <1>3, <1>4 DEF Tty, OnTty
  <2>6. u \in OnTty(Drawn)
    BY <2>2, <2>4, <2>5 DEF Tty, OnTty
  <2>7. Done(u, path)
    BY <1>10 DEF u
  <2> QED  BY <2>5, <2>6, <2>7, <1>1, <1>3, <1>5
<1>11. ASSUME Done(t, path \o <<SLASH>> \o parse_cmd[2]) PROVE EInv'
  <2>1. path \o <<SLASH>> \o parse_cmd[2] \in Seq(Char \cup {SLASH})
    <3>1. parse_cmd[2] \in Seq(Char \cup {SLASH}) /\ <<SLASH>> \in Seq(Char \cup {SLASH})
      BY <1>6
    <3>2. path \o <<SLASH>> \in Seq(Char \cup {SLASH})
      BY <3>1, <1>1
    <3> QED  BY ONLY <3>1, <3>2
  <2> QED  BY <2>1, <1>3, <1>4, <1>5, <1>11
<1>12. ASSUME Done(t, path_up) PROVE EInv'
  <2>1. path_up \in Seq(Char \cup {SLASH})
    <3> DEFINE I == {i \in 1..Len(path) : path[i] = SLASH}
               last == SelectLastInSeq(path, LAMBDA c : c = SLASH)
    <3>1. last = IF I # {} THEN Max(I) ELSE 0
      BY DEF SelectLastInSeq
    <3>2. Len(path) \in Nat
      BY <1>1
    <3>3. I # {} => Max(I) \in I
      <4>1. I \in SUBSET (0..Len(path))
        BY <3>2
      <4> QED  BY <4>1, <3>2, GreatestNumber
    <3>4. last \in 0..Len(path)
      BY <3>1, <3>2, <3>3
    <3> DEFINE b == IF last = 0 THEN 0 ELSE last - 1
    <3>5. path_up = SubSeq(path, 1, b)
      BY DEF path_up
    <3> HIDE DEF last
    <3>6. b \in 0..Len(path)
      BY <3>4, <3>2
    <3> HIDE DEF b
    <3>7. SubSeq(path, 0 + 1, b) \in Seq(Char \cup {SLASH})
      BY <3>6, <1>1, PartOf, Zenon
    <3> QED  BY <3>5, <3>7
  <2> QED  BY <2>1, <1>3, <1>4, <1>5, <1>12
<1> QED  BY <1>7, <1>8, <1>9, <1>10, <1>11, <1>12 DEF process_cmd, t

LEMMA EditorStep == EInv /\ [Next]_vars => EInv'
<1> SUFFICES ASSUME EInv, [Next]_vars PROVE EInv'
  OBVIOUS
<1>0. EditorOK(line, cmd_ind, tty, path)
  BY DEF EInv
<1>1. /\ line \in Seq(Char) /\ Len(line) \in Nat /\ Len(line) <= BUFF_LEN /\ cmd_ind \in 0..Len(line)
      /\ tty.cursor \in Int /\ BUFF_LEN \in Int /\ TAB \in Nat /\ SPACE \in Char
  BY EditorAssumption, Sizes DEF EInv, EditorOK, Tty
<1>2. ASSUME NEW c \in Char, NEW n \in Nat, cmd_ind + n <= BUFF_LEN, Put(c, n), path' = path PROVE EInv'
  <2>1. EditorOK([i \in 1..Max({Len(line), cmd_ind + n}) |-> IF i \in (cmd_ind + 1)..(cmd_ind + n) THEN c ELSE line[i]],
                 cmd_ind + n, [sys_write_char(tty, tty.cursor, c, n) EXCEPT !.cursor = @ + n], path)
    BY <1>0, <1>2, PutKeeps
  <2>2. /\ line' = [i \in 1..Max({Len(line), cmd_ind + n}) |-> IF i \in (cmd_ind + 1)..(cmd_ind + n) THEN c ELSE line[i]]
        /\ cmd_ind' = cmd_ind + n
        /\ tty' = [sys_write_char(tty, tty.cursor, c, n) EXCEPT !.cursor = @ + n]
    BY <1>2 DEF Put, cursor
  <2> QED  BY <1>2, <2>1, <2>2 DEF EInv
<1>3. ASSUME NEW c \in Char, type(c) PROVE EInv'
  <2>1. cmd_ind + 1 <= BUFF_LEN /\ Put(c, 1) /\ path' = path
    BY <1>1, <1>3 DEF type
  <2> QED  BY <2>1, <1>2
<1>4. CASE tab
  <2> DEFINE n == Min({TAB, BUFF_LEN - cmd_ind})
  <2>1. BUFF_LEN - cmd_ind \in Nat
    BY <1>1
  <2>2. {TAB, BUFF_LEN - cmd_ind} \in SUBSET Nat
    BY <2>1, <1>1
  <2>3. n \in {TAB, BUFF_LEN - cmd_ind} /\ n <= BUFF_LEN - cmd_ind
    BY <2>2, LeastNumber
  <2>4. Put(SPACE, n) /\ path' = path
    BY <1>4 DEF tab
  <2> HIDE DEF n
  <2>5. n \in Nat /\ cmd_ind + n <= BUFF_LEN
    BY <2>1, <2>3, <1>1
  <2> QED  BY <2>4, <2>5, <1>1, <1>2
<1>5. CASE backspace
  <2>1. EditorOK(IF cmd_ind = Len(line) THEN Front(line) ELSE [line EXCEPT ![cmd_ind] = SPACE], cmd_ind - 1,
                 [sys_write_char(tty, tty.cursor - 1, SPACE, 1) EXCEPT !.cursor = @ - 1], path)
    BY <1>0, <1>5, BackspaceKeeps DEF backspace
  <2> QED  BY <2>1, <1>5 DEF backspace, cursor, EInv
<1>6. CASE left
  <2>1. /\ cmd_ind - 1 \in 0..Len(line) /\ tty.cursor - 1 \in Int
        /\ tty.cursor - 1 = tty.cursor - cmd_ind + (cmd_ind - 1)
    BY <1>1, <1>6 DEF left
  <2>2. EditorOK(line, cmd_ind - 1, set_cursor(tty, tty.cursor - 1), path)
    BY <2>1, <1>0, MoveKeeps
  <2> QED  BY <2>2, <1>6 DEF left, cursor, EInv
<1>7. CASE right
  <2>1. /\ cmd_ind + 1 \in 0..Len(line) /\ tty.cursor + 1 \in Int
        /\ tty.cursor + 1 = tty.cursor - cmd_ind + (cmd_ind + 1)
    BY <1>1, <1>7 DEF right
  <2>2. EditorOK(line, cmd_ind + 1, set_cursor(tty, tty.cursor + 1), path)
    BY <2>1, <1>0, MoveKeeps
  <2> QED  BY <2>2, <1>7 DEF right, cursor, EInv
<1>8. CASE up
  <2>1. EditorOK(line, cmd_ind, set_cursor([tty EXCEPT !.screen = scroll(@, 1)], tty.cursor - COLS), path)
    BY <1>0, <1>8, UpKeeps DEF up, cursor
  <2> QED  BY <2>1, <1>8 DEF up, cursor, EInv
<1>9. CASE process_cmd
  BY <1>9, CommandKeeps
<1>10. CASE UNCHANGED vars
  BY <1>10 DEF vars, EInv
<1> QED  BY <1>3, <1>4, <1>5, <1>6, <1>7, <1>8, <1>9, <1>10 DEF Next

LEMMA EditorInvariance == Spec => []EInv
BY EditorInit, EditorStep, PTL DEF Spec

\* The line stays within cmd[] and cmd_ind within the line, whatever keys are
\* pressed; only characters reach the screen and the path.
THEOREM EditorTypes == Spec => []TypeOK
BY EditorInvariance, EditorShows, PTL

\* Behind a bare prompt every character typed or deleted lands inside
\* screen[], for every screen whose rows hold a prompt and a full line.
THEOREM WritesOnScreen == Spec => []OnScreen
BY EditorInvariance, EditorShows, PTL

\* The line Enter will run is the one on the screen behind its prompt,
\* through every edit, scroll and command.
THEOREM LineOnScreen == Spec => []ScreenShowsLine
BY EditorInvariance, EditorShows, PTL

----------------------------------------------------------------------------
\* The path.

Paths == Seq(Char \cup {SLASH})

Joins(p, ds) == p = [n \in 0..Len(ds) |-> IF n = 0 THEN <<>> ELSE p[n - 1] \o <<SLASH>> \o ds[n]]

LEMMA LongerPath ==
  ASSUME NEW p \in Paths, NEW d \in Seq(Char)
  PROVE  /\ p \o <<SLASH>> \o d \in Paths
         /\ Len(p \o <<SLASH>> \o d) = Len(p) + 1 + Len(d)
         /\ \A i \in 1..Len(p) : (p \o <<SLASH>> \o d)[i] = p[i]
         /\ (p \o <<SLASH>> \o d)[Len(p) + 1] = SLASH
         /\ \A i \in 1..Len(d) : (p \o <<SLASH>> \o d)[Len(p) + 1 + i] = d[i]
<1> DEFINE q == p \o <<SLASH>>
<1>1. <<SLASH>> \in Seq(Char \cup {SLASH}) /\ Len(<<SLASH>>) = 1 /\ <<SLASH>>[1] = SLASH
      /\ d \in Seq(Char \cup {SLASH}) /\ p \in Seq(Char \cup {SLASH}) /\ Len(p) \in Nat /\ Len(d) \in Nat
  BY DEF Paths
<1>2. q \in Seq(Char \cup {SLASH}) /\ Len(q) = Len(p) + 1 /\ (\A i \in 1..Len(p) : q[i] = p[i])
      /\ q[Len(p) + 1] = SLASH
  BY <1>1
<1> HIDE DEF q
<1>3. q \o d \in Seq(Char \cup {SLASH}) /\ Len(q \o d) = Len(q) + Len(d)
  BY ONLY <1>1, <1>2
<1>4. \A i \in 1..Len(q) : (q \o d)[i] = q[i]
  BY <1>1, <1>2
<1>5. \A i \in 1..Len(d) : (q \o d)[Len(q) + i] = d[i]
  BY <1>1, <1>2
<1>6. \A i \in 1..Len(p) : (q \o d)[i] = p[i]
  BY <1>1, <1>2, <1>4
<1>7. (q \o d)[Len(p) + 1] = SLASH
  BY <1>1, <1>2, <1>4
<1> QED  BY <1>1, <1>2, <1>3, <1>5, <1>6, <1>7 DEF Paths, q

LEMMA JoinsExist ==
  ASSUME NEW ds \in Seq(Seq(Char))
  PROVE  \E f : Joins(f, ds)
<1> DEFINE G == [x \in (1..Len(ds)) \X Paths |-> x[2] \o <<SLASH>> \o ds[x[1]]]
<1>0. Len(ds) \in Nat /\ (\A i \in 1..Len(ds) : ds[i] \in Seq(Char)) /\ <<>> \in Paths
  BY DEF Paths
<1>1. G \in [(1..Len(ds)) \X Paths -> Paths]
  <2>1. ASSUME NEW x \in (1..Len(ds)) \X Paths PROVE x[2] \o <<SLASH>> \o ds[x[1]] \in Paths
    <3>1. x[2] \in Paths /\ ds[x[1]] \in Seq(Char)
      BY <1>0
    <3> QED  BY <3>1, LongerPath
  <2> QED  BY <2>1
<1>2. \A n \in 1..Len(ds), u \in Paths : G[<<n, u>>] = u \o <<SLASH>> \o ds[n]
  OBVIOUS
<1> HIDE DEF G
<1>3. PICK f \in [0..Len(ds) -> Paths] : f[0] = <<>> /\ \A n \in 1..Len(ds) : f[n] = G[<<n, f[n - 1]>>]
  <2> DEFINE len == Len(ds)
             t == <<>>
  <2>1. len \in Nat /\ t \in Paths /\ G \in [(1..len) \X Paths -> Paths]
    BY <1>0, <1>1
  <2> HIDE DEF len, t
  <2>2. \E f : Steps(f, len, Paths, t, G)
    BY <2>1, StepsExist, Zenon
  <2> QED  BY <2>2 DEF len, t, Steps
<1>4. \A n \in 0..Len(ds) : f[n] = IF n = 0 THEN <<>> ELSE f[n - 1] \o <<SLASH>> \o ds[n]
  <2> SUFFICES ASSUME NEW n \in 0..Len(ds), n # 0 PROVE f[n] = f[n - 1] \o <<SLASH>> \o ds[n]
    BY <1>3
  <2>1. n \in 1..Len(ds) /\ n - 1 \in 0..Len(ds)
    BY <1>0
  <2>2. f[n - 1] \in Paths
    BY <2>1, <1>3
  <2> QED  BY <2>1, <2>2, <1>2, <1>3
<1>5. f = [n \in 0..Len(ds) |-> f[n]]
  BY <1>3
<1>6. [n \in 0..Len(ds) |-> f[n]] = [n \in 0..Len(ds) |-> IF n = 0 THEN <<>> ELSE f[n - 1] \o <<SLASH>> \o ds[n]]
  BY <1>4
<1>7. Joins(f, ds)
  BY <1>5, <1>6 DEF Joins
<1> QED  BY <1>7

LEMMA JoinedIs ==
  ASSUME NEW ds \in Seq(Seq(Char))
  PROVE  \E f : /\ f[0] = <<>>
                /\ \A n \in 1..Len(ds) : f[n] = f[n - 1] \o <<SLASH>> \o ds[n]
                /\ Joined(ds) = f[Len(ds)]
<1> DEFINE f == CHOOSE g : Joins(g, ds)
<1>0. Len(ds) \in Nat
  OBVIOUS
<1>1. Joined(ds) = f[Len(ds)]
  BY Zenon DEF Joined, Joins
<1>2. Joins(f, ds)
  BY JoinsExist
<1> HIDE DEF f
<1>3. f = [n \in 0..Len(ds) |-> IF n = 0 THEN <<>> ELSE f[n - 1] \o <<SLASH>> \o ds[n]]
  BY <1>2 DEF Joins
<1>4. \A n \in 0..Len(ds) : f[n] = IF n = 0 THEN <<>> ELSE f[n - 1] \o <<SLASH>> \o ds[n]
  BY <1>3
<1>5. f[0] = <<>>
  <2>1. 0 \in 0..Len(ds)
    BY <1>0
  <2> QED  BY <1>4, <2>1
<1>6. \A n \in 1..Len(ds) : f[n] = f[n - 1] \o <<SLASH>> \o ds[n]
  <2> SUFFICES ASSUME NEW n \in 1..Len(ds) PROVE f[n] = f[n - 1] \o <<SLASH>> \o ds[n]
    OBVIOUS
  <2>1. n \in 0..Len(ds) /\ n # 0
    BY <1>0
  <2> QED  BY ONLY <1>4, <2>1, Zenon
<1> QED  BY <1>1, <1>5, <1>6

LEMMA JoinedType ==
  ASSUME NEW ds \in Seq(Seq(Char))
  PROVE  Joined(ds) \in Paths
<1>0. Len(ds) \in Nat /\ \A i \in 1..Len(ds) : ds[i] \in Seq(Char)
  OBVIOUS
<1>1. PICK f : /\ f[0] = <<>>
               /\ \A n \in 1..Len(ds) : f[n] = f[n - 1] \o <<SLASH>> \o ds[n]
               /\ Joined(ds) = f[Len(ds)]
  BY JoinedIs
<1> DEFINE Bad == {n \in 0..Len(ds) : f[n] \notin Paths}
<1>2. ASSUME NEW m \in Bad PROVE \E k \in Bad : k < m
  <2>1. m \in Nat /\ m <= Len(ds) /\ f[m] \notin Paths
    BY <1>0
  <2>2. m # 0
    <3>1. <<>> \in Paths
      BY DEF Paths
    <3> QED  BY ONLY <3>1, <2>1, <1>1, Zenon
  <2>3. f[m] = f[m - 1] \o <<SLASH>> \o ds[m] /\ ds[m] \in Seq(Char)
    <3>1. m \in 1..Len(ds)
      BY <2>1, <2>2, <1>0
    <3> QED  BY ONLY <3>1, <1>0, <1>1, Zenon
  <2>4. f[m - 1] \notin Paths
    BY <2>1, <2>3, LongerPath
  <2>5. m - 1 \in Bad /\ m - 1 < m
    BY <2>1, <2>2, <2>4, <1>0
  <2> QED  BY <2>5
<1>3. Bad \in SUBSET Nat
  BY <1>0
<1> HIDE DEF Bad
<1>4. Bad = {}
  BY <1>2, <1>3, NoLeastNumber
<1>5. f[Len(ds)] \in Paths
  BY <1>4, <1>0 DEF Bad
<1> QED  BY <1>1, <1>5

\* One directory more is one part more of the path.
LEMMA JoinedAppend ==
  ASSUME NEW ds \in Seq(Seq(Char)), NEW d \in Seq(Char)
  PROVE  Joined(Append(ds, d)) = Joined(ds) \o <<SLASH>> \o d
<1> DEFINE es == Append(ds, d)
<1>0. /\ es \in Seq(Seq(Char)) /\ Len(ds) \in Nat /\ Len(es) = Len(ds) + 1 /\ es[Len(ds) + 1] = d
      /\ \A i \in 1..Len(ds) : es[i] = ds[i]
  OBVIOUS
<1>1. PICK f : /\ f[0] = <<>>
               /\ \A n \in 1..Len(ds) : f[n] = f[n - 1] \o <<SLASH>> \o ds[n]
               /\ Joined(ds) = f[Len(ds)]
  BY JoinedIs
<1> HIDE DEF es
<1>2. PICK g : /\ g[0] = <<>>
               /\ \A n \in 1..Len(es) : g[n] = g[n - 1] \o <<SLASH>> \o es[n]
               /\ Joined(es) = g[Len(es)]
  BY <1>0, JoinedIs
<1> DEFINE Bad == {n \in 0..Len(ds) : f[n] # g[n]}
<1>3. ASSUME NEW m \in Bad PROVE \E k \in Bad : k < m
  <2>1. m \in Nat /\ m <= Len(ds) /\ f[m] # g[m]
    BY <1>0
  <2>2. m # 0
    BY <2>1, <1>1, <1>2
  <2>3. m \in 1..Len(ds) /\ m \in 1..Len(es)
    BY <2>1, <2>2, <1>0
  <2>4. f[m] = f[m - 1] \o <<SLASH>> \o ds[m] /\ g[m] = g[m - 1] \o <<SLASH>> \o ds[m]
    BY <2>3, <1>0, <1>1, <1>2
  <2>5. f[m - 1] # g[m - 1]
    BY <2>1, <2>4
  <2>6. m - 1 \in Bad /\ m - 1 < m
    BY <2>1, <2>2, <2>5, <1>0
  <2> QED  BY <2>6
<1>4. Bad \in SUBSET Nat
  BY <1>0
<1> HIDE DEF Bad
<1>5. Bad = {}
  BY <1>3, <1>4, NoLeastNumber
<1>6. f[Len(ds)] = g[Len(ds)]
  BY <1>5, <1>0 DEF Bad
<1>7. Len(ds) + 1 \in 1..Len(es) /\ Len(ds) + 1 - 1 = Len(ds)
  BY <1>0
<1>8. Joined(es) = g[Len(ds)] \o <<SLASH>> \o d
  <2> DEFINE k == Len(ds) + 1
  <2>1. k \in 1..Len(es) /\ k - 1 = Len(ds) /\ k = Len(es) /\ es[k] = d
    BY <1>0, <1>7
  <2> HIDE DEF k
  <2>2. g[k] = g[k - 1] \o <<SLASH>> \o es[k]
    BY ONLY <1>2, <2>1, Zenon
  <2> QED  BY ONLY <1>2, <2>1, <2>2, Zenon
<1> QED  BY <1>1, <1>6, <1>8 DEF es

\* `cd ..' takes the last part away, because no name has a slash.
LEMMA SlashCut ==
  ASSUME NEW p \in Paths, NEW d \in Seq(Char), path = p \o <<SLASH>> \o d
  PROVE  path_up = p
<1> DEFINE I == {i \in 1..Len(path) : path[i] = SLASH}
           last == SelectLastInSeq(path, LAMBDA c : c = SLASH)
<1>0. Len(p) \in Nat /\ Len(d) \in Nat /\ (\A i \in 1..Len(d) : d[i] \in Char) /\ SLASH \notin Char
  BY EditorAssumption DEF Paths
<1>1. /\ path \in Paths /\ Len(path) = Len(p) + 1 + Len(d)
      /\ \A i \in 1..Len(p) : path[i] = p[i]
      /\ path[Len(p) + 1] = SLASH
      /\ \A i \in 1..Len(d) : path[Len(p) + 1 + i] = d[i]
  BY LongerPath
<1>2. last = IF I # {} THEN Max(I) ELSE 0
  BY DEF SelectLastInSeq
<1>3. Len(p) + 1 \in I /\ I \in SUBSET (0..Len(path)) /\ Len(path) \in Nat
  BY <1>0, <1>1
<1>4. Max(I) \in I /\ \A y \in I : Max(I) >= y
  BY <1>3, GreatestNumber
<1>5. ASSUME NEW i \in I PROVE i <= Len(p) + 1
  <2> SUFFICES ASSUME i > Len(p) + 1 PROVE FALSE
    BY <1>0, <1>1
  <2>1. i - Len(p) - 1 \in 1..Len(d) /\ i = Len(p) + 1 + (i - Len(p) - 1)
    BY <1>0, <1>1
  <2>2. path[i] \in Char
    BY <2>1, <1>0, <1>1
  <2> QED  BY <2>2, <1>0
<1>6. Max(I) = Len(p) + 1
  <2>1. Max(I) <= Len(p) + 1 /\ Max(I) >= Len(p) + 1 /\ Max(I) \in 0..Len(path)
    BY ONLY <1>3, <1>4, <1>5
  <2> QED  BY ONLY <2>1, <1>0, <1>3
<1>7. last = Len(p) + 1
  BY <1>2, <1>3, <1>6
<1>8. path_up = SubSeq(path, 1, IF last = 0 THEN 0 ELSE last - 1)
  BY DEF path_up
<1> HIDE DEF last
<1>9. (IF last = 0 THEN 0 ELSE last - 1) = Len(p)
  BY <1>7, <1>0
<1>10. path_up = SubSeq(path, 0 + 1, Len(p))
  BY <1>8, <1>9
<1>11. path \in Seq(Char \cup {SLASH}) /\ 0 \in Nat /\ Len(p) \in 0..Len(path)
  BY <1>0, <1>1 DEF Paths
<1>12. /\ path_up \in Seq(Char \cup {SLASH}) /\ Len(path_up) = Len(p) - 0
       /\ \A i \in 1..(Len(p) - 0) : path_up[i] = path[0 + i]
  BY <1>10, <1>11, PartOf
<1>13. Len(path_up) = Len(p) /\ \A i \in 1..Len(p) : path_up[i] = p[i]
  BY <1>0, <1>1, <1>12
<1> QED  BY <1>12, <1>13 DEF Paths

PathInv == dirs \in Seq(Seq(Char)) /\ PathShowsDirs

LEMMA PathStep == EInv /\ PathInv /\ [Next]_vars => PathInv'
<1> SUFFICES ASSUME EInv, PathInv, [Next]_vars PROVE PathInv'
  OBVIOUS
<1>1. line \in Seq(Char) /\ dirs \in Seq(Seq(Char)) /\ path = Joined(dirs) /\ path \in Paths
  BY DEF EInv, EditorOK, PathInv, PathShowsDirs, Paths
<1>2. CASE path' = path /\ dirs' = dirs
  BY <1>2 DEF PathInv, PathShowsDirs
<1>3. ASSUME path' = path \o <<SLASH>> \o parse_cmd[2], dirs' = Append(dirs, parse_cmd[2]) PROVE PathInv'
  <2>1. parse_cmd[2] \in Seq(Char)
    <3>1. /\ From1 \in 0..Len(line) /\ To1 \in From1..Len(line) /\ From2 \in To1..Len(line)
          /\ To2 \in From2..Len(line) /\ parse_cmd[2] = SubSeq(line, From2 + 1, To2) /\ Len(line) \in Nat
      BY <1>1, PartsAre, SMTT(60)
    <3>2. From2 \in Nat /\ To2 \in From2..Len(line)
      BY <3>1
    <3> QED  BY <3>1, <3>2, <1>1, PartOf
  <2>2. Joined(Append(dirs, parse_cmd[2])) = path \o <<SLASH>> \o parse_cmd[2]
    BY <2>1, <1>1, JoinedAppend
  <2>3. Append(dirs, parse_cmd[2]) \in Seq(Seq(Char))
    BY <2>1, <1>1
  <2> QED  BY <2>2, <2>3, <1>3 DEF PathInv, PathShowsDirs
<1>4. ASSUME dirs # <<>>, path' = path_up, dirs' = Front(dirs) PROVE PathInv'
  <2> DEFINE es == Front(dirs)
             d == dirs[Len(dirs)]
  <2>0. Len(dirs) \in Nat \ {0} /\ d \in Seq(Char)
    BY <1>1, <1>4
  <2>1. es = SubSeq(dirs, 0 + 1, Len(dirs) - 1) /\ Len(dirs) - 1 \in 0..Len(dirs)
    BY <2>0 DEF Front
  <2>2. /\ es \in Seq(Seq(Char)) /\ Len(es) = Len(dirs) - 1 - 0
        /\ \A i \in 1..(Len(dirs) - 1 - 0) : es[i] = dirs[0 + i]
    <3> DEFINE b == Len(dirs) - 1
    <3>1. b \in 0..Len(dirs) /\ 0 \in Nat
      BY <2>1
    <3> HIDE DEF b, es
    <3>2. /\ SubSeq(dirs, 0 + 1, b) \in Seq(Seq(Char)) /\ Len(SubSeq(dirs, 0 + 1, b)) = b - 0
          /\ \A i \in 1..(b - 0) : SubSeq(dirs, 0 + 1, b)[i] = dirs[0 + i]
      BY <3>1, <1>1, PartOf, Zenon
    <3>3. es = SubSeq(dirs, 0 + 1, b)
      BY <2>1 DEF b
    <3> QED  BY <3>2, <3>3 DEF b
  <2> HIDE DEF es, d
  <2>3. Len(es) = Len(dirs) - 1 /\ \A i \in 1..(Len(dirs) - 1) : es[i] = dirs[i]
    BY <2>0, <2>2
  <2>4. dirs = Append(es, d)
    <3>1. Append(es, d) \in Seq(Seq(Char)) /\ Len(Append(es, d)) = Len(dirs)
      BY <2>0, <2>2, <2>3
    <3>2. \A i \in 1..Len(dirs) : Append(es, d)[i] = dirs[i]
      <4> SUFFICES ASSUME NEW i \in 1..Len(dirs) PROVE Append(es, d)[i] = dirs[i]
        OBVIOUS
      <4>1. CASE i = Len(dirs)
        <5>1. i = Len(es) + 1
          BY <4>1, <2>0, <2>3
        <5>2. Append(es, d)[Len(es) + 1] = d
          BY <2>0, <2>2
        <5> QED  BY <4>1, <5>1, <5>2 DEF d
      <4>2. CASE i # Len(dirs)
        <5>1. i \in 1..Len(es) /\ i \in 1..(Len(dirs) - 1)
          BY <4>2, <2>0, <2>3
        <5>2. Append(es, d)[i] = es[i]
          BY <5>1, <2>0, <2>2
        <5> QED  BY <5>1, <5>2, <2>3
      <4> QED  BY <4>1, <4>2
    <3> DEFINE a == Append(es, d)
    <3>3. a \in Seq(Seq(Char)) /\ Len(a) = Len(dirs) /\ \A i \in 1..Len(dirs) : a[i] = dirs[i]
      BY <3>1, <3>2
    <3> HIDE DEF a
    <3>4. a = dirs
      <4>1. a = [i \in 1..Len(dirs) |-> a[i]]
        BY ONLY <3>3
      <4>2. dirs = [i \in 1..Len(dirs) |-> dirs[i]]
        BY ONLY <1>1
      <4>3. [i \in 1..Len(dirs) |-> a[i]] = [i \in 1..Len(dirs) |-> dirs[i]]
        BY ONLY <3>3
      <4> QED  BY ONLY <4>1, <4>2, <4>3
    <3> QED  BY <3>4 DEF a
  <2>5. path = Joined(es) \o <<SLASH>> \o d
    BY <2>0, <2>2, <2>4, <1>1, JoinedAppend
  <2>6. Joined(es) \in Paths
    BY <2>2, JoinedType
  <2>7. path_up = Joined(es)
    BY <2>0, <2>5, <2>6, SlashCut
  <2> QED  BY <2>2, <2>7, <1>4 DEF PathInv, PathShowsDirs, es
<1>5. CASE process_cmd
  BY <1>2, <1>3, <1>4, <1>5 DEF process_cmd, Done
<1>6. CASE UNCHANGED vars
  BY <1>2, <1>6 DEF vars
<1>7. CASE Next /\ ~process_cmd
  BY <1>2, <1>7 DEF Next, type, tab, backspace, left, right, up
<1> QED  BY <1>5, <1>6, <1>7

\* The path in the prompt names the directories entered and not yet left, for
\* any sequence of cd that fits path[].
THEOREM PathNamesDirs == Spec => []PathShowsDirs
<1>1. Init => PathInv
  <2> SUFFICES ASSUME Init PROVE PathInv
    OBVIOUS
  <2>1. dirs = <<>> /\ path = <<>> /\ <<>> \in Seq(Seq(Char)) /\ Len(<<>>) = 0
    BY DEF Init
  <2>2. Joined(<<>>) = <<>>
    BY <2>1, JoinedIs
  <2> QED  BY <2>1, <2>2 DEF PathInv, PathShowsDirs
<1>2. PathInv => PathShowsDirs
  BY DEF PathInv
<1> QED  BY <1>1, <1>2, PathStep, EditorInvariance, PTL DEF Spec

----------------------------------------------------------------------------
\* The words.

Before(i) == {p \in Runs : p[1] <= i}

\* i is where a word ends, or 0, and the words that begin up to it are
\* counted: they are m, or fewer at the line's end.
Counted(i, m) ==
  /\ i = 0 \/ i = Len(line) \/ line[i + 1] = SPACE
  /\ IsFiniteSet(Before(i)) /\ Cardinality(Before(i)) <= m
  /\ Blanks(i) < Len(line) => Cardinality(Before(i)) = m

LEMMA RunIs ==
  ASSUME line \in Seq(Char), NEW r \in Runs
  PROVE  /\ r[1] \in 1..Len(line) /\ r[2] \in r[1]..Len(line) /\ r = <<r[1], r[2]>>
         /\ \A i \in r[1]..r[2] : line[i] # SPACE
         /\ r[1] = 1 \/ line[r[1] - 1] = SPACE
         /\ r[2] = Len(line) \/ line[r[2] + 1] = SPACE
<1>1. r \in (DOMAIN line) \X (DOMAIN line) /\ DOMAIN line = 1..Len(line) /\ Len(line) \in Nat
  BY DEF Runs
<1>2. r[1] \in 1..Len(line) /\ r[2] \in 1..Len(line) /\ r = <<r[1], r[2]>>
  BY <1>1
<1>3. r[1] <= r[2]
  BY DEF Runs
<1>4. r[2] \in r[1]..Len(line)
  BY <1>1, <1>2, <1>3
<1> QED  BY <1>2, <1>4 DEF Runs

\* A run without a blank between two blanks, or ends of the line, is a word.
LEMMA IsRun ==
  ASSUME line \in Seq(Char), NEW a \in 1..Len(line), NEW b \in a..Len(line),
         \A i \in a..b : line[i] # SPACE,
         a = 1 \/ line[a - 1] = SPACE,
         b = Len(line) \/ line[b + 1] = SPACE
  PROVE  <<a, b>> \in Runs
<1>1. Len(line) \in Nat /\ DOMAIN line = 1..Len(line)
  OBVIOUS
<1>2. a \in 1..Len(line) /\ b \in 1..Len(line) /\ a <= b
  BY ONLY a \in 1..Len(line), b \in a..Len(line), Len(line) \in Nat
<1> QED  BY <1>1, <1>2 DEF Runs

\* No word begins among the blanks that are skipped; the word found is the
\* only one that begins before its own end.
LEMMA NextWord ==
  ASSUME line \in Seq(Char), NEW i \in 0..Len(line),
         i = 0 \/ i = Len(line) \/ line[i + 1] = SPACE
  PROVE  /\ Blanks(i) \in i..Len(line) /\ Word(Blanks(i)) \in Blanks(i)..Len(line)
         /\ \A q \in Runs : q[1] > i => q[1] > Blanks(i)
         /\ Blanks(i) < Len(line) => <<Blanks(i) + 1, Word(Blanks(i))>> \in Runs
         /\ \A q \in Runs : q[1] > i /\ q[1] <= Word(Blanks(i)) => q = <<Blanks(i) + 1, Word(Blanks(i))>>
         /\ Word(Blanks(i)) = Len(line) \/ line[Word(Blanks(i)) + 1] = SPACE
<1> DEFINE f == Blanks(i)
           t == Word(f)
<1>0. Len(line) \in Nat /\ i \in Nat
  OBVIOUS
<1>1. /\ f \in i..Len(line) /\ \A j \in (i + 1)..f : line[j] = SPACE
      /\ f = Len(line) \/ line[f + 1] # SPACE
  BY BlanksIs
<1> HIDE DEF f
<1>2. f \in 0..Len(line)
  BY <1>0, <1>1
<1>3. /\ t \in f..Len(line) /\ \A j \in (f + 1)..t : line[j] # SPACE
      /\ t = Len(line) \/ line[t + 1] = SPACE
  BY <1>2, WordIs
<1> HIDE DEF t
<1>4. ASSUME NEW q \in Runs, q[1] > i PROVE q[1] > f
  <2>1. q[1] \in 1..Len(line) /\ q[2] \in q[1]..Len(line) /\ \A j \in q[1]..q[2] : line[j] # SPACE
    BY RunIs
  <2>2. q[1] \in q[1]..q[2]
    BY <2>1, <1>0
  <2>3. line[q[1]] # SPACE
    BY <2>1, <2>2
  <2>4. q[1] \notin (i + 1)..f
    BY <2>3, <1>1
  <2> QED  BY <2>1, <2>4, <1>4, <1>1, <1>0
<1>5. f < Len(line) => <<f + 1, t>> \in Runs
  <2> SUFFICES ASSUME f < Len(line) PROVE <<f + 1, t>> \in Runs
    OBVIOUS
  <2>1. t # f
    <3>1. line[f + 1] # SPACE /\ f # Len(line)
      BY <1>0, <1>1
    <3> QED  BY <3>1, <1>3
  <2>2. f + 1 \in 1..Len(line) /\ t \in (f + 1)..Len(line)
    BY <2>1, <1>0, <1>2, <1>3
  <2>3. f + 1 = 1 \/ line[(f + 1) - 1] = SPACE
    <3>1. CASE f = 0
      BY <3>1
    <3>2. CASE f # 0 /\ f # i
      <4>1. f \in (i + 1)..f /\ (f + 1) - 1 = f
        BY <3>2, <1>0, <1>1
      <4> QED  BY <4>1, <1>1
    <3>3. CASE f # 0 /\ f = i
      <4>1. i # 0 /\ i # Len(line) /\ line[f + 1] # SPACE
        BY <3>3, <1>0, <1>1
      <4> QED  BY <4>1, <3>3
    <3> QED  BY <3>1, <3>2, <3>3
  <2> DEFINE a == f + 1
  <2> HIDE DEF a
  <2>4. a \in 1..Len(line) /\ t \in a..Len(line) /\ (a = 1 \/ line[a - 1] = SPACE)
        /\ (\A j \in a..t : line[j] # SPACE) /\ (t = Len(line) \/ line[t + 1] = SPACE)
    BY <2>2, <2>3, <1>3 DEF a
  <2>5. <<a, t>> \in Runs
    BY <2>4, IsRun
  <2> QED  BY <2>5 DEF a
<1>6. ASSUME NEW q \in Runs, q[1] > i, q[1] <= t PROVE q = <<f + 1, t>>
  <2>1. /\ q[1] \in 1..Len(line) /\ q[2] \in q[1]..Len(line) /\ q = <<q[1], q[2]>>
        /\ \A j \in q[1]..q[2] : line[j] # SPACE
        /\ q[1] = 1 \/ line[q[1] - 1] = SPACE
        /\ q[2] = Len(line) \/ line[q[2] + 1] = SPACE
    BY RunIs
  <2> DEFINE u == q[1]
             v == q[2]
  <2>2. /\ u \in 1..Len(line) /\ v \in u..Len(line) /\ q = <<u, v>>
        /\ \A j \in u..v : line[j] # SPACE
        /\ u = 1 \/ line[u - 1] = SPACE
        /\ v = Len(line) \/ line[v + 1] = SPACE
        /\ u > f /\ u <= t
    BY <2>1, <1>4, <1>6
  <2> HIDE DEF u, v
  <2>3. u = f + 1
    <3> SUFFICES ASSUME u # f + 1 PROVE FALSE
      OBVIOUS
    <3>1. u - 1 \in (f + 1)..t /\ u # 1
      BY <2>2, <1>0, <1>2, <1>3
    <3>2. line[u - 1] # SPACE
      BY <3>1, <1>3
    <3> QED  BY <3>1, <3>2, <2>2
  <2>4. v <= t
    <3> SUFFICES ASSUME v > t PROVE FALSE
      BY <2>2, <1>0, <1>2, <1>3
    <3>1. t + 1 \in u..v /\ t # Len(line)
      BY <2>2, <1>0, <1>2, <1>3
    <3>2. line[t + 1] # SPACE
      BY <3>1, <2>2
    <3> QED  BY <3>1, <3>2, <1>3
  <2>5. v >= t
    <3> SUFFICES ASSUME v < t PROVE FALSE
      BY <2>2, <1>0, <1>2, <1>3
    <3>1. v + 1 \in (f + 1)..t /\ v # Len(line)
      BY <2>2, <1>0, <1>2, <1>3
    <3>2. line[v + 1] # SPACE
      BY <3>1, <1>3
    <3> QED  BY <3>1, <3>2, <2>2
  <2>6. v = t
    BY <2>2, <2>4, <2>5, <1>0, <1>2, <1>3
  <2> QED  BY <2>2, <2>3, <2>6
<1>7. \A q \in Runs : q[1] > i => q[1] > f
  BY <1>4
<1>8. \A q \in Runs : q[1] > i /\ q[1] <= t => q = <<f + 1, t>>
  BY <1>6
<1> QED  BY <1>1, <1>3, <1>5, <1>7, <1>8 DEF f, t

\* The next word is the (m + 1)-th, and is counted from then on.
LEMMA WordRank ==
  ASSUME line \in Seq(Char), NEW i \in 0..Len(line), NEW m \in Nat, Counted(i, m)
  PROVE  /\ Blanks(i) < Len(line) => <<Blanks(i) + 1, Word(Blanks(i))>> \in Ranked(m + 1)
         /\ Blanks(i) = Len(line) => Ranked(m + 1) = {}
         /\ Word(Blanks(i)) \in 0..Len(line)
         /\ Counted(Word(Blanks(i)), m + 1)
<1> DEFINE f == Blanks(i)
           t == Word(f)
           w == <<f + 1, t>>
           S == Before(i)
<1>0. Len(line) \in Nat /\ i \in Nat /\ i <= Len(line)
  OBVIOUS
<1>1. /\ i = 0 \/ i = Len(line) \/ line[i + 1] = SPACE
      /\ IsFiniteSet(S) /\ Cardinality(S) <= m
      /\ f < Len(line) => Cardinality(S) = m
  BY DEF Counted
<1>2. /\ f \in i..Len(line) /\ t \in f..Len(line)
      /\ \A q \in Runs : q[1] > i => q[1] > f
      /\ f < Len(line) => w \in Runs
      /\ \A q \in Runs : q[1] > i /\ q[1] <= t => q = w
      /\ t = Len(line) \/ line[t + 1] = SPACE
  BY <1>1, NextWord
<1>3. w[1] = f + 1
  OBVIOUS
<1> HIDE DEF f, t, w
<1>4. f \in Nat /\ t \in Nat /\ f <= t /\ i <= f /\ t <= Len(line)
  BY <1>0, <1>2
<1>5. \A q \in Runs : q[1] \in Nat /\ q[1] <= Len(line)
  <2> SUFFICES ASSUME NEW q \in Runs PROVE q[1] \in Nat /\ q[1] <= Len(line)
    OBVIOUS
  <2>1. q[1] \in 1..Len(line)
    BY RunIs
  <2> QED  BY <2>1, <1>0
<1>6. Cardinality(S) \in Nat
  BY <1>1, FS_CardinalityType
<1>7. f < Len(line) => w \in Ranked(m + 1)
  <2> SUFFICES ASSUME f < Len(line) PROVE w \in Ranked(m + 1)
    OBVIOUS
  <2>1. {p \in Runs : p[1] < w[1]} = S
    <3>1. ASSUME NEW p \in Runs PROVE p[1] < w[1] <=> p[1] <= i
      <4>1. p[1] \in Nat /\ (p[1] > i => p[1] > f)
        BY <1>2, <1>5
      <4> QED  BY ONLY <4>1, <1>3, <1>4, <1>0
    <3> QED  BY <3>1 DEF Before
  <2>2. Cardinality({p \in Runs : p[1] < w[1]}) = (m + 1) - 1
    <3>1. Cardinality(S) = m /\ (m + 1) - 1 = m
      BY <1>1
    <3> QED  BY ONLY <2>1, <3>1, Zenon
  <2> QED  BY <2>2, <1>2 DEF Ranked
<1>8. f = Len(line) => Ranked(m + 1) = {}
  <2> SUFFICES ASSUME f = Len(line), NEW q \in Ranked(m + 1) PROVE FALSE
    OBVIOUS
  <2> DEFINE P == {p \in Runs : p[1] < q[1]}
  <2>1. q \in Runs /\ Cardinality(P) = (m + 1) - 1
    BY DEF Ranked
  <2>2. \A p \in Runs : p[1] <= i
    <3> SUFFICES ASSUME NEW p \in Runs, ~(p[1] <= i) PROVE FALSE
      OBVIOUS
    <3>1. p[1] \in Nat /\ p[1] <= Len(line) /\ (p[1] > i => p[1] > f)
      BY <1>2, <1>5
    <3> QED  BY ONLY <3>1, f = Len(line), <1>0, ~(p[1] <= i)
  <2>3. q \in S /\ P \subseteq S
    BY <2>1, <2>2 DEF Before
  <2>4. q \notin P
    BY <2>1, <1>5
  <2> HIDE DEF P
  <2>5. Cardinality(P) <= Cardinality(S) /\ (Cardinality(P) = Cardinality(S) => P = S) /\ Cardinality(P) \in Nat
    BY <2>3, <1>1, FS_Subset, FS_CardinalityType
  <2>6. Cardinality(P) = Cardinality(S)
    BY ONLY <2>1, <2>5, <1>1, <1>6, m \in Nat
  <2> QED  BY <2>3, <2>4, <2>5, <2>6
<1>9. Counted(t, m + 1)
  <2> DEFINE B == Before(t)
  <2>1. CASE f < Len(line)
    <3>1. B = S \cup {w}
      <4>1. w \in Runs /\ w[1] <= t
        <5>1. w \in Runs
          BY <2>1, <1>2
        <5>2. w[1] <= t
          <6>1. w[2] = t /\ w[2] \in w[1]..Len(line) /\ w[1] \in 1..Len(line)
            BY <5>1, RunIs DEF w
          <6> QED  BY <6>1, <1>0
        <5> QED  BY <5>1, <5>2
      <4>2. \A q \in Runs : q[1] <= i => q[1] <= t
        BY <1>4, <1>5, <1>0
      <4>3. \A q \in Runs : q[1] <= t => q[1] <= i \/ q = w
        BY <1>2, <1>5, <1>0
      <4> QED  BY <4>1, <4>2, <4>3 DEF Before
    <3>2. w \notin S
      BY <1>3, <1>4, <1>0 DEF Before
    <3> HIDE DEF B, S
    <3>3. IsFiniteSet(B) /\ Cardinality(B) = Cardinality(S) + 1
      BY <3>1, <3>2, <1>1, FS_AddElement
    <3>4. Cardinality(B) = m + 1
      BY <3>3, <1>1, <2>1
    <3> QED  BY <3>3, <3>4, <1>2 DEF Counted, B
  <2>2. CASE f = Len(line)
    <3>1. t = Len(line)
      BY <2>2, <1>4, <1>0
    <3>2. B = S
      <4>1. \A q \in Runs : q[1] <= i
        <5> SUFFICES ASSUME NEW q \in Runs, ~(q[1] <= i) PROVE FALSE
          OBVIOUS
        <5>1. q[1] \in Nat /\ q[1] <= Len(line) /\ (q[1] > i => q[1] > f)
          BY <1>2, <1>5
        <5> QED  BY ONLY <5>1, <2>2, <1>0, ~(q[1] <= i)
      <4> QED  BY <4>1, <1>5, <3>1 DEF Before
    <3>3. Blanks(t) = Len(line)
      <4>1. t \in 0..Len(line)
        BY <3>1, <1>0
      <4>2. Blanks(t) \in t..Len(line)
        BY <4>1, BlanksIs
      <4> QED  BY <4>2, <3>1, <1>0
    <3>4. IsFiniteSet(B) /\ Cardinality(B) <= m + 1
      BY <3>2, <1>1, <1>6
    <3>5. ~(Blanks(t) < Len(line))
      BY <3>3, <1>0
    <3> QED  BY <3>1, <3>4, <3>5 DEF Counted
  <2> QED  BY <2>1, <2>2, <1>4, <1>0
<1>10. t \in 0..Len(line)
  BY <1>4, <1>0
<1> QED  BY <1>7, <1>8, <1>9, <1>10 DEF w, f, t

LEMMA WordsParsed ==
  ASSUME line \in Seq(Char)
  PROVE  ParsedFaithfully
<1>0. Len(line) \in Nat /\ 0 \in 0..Len(line)
  OBVIOUS
<1>1. Counted(0, 0)
  <2>1. Before(0) = {}
    <3> SUFFICES ASSUME NEW q \in Runs, q[1] <= 0 PROVE FALSE
      BY DEF Before
    <3>1. q[1] \in 1..Len(line)
      BY RunIs
    <3> QED  BY <3>1, <1>0
  <2>2. IsFiniteSet({}) /\ Cardinality({}) = 0
    BY FS_EmptySet
  <2>3. IsFiniteSet(Before(0)) /\ Cardinality(Before(0)) = 0
    BY <2>1, <2>2, Zenon
  <2> QED  BY ONLY <2>3 DEF Counted
<1>2. /\ From1 < Len(line) => <<From1 + 1, To1>> \in Ranked(1)
      /\ From1 = Len(line) => Ranked(1) = {}
      /\ To1 \in 0..Len(line) /\ Counted(To1, 1)
  BY <1>0, <1>1, WordRank, 0 \in Nat, 0 + 1 = 1 DEF From1, To1
<1>3. /\ From2 < Len(line) => <<From2 + 1, To2>> \in Ranked(2)
      /\ From2 = Len(line) => Ranked(2) = {}
      /\ To2 \in 0..Len(line) /\ Counted(To2, 2)
  BY <1>2, WordRank, 1 \in Nat, 1 + 1 = 2 DEF From2, To2
<1>4. /\ From3 < Len(line) => <<From3 + 1, Word(From3)>> \in Ranked(3)
      /\ From3 = Len(line) => Ranked(3) = {}
  BY <1>3, WordRank, 2 \in Nat, 2 + 1 = 3 DEF From3
<1>5. /\ From1 \in 0..Len(line) /\ To1 \in From1..Len(line) /\ From2 \in To1..Len(line)
      /\ To2 \in From2..Len(line) /\ From3 \in To2..Len(line)
      /\ parse_cmd[1] = SubSeq(line, From1 + 1, To1)
      /\ parse_cmd[2] = SubSeq(line, From2 + 1, To2)
      /\ parse_cmd[3] = SubSeq(line, From3 + 1, Len(line))
  BY PartsAre
<1>6. parse_cmd = <<parse_cmd[1], parse_cmd[2], parse_cmd[3]>>
  BY DEF parse_cmd
<1> DEFINE OrEmpty(S) == IF S = {} THEN {<<>>} ELSE S
<1>7. SubSeq(line, Len(line) + 1, Len(line)) = <<>>
  <2>1. SubSeq(line, Len(line) + 1, Len(line)) \in Seq(Char) /\ Len(SubSeq(line, Len(line) + 1, Len(line))) = Len(line) - Len(line)
    BY <1>0, PartOf, Len(line) \in Nat, Len(line) \in Len(line)..Len(line)
  <2> QED  BY <2>1, <1>0
<1>8. parse_cmd[1] \in OrEmpty(Run(1))
  <2>1. CASE From1 < Len(line)
    <3>1. SubSeq(line, From1 + 1, To1) \in Run(1)
      <4> DEFINE r == <<From1 + 1, To1>>
      <4>1. r \in Ranked(1) /\ r[1] = From1 + 1 /\ r[2] = To1
        BY <2>1, <1>2
      <4> HIDE DEF r
      <4>2. SubSeq(line, r[1], r[2]) \in Run(1)
        BY <4>1 DEF Run
      <4> QED  BY <4>1, <4>2
    <3> QED  BY <3>1, <1>5
  <2>2. CASE From1 = Len(line)
    <3>1. To1 = Len(line) /\ Ranked(1) = {}
      BY <2>2, <1>0, <1>2, <1>5
    <3>2. Run(1) = {}
      BY <3>1 DEF Run
    <3> QED  BY <3>1, <3>2, <2>2, <1>5, <1>7
  <2> QED  BY <2>1, <2>2, <1>0, <1>5
<1>9. parse_cmd[2] \in OrEmpty(Run(2))
  <2>1. CASE From2 < Len(line)
    <3>1. SubSeq(line, From2 + 1, To2) \in Run(2)
      <4> DEFINE r == <<From2 + 1, To2>>
      <4>1. r \in Ranked(2) /\ r[1] = From2 + 1 /\ r[2] = To2
        BY <2>1, <1>3
      <4> HIDE DEF r
      <4>2. SubSeq(line, r[1], r[2]) \in Run(2)
        BY <4>1 DEF Run
      <4> QED  BY <4>1, <4>2
    <3> QED  BY <3>1, <1>5
  <2>2. CASE From2 = Len(line)
    <3>1. To2 = Len(line) /\ Ranked(2) = {}
      BY <2>2, <1>0, <1>3, <1>5
    <3>2. Run(2) = {}
      BY <3>1 DEF Run
    <3> QED  BY <3>1, <3>2, <2>2, <1>5, <1>7
  <2> QED  BY <2>1, <2>2, <1>0, <1>2, <1>5
<1>10. parse_cmd[3] \in OrEmpty(Rest)
  <2>1. CASE From3 < Len(line)
    <3>1. SubSeq(line, From3 + 1, Len(line)) \in Rest
      <4> DEFINE r == <<From3 + 1, Word(From3)>>
      <4>1. r \in Ranked(3) /\ r[1] = From3 + 1
        BY <2>1, <1>4
      <4> HIDE DEF r
      <4>2. SubSeq(line, r[1], Len(line)) \in Rest
        BY <4>1 DEF Rest
      <4> QED  BY <4>1, <4>2
    <3> QED  BY <3>1, <1>5
  <2>2. CASE From3 = Len(line)
    <3>1. Rest = {}
      BY <2>2, <1>4 DEF Rest
    <3> QED  BY <3>1, <2>2, <1>5, <1>7
  <2> QED  BY <2>1, <2>2, <1>0, <1>3, <1>5
<1> QED  BY <1>6, <1>8, <1>9, <1>10 DEF ParsedFaithfully

\* Whatever line is typed, parse_cmd finds its first two words and leaves the
\* rest as it is.
THEOREM PartsFound == Spec => []ParsedFaithfully
<1>1. EInv => ParsedFaithfully
  BY WordsParsed DEF EInv, EditorOK
<1> QED  BY <1>1, EditorInvariance, PTL
=============================================================================
