------------------------------ MODULE Keyboard ------------------------------
(***************************************************************************)
(* The keyboard driver's data: the scan-code decoder (keyboard_handler and *)
(* keyboard_to_ascii) and the ring buffer kb_buffer of KB_BUFFER_SIZE      *)
(* characters.  Characters are the bytes the driver stores; 0 is "none".   *)
(* The glyph tables of io.c are the constant Glyph.                        *)
(***************************************************************************)
EXTENDS Integers

CONSTANTS
  KB_BUFFER_SIZE,   \* slots of kb_buffer; one always stays empty
  Glyph             \* <<scan code, shifted>> -> byte of the row tables in io.c

ScanCode == 0..255
Char     == 0..255

\* Scan codes the handler names.
EXTENDED_PREFIX == 224            \* 0xE0
ShiftMake       == {42, 54}       \* 0x2A, 0x36
ShiftBreak      == {170, 182}     \* 0xAA, 0xB6
SC_LEFT         == 75             \* 0x4B
SC_RIGHT        == 77             \* 0x4D
SC_UP           == 72             \* 0x48

\* The four rows of printable keys.
RowKeys == (2..11) \cup (16..27) \cup (30..39) \cup (44..51)

ASSUME KeyboardAssumption ==
  /\ KB_BUFFER_SIZE \in Nat /\ KB_BUFFER_SIZE > 1
  /\ Glyph \in [RowKeys \X BOOLEAN -> Char \ {0}]

keyboard_to_ascii(c, is_shifted) ==
  CASE c \in RowKeys -> Glyph[<<c, is_shifted # 0>>]
    [] c = 57        -> 32        \* 0x39: ' '
    [] c = 28        -> 10        \* 0x1C: '\n'
    [] c = 15        -> 9         \* 0x0F: '\t'
    [] c = 14        -> 14        \* 0x0E: backspace, passed through
    [] OTHER         -> 0

\* The character scan code c puts into the buffer, 0 if it puts none.
Decoded(c, extended, is_shifted) ==
  CASE c = EXTENDED_PREFIX \/ c \in ShiftMake \cup ShiftBreak -> 0
    [] extended /\ c = SC_LEFT  -> 1
    [] extended /\ c = SC_RIGHT -> 2
    [] extended /\ c = SC_UP    -> 3
    [] OTHER                    -> keyboard_to_ascii(c, is_shifted)

ExtendedAfter(c) == c = EXTENDED_PREFIX

\* Mutant: the break of the right shift key is missing.
ShiftAfter_left(c, is_shifted) ==
  CASE c \in ShiftMake  -> is_shifted + 1
    [] c = 170          -> is_shifted - 1
    [] OTHER            -> is_shifted

ShiftAfter(c, is_shifted) ==
  CASE c \in ShiftMake  -> is_shifted + 1
    [] c \in ShiftBreak -> is_shifted - 1
    [] OTHER            -> is_shifted

----------------------------------------------------------------------------
\* The ring buffer, as a record [buf, head, tail].

Slot == 0..(KB_BUFFER_SIZE - 1)
Ring == [buf: [Slot -> Char], head: Slot, tail: Slot]

EmptyRing == [buf |-> [i \in Slot |-> 0], head |-> 0, tail |-> 0]

\* Mutant: wraps one slot late.
NextSlotLate(i) == (i + 1) % (KB_BUFFER_SIZE + 1)

NextSlot(i) == (i + 1) % KB_BUFFER_SIZE

kb_buffer_put(r, c) ==
  IF NextSlot(r.head) # r.tail
  THEN [r EXCEPT !.buf = [@ EXCEPT ![r.head] = c], !.head = NextSlot(r.head)]
  ELSE r

\* Reading one character: the two places that do `kb_tail = (kb_tail+1) % N`.
kb_first(r) == r.buf[r.tail]
kb_drop(r)  == [r EXCEPT !.tail = NextSlot(r.tail)]

IsEmpty(r) == r.head = r.tail
=============================================================================
