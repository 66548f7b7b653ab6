----------------------------- MODULE KeyService -----------------------------
(***************************************************************************)
(* What the keyboard path promises to the program that calls getchar: the  *)
(* characters of the keys pressed, each one once and in order, except that *)
(* a character that finds the buffer full is dropped.  No ring, no         *)
(* processes, no interrupts; module System is shown to implement this when *)
(* keys only come while the reader can take them (TypeAhead = FALSE).      *)
(***************************************************************************)
EXTENDS Keyboard, Sequences

CONSTANT ScanCodes   \* scan codes the keyboard produces

VARIABLES
  pending,   \* scan codes not yet served
  ext,       \* the last scan code was the prefix
  shift,     \* shift keys down
  queue,     \* characters nobody has read
  hand,      \* the character the reader was given and has not acted on, or 0
  asleep     \* the reader waits for a character

ksVars == <<pending, ext, shift, queue, hand, asleep>>

Capacity == KB_BUFFER_SIZE - 1

KSInit == /\ pending = <<>> /\ ext = FALSE /\ shift = 0
          /\ queue = <<>> /\ hand = 0 /\ asleep = FALSE

Press(c) == /\ pending' = Append(pending, c)
            /\ UNCHANGED <<ext, shift, queue, hand, asleep>>

\* The character the oldest scan code stands for, 0 if none.
Ch == Decoded(Head(pending), ext, shift)

\* Serving that scan code.
Serve == /\ pending # <<>>
         /\ pending' = Tail(pending)
         /\ ext' = ExtendedAfter(Head(pending))
         /\ shift' = ShiftAfter(Head(pending), shift)

Silent == Serve /\ Ch = 0 /\ UNCHANGED <<queue, hand, asleep>>

Wake == /\ Serve /\ Ch # 0 /\ asleep /\ queue = <<>>
        /\ hand' = Ch /\ asleep' = FALSE /\ UNCHANGED queue

Enqueue == /\ Serve /\ Ch # 0 /\ ~asleep /\ Len(queue) < Capacity
           /\ queue' = Append(queue, Ch) /\ UNCHANGED <<hand, asleep>>

Overflow == /\ Serve /\ Ch # 0 /\ ~asleep /\ Len(queue) = Capacity
            /\ UNCHANGED <<queue, hand, asleep>>

Read == /\ ~asleep /\ hand = 0 /\ queue # <<>>
        /\ hand' = Head(queue) /\ queue' = Tail(queue)
        /\ UNCHANGED <<pending, ext, shift, asleep>>

Sleep == /\ ~asleep /\ hand = 0 /\ queue = <<>>
         /\ asleep' = TRUE
         /\ UNCHANGED <<pending, ext, shift, queue, hand>>

Act == /\ hand # 0 /\ hand' = 0
       /\ UNCHANGED <<pending, ext, shift, queue, asleep>>

KSNext == \/ \E c \in ScanCodes : Press(c)
          \/ Silent \/ Wake \/ Enqueue \/ Overflow
          \/ Read \/ Sleep \/ Act

KSSpec == KSInit /\ [][KSNext]_ksVars
=============================================================================
