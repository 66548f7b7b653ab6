------------------------------- MODULE KeyLine -------------------------------
(***************************************************************************)
(* The keyboard behind its interrupt line.  The keyboard sends a make code *)
(* when a key goes down, a break code when it comes up, and repeats the    *)
(* make code of the key pressed last for as long as it is held, a shift    *)
(* key like any other.  A code that gets to the front raises IRQ 1, once;  *)
(* the handler reads one code per interrupt, and counts shift keys.        *)
(*                                                                         *)
(* The person does not type between the loader's cli (bootentry.S:15) and  *)
(* the end of setupInterrupts.  The code does not cope with it: ICW1       *)
(* (interrupt_handlers.c:68) clears the request, nothing reads the code,   *)
(* and a controller that holds one raises no further request.              *)
(***************************************************************************)
EXTENDS Pic, Keyboard

CONSTANTS
  MaxWire,      \* bound: codes on their way
  MaxRepeats    \* bound: repeated shift codes

\* IRQ 1 is the keyboard's alone.
ASSUME LineAssumption == 1 \notin Lines /\ MaxWire \in Nat /\ MaxRepeats \in Nat

Make(k)  == k
Break(k) == k + 128
KeySet   == ShiftMake \cup {16}       \* the shift keys and a letter
NoKey    == 0

VARIABLES
  down,         \* keys held
  last,         \* the key that repeats
  wire,         \* codes the driver has not read
  repeats,      \* repeated shift codes read
  is_shifted

keyVars == <<down, last, wire, repeats, is_shifted>>
vars    == <<picVars, keyVars>>

Init ==
  /\ PicInit
  /\ down = {} /\ last = NoKey /\ wire = <<>> /\ repeats = 0 /\ is_shifted = 0

Send(c) ==
  /\ phase # "setup" /\ Len(wire) < MaxWire
  /\ wire' = Append(wire, c)
  /\ irr' = IF wire = <<>> THEN [irr EXCEPT !["master"] = @ \cup {1}] ELSE irr
  /\ UNCHANGED <<pc, phase, ints, icw, base, imr, isr, taken, is_shifted>>

Press(k) ==
  /\ k \notin down /\ down' = down \cup {k} /\ last' = k
  /\ Send([code |-> Make(k), again |-> FALSE]) /\ UNCHANGED repeats

Release(k) ==
  /\ k \in down /\ down' = down \ {k} /\ last' = IF last = k THEN NoKey ELSE last
  /\ Send([code |-> Break(k), again |-> FALSE]) /\ UNCHANGED repeats

Repeat ==
  /\ last # NoKey /\ repeats < MaxRepeats
  /\ Send([code |-> Make(last), again |-> TRUE]) /\ UNCHANGED <<down, last, repeats>>

keyboard_handler ==
  LET c == Head(wire)
  IN  /\ taken = \h21 /\ taken' = -1
      /\ wire' = Tail(wire)
      /\ is_shifted' = ShiftAfter(c.code, is_shifted)
      /\ repeats' = repeats + (IF c.again /\ c.code \in ShiftMake THEN 1 ELSE 0)
      /\ irr' = IF wire' = <<>> THEN irr ELSE [irr EXCEPT !["master"] = @ \cup {1}]
      /\ EndOfInterrupt
      /\ UNCHANGED <<pc, phase, ints, icw, base, imr, down, last>>

Next ==
  \/ (Processor \/ Acknowledge \/ time_handler) /\ UNCHANGED keyVars
  \/ (\E line \in Lines : Raise(line)) /\ UNCHANGED keyVars
  \/ \E k \in KeySet : Press(k) \/ Release(k)
  \/ Repeat
  \/ keyboard_handler

Spec == Init /\ [][Next]_vars

AcknowledgeKey == Acknowledge /\ taken' = \h21 /\ UNCHANGED keyVars

\* The processor goes on; devices may be silent.  Ticks are 10 ms apart and a
\* handler takes microseconds: again and again none is waiting, and one does
\* not always come first.
FairSpec ==
  /\ Spec
  /\ WF_vars((Processor \/ Acknowledge \/ time_handler) /\ UNCHANGED keyVars)
  /\ WF_vars(keyboard_handler)
  /\ []<>(taken = -1 /\ 0 \notin irr["master"]) /\ SF_vars(AcknowledgeKey)

----------------------------------------------------------------------------
\* The report: "The only IRQs that we unmask are the clock and keyboard
\* inputs."  Whatever the devices do, no other vector ever reaches the
\* processor, none before the shell asks for it, and none for a key without
\* a code to read; although the slave, whose ICW2 goes to the wrong port,
\* takes the last words of setupPIC for others than the comments say and is
\* not masked.
OnlyClockAndKeyboard ==
  taken # -1 =>
    /\ taken \in {\h20, \h21} /\ phase = "open"
    /\ taken = \h21 => wire # <<>>

\* `is_shifted', as keyboard_to_ascii tests it: once the driver has read all
\* codes it is the number of shift keys held, in whatever order the two go
\* down and up, and one more for every time a held one repeated.
ShiftTracked ==
  wire = <<>> => is_shifted = Cardinality(down \cap ShiftMake) + repeats

\* A tick is always served and no code is stuck: the request that announces
\* it, raised once, survives masks, ticks, other codes and requests of the
\* slave until its handler runs.
RequestsServed ==
  /\ (0 \in irr["master"] /\ phase = "open") ~> (taken = \h20)
  /\ (wire # <<>> /\ phase = "open") ~> (taken = \h21)
=============================================================================
