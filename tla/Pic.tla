--------------------------------- MODULE Pic ---------------------------------
(***************************************************************************)
(* The two interrupt controllers as setupPIC and the shell's first system  *)
(* call program them, one outb at a time; lines may rise at any moment.    *)
(* The controllers themselves are hardware: the 8259's reaction to each    *)
(* write.  Module KeyLine adds the keyboard and the handlers.              *)
(*                                                                         *)
(* Kernel assumes of all this that, after setupInterrupts, every IRQ of    *)
(* the master is masked, and after sys_enable_kb_tim all but two.          *)
(***************************************************************************)
EXTENDS Integers, Sequences, FiniteSets

CONSTANTS
  Lines,     \* IRQ lines that devices drive
  BiosBase   \* chip -> vector base the firmware left

Chips == {"master", "slave"}
IRQ   == 0..7
Byte  == 0..255

ASSUME PicAssumption == Lines \subseteq 0..15 /\ BiosBase \in [Chips -> Byte]

VARIABLES
  pc,         \* outbs still to do in this phase
  phase,      \* "setup", "masked" (boot goes on), "enable", "open"
  ints,       \* EFLAGS_IF
  icw,        \* chip -> the initialisation word it waits for, 0 if none
  base,       \* chip -> vector of its IRQ 0
  imr,        \* chip -> masked IRQs
  irr,        \* chip -> requested IRQs
  isr,        \* chip -> IRQs in service
  taken       \* vector the processor is handling, -1 if none

chipVars == <<icw, base, imr, irr, isr>>
picVars  == <<pc, phase, ints, chipVars, taken>>

Out(port, value) == [port |-> port, value |-> value]

\* The writes of setupPIC to the controllers (those to the timer left out).
setupPIC ==
  << Out("20", \h11), Out("A0", \h11), Out("21", \h20), Out("20", \h28),
     Out("21", \h04), Out("A1", \h02), Out("21", \h01), Out("A1", \h01),
     Out("21", \hFF), Out("A1", \hFF) >>

\* Mutant: the cascade and the disk's line are opened, too.
enable_kb_tim_disk == << Out("21", \hF8), Out("A1", \hBF) >>

\* Those of SYS_ENABLE_KB_TIM_INT.
enable_kb_tim == << Out("21", \hFC), Out("A1", \hFF) >>

PicInit ==
  /\ pc = setupPIC /\ phase = "setup" /\ ints = FALSE
  /\ icw = [c \in Chips |-> 0] /\ base = BiosBase
  /\ imr \in [Chips -> {{}, IRQ}] /\ irr = [c \in Chips |-> {}]
  /\ isr = [c \in Chips |-> {}]
  /\ taken = -1

----------------------------------------------------------------------------
\* The 8259.  D4 set on the even port begins the initialisation; the words
\* that follow come on the odd port, which later is the mask.

Weight  == <<1, 2, 4, 8, 16, 32, 64, 128>>
Bits(v) == {i \in IRQ : (v \div Weight[i + 1]) % 2 = 1}

Even(c, v) ==
  \/ /\ 4 \in Bits(v)
     /\ icw' = [icw EXCEPT ![c] = 2]
     /\ imr' = [imr EXCEPT ![c] = {}]
     /\ irr' = [irr EXCEPT ![c] = {}] /\ isr' = [isr EXCEPT ![c] = {}]
     /\ UNCHANGED base
  \/ /\ 4 \notin Bits(v)          \* OCW3, no effect here
     /\ UNCHANGED chipVars

Odd(c, v) ==
  \/ /\ icw[c] = 0 /\ imr' = [imr EXCEPT ![c] = Bits(v)]
     /\ UNCHANGED <<icw, base>>
  \/ /\ icw[c] = 2 /\ base' = [base EXCEPT ![c] = v - (v % 8)]
     /\ icw' = [icw EXCEPT ![c] = 3] /\ UNCHANGED imr
  \/ /\ icw[c] = 3 /\ icw' = [icw EXCEPT ![c] = 4] /\ UNCHANGED <<base, imr>>
  \/ /\ icw[c] = 4 /\ icw' = [icw EXCEPT ![c] = 0] /\ UNCHANGED <<base, imr>>

Chip(port) == IF port \in {"20", "21"} THEN "master" ELSE "slave"

outb ==
  /\ pc # <<>> /\ taken = -1
  /\ pc' = Tail(pc)
  /\ LET o == Head(pc)
     IN  \/ o.port \in {"20", "A0"} /\ Even(Chip(o.port), o.value)
         \/ /\ o.port \in {"21", "A1"} /\ Odd(Chip(o.port), o.value)
            /\ UNCHANGED <<irr, isr>>
  /\ UNCHANGED <<phase, ints, taken>>

Raise(line) ==
  /\ irr' = LET c == IF line < 8 THEN "master" ELSE "slave"
            IN  [irr EXCEPT ![c] = @ \cup {line % 8}]
  /\ UNCHANGED <<pc, phase, ints, icw, base, imr, isr, taken>>

\* What a chip asks for: unmasked requests above everything in service.
Asks(c) == {i \in irr[c] \ imr[c] : icw[c] = 0 /\ \A j \in isr[c] : i < j}

\* The slave's request is the master's IRQ 2.
MasterAsks ==
  {i \in (irr["master"] \cup IF Asks("slave") # {} THEN {2} ELSE {}) \ imr["master"] :
     icw["master"] = 0 /\ \A j \in isr["master"] : i < j}

Least(S) == CHOOSE i \in S : \A j \in S : i <= j

\* The processor acknowledges; in a handler interrupts are off.
Acknowledge ==
  LET i == Least(MasterAsks)
      viaSlave == i = 2 /\ Asks("slave") # {}
      c == IF viaSlave THEN "slave" ELSE "master"
      k == IF viaSlave THEN Least(Asks("slave")) ELSE i
  IN  /\ ints /\ taken = -1 /\ MasterAsks # {}
      /\ taken' = base[c] + k
      /\ irr' = [irr EXCEPT ![c] = @ \ {k}]
      /\ isr' = [isr EXCEPT !["master"] = @ \cup {i}, ![c] = @ \cup {k}]
      /\ UNCHANGED <<pc, phase, ints, icw, base, imr>>

----------------------------------------------------------------------------
\* lidt and sti once setupPIC is done.
setupInterrupts ==
  /\ phase = "setup" /\ pc = <<>>
  /\ phase' = "masked" /\ ints' = TRUE
  /\ UNCHANGED <<pc, chipVars, taken>>

\* The shell's `int $0x87', an interrupt gate.
sys_enable_kb_tim ==
  /\ phase = "masked" /\ taken = -1
  /\ phase' = "enable" /\ pc' = enable_kb_tim /\ ints' = FALSE
  /\ UNCHANGED <<chipVars, taken>>

exception_return ==
  /\ phase = "enable" /\ pc = <<>>
  /\ phase' = "open" /\ ints' = TRUE
  /\ UNCHANGED <<pc, chipVars, taken>>

\* Mutant: the handlers do not signal the end of the interrupt.
EndOfInterrupt_missing == UNCHANGED isr

\* outb(0x20, 0x20) in time_handler and keyboard_handler.
EndOfInterrupt ==
  isr' = [isr EXCEPT !["master"] = @ \ {i \in @ : \A j \in @ : i <= j}]

time_handler ==
  /\ taken = \h20 /\ taken' = -1
  /\ EndOfInterrupt
  /\ UNCHANGED <<pc, phase, ints, icw, base, imr, irr>>

Processor == outb \/ setupInterrupts \/ sys_enable_kb_tim \/ exception_return

=============================================================================
