------------------------------- MODULE System -------------------------------
(***************************************************************************)
(* The whole machine: the kernel, the programs in user mode, the timer and *)
(* the person at the keyboard.                                             *)
(*                                                                         *)
(* The userspace is built without optimisation, so the shell's             *)
(*     if (process0_running)                                               *)
(* is a load into %eax and a test of %eax; the two are separate steps here *)
(* because an interrupt can come between them.                             *)
(***************************************************************************)
EXTENDS Kernel

CONSTANTS
  Commands,       \* commands the person may enter
  ScanCodes,      \* scan codes the person at the keyboard may produce
  I8042_SIZE,     \* bound: scan codes the controller holds
  MaxShift,       \* bound: shift keys held down
  TypeAhead       \* TRUE: keys may come at any time; FALSE: one by one, and
                  \* only before the shell first slept or while it sleeps

ASSUME SystemAssumption ==
  /\ Commands \subseteq AllCommands
  /\ ScanCodes \subseteq ScanCode
  /\ I8042_SIZE \in Nat \ {0}
  /\ MaxShift \in Nat
  /\ TypeAhead \in BOOLEAN

VARIABLE running   \* process0_running, process1_running in the shell's memory

vars == <<kernelVars, running>>

----------------------------------------------------------------------------
\* User instructions.

At(l) == mode = "user" /\ cpu.rip = l

Goto(l) == cpu' = [cpu EXCEPT !.rip = l]

UserStep == UNCHANGED <<statusVars, procs, current, reschedule, keyboardVars,
                        memoryVars, picVars, i8042>>

dummy_loop ==
  /\ At("dummy_loop") /\ UserStep
  /\ \E l \in {"dummy_print", "dummy_yield"} : Goto(l)
  /\ UNCHANGED running

NEWLINE == 10

\* process_main with the character in %al: any key but return is echoed or
\* only moves the cursor; return runs the command on the line.
shell_key ==
  /\ At("sh_got") /\ cpu.rax # NEWLINE /\ UserStep
  /\ \E l \in {"sh_echo", "sh_cursor"} : Goto(l)
  /\ UNCHANGED running

shell_command ==
  /\ At("sh_got") /\ cpu.rax = NEWLINE /\ UserStep
  /\ \/ \E l \in Commands \ ProcessCommands : Goto(l)
     \/ \E p \in Startable, l \in Commands \cap ProcessCommands :
          cpu' = [cpu EXCEPT !.rip = l, !.rdi = p]
  /\ UNCHANGED running

\* mov processN_running, %eax
shell_load ==
  /\ UserStep
  /\ \/ /\ At("sh_start_load")
        /\ cpu' = [cpu EXCEPT !.rax = running[cpu.rdi], !.rip = "sh_start_test"]
     \/ /\ At("sh_stop_load")
        /\ cpu' = [cpu EXCEPT !.rax = running[cpu.rdi], !.rip = "sh_stop_test"]
  /\ UNCHANGED running

\* test %eax, %eax; je
shell_start_test ==
  /\ At("sh_start_test") /\ UserStep
  /\ IF cpu.rax # 0
     THEN Goto("sh_prompt") /\ UNCHANGED running
     ELSE Goto("sh_sys_start") /\ running' = [running EXCEPT ![cpu.rdi] = 1]

\* Mutant: the flag is not reset.
shell_stop_test_no_reset ==
  /\ At("sh_stop_test") /\ UserStep
  /\ IF cpu.rax = 0 THEN Goto("sh_prompt") ELSE Goto("sh_sys_stop")
  /\ UNCHANGED running

shell_stop_test ==
  /\ At("sh_stop_test") /\ UserStep
  /\ IF cpu.rax = 0
     THEN Goto("sh_prompt") /\ UNCHANGED running
     ELSE Goto("sh_sys_stop") /\ running' = [running EXCEPT ![cpu.rdi] = 0]

\* sys_ls and ind_of_file_in_current_directory call list_files until -1.
shell_ls_test ==
  /\ At("sh_ls_test") /\ UserStep
  /\ IF cpu.rax = -1 THEN Goto("sh_prompt") ELSE Goto("sh_ls")
  /\ UNCHANGED running

\* Then mkdir, cd, rm, read or write, or a message refusing it; write first
\* removes a file of that name.
shell_find_test ==
  /\ At("sh_find_test") /\ UserStep
  /\ IF cpu.rax # -1
     THEN Goto("sh_find")
     ELSE \E l \in {"sh_prompt", "sh_mkdir", "sh_cd", "sh_rm", "sh_rm_old",
                    "sh_read", "sh_write"} : Goto(l)
  /\ UNCHANGED running

Shell == \/ shell_key \/ shell_command \/ shell_load \/ shell_start_test
         \/ shell_stop_test \/ shell_ls_test \/ shell_find_test

----------------------------------------------------------------------------
\* The person at the keyboard: a scan code reaches the controller.  Before
\* setupInterrupts nobody types: the request would be dropped by ICW1, see
\* KeyLine.

MayType ==
  \/ TypeAhead
  \/ /\ i8042 = <<>>
     /\ keyboard_waiting = NULL \/ procs[P_SHELL].state = P_BLOCKED

KeyTyped ==
  /\ mode \notin {"init_virtual_memory", "setupInterrupts", "halted"}
  /\ MayType /\ Len(i8042) < I8042_SIZE
  /\ \E c \in ScanCodes :
       /\ (c \in ShiftMake => is_shifted < MaxShift)
       /\ (c \in ShiftBreak => is_shifted > 0)
       /\ i8042' = Append(i8042, c)
  /\ UNCHANGED <<statusVars, procVars, keyboardVars, memoryVars, picVars, running>>

----------------------------------------------------------------------------
SysInit == Init /\ running = [p \in Startable |-> 0]

\* The shell's memory is only written by the shell, and by load_process when
\* it copies the program.
KernelStep == (Boot \/ Syscall \/ time_handler \/ keyboard_handler)
              /\ UNCHANGED running

Next == \/ KernelStep
        \/ dummy_loop
        \/ Shell
        \/ KeyTyped
        \/ Halted /\ UNCHANGED running

Spec == SysInit /\ [][Next]_vars

\* Fairness: kernel() runs to completion, the processor executes the shell's
\* first instruction while everything is masked, the PIT ticks for ever, and
\* the PIC keeps a pending keyboard IRQ until it is served.  Nothing is
\* assumed of the person at the keyboard.
FairSpec ==
  /\ Spec
  /\ WF_vars(Boot /\ UNCHANGED running)
  /\ WF_vars(sys_enable_kb_tim /\ UNCHANGED running)
  /\ WF_vars(time_handler /\ UNCHANGED running)
  /\ WF_vars(keyboard_handler /\ UNCHANGED running)

----------------------------------------------------------------------------
\* Type correctness of the kernel, the keyboard, the memory and the shell: in
\* particular the ring's indices stay inside the ring.
TypeOK ==
  /\ mode \in BootSteps \cup {"user", "halted"}
  /\ failed \in Messages
  /\ procs \in [ProcId -> Proc]
  /\ current \in ProcId \cup {NULL}
  /\ reschedule \in {0, 1}
  /\ cpu \in Reg
  /\ kb \in Ring
  /\ extended \in BOOLEAN /\ is_shifted \in Int
  /\ keyboard_waiting \in ProcId \cup {NULL}
  /\ frames_info \in [Frame -> FrameInfo]
  /\ pagetable \in [Frame -> SUBSET Flags]
  /\ imr \in SUBSET IRQ /\ isr \in SUBSET IRQ
  /\ i8042 \in Seq(ScanCode)
  /\ running \in [Startable -> {0, 1}]

\* The process the processor executes is runnable, and it is the idle
\* process only when no other process is: every path that makes a process
\* runnable (wake-up, start) or stops one goes through schedule() or leaves
\* a runnable process running.
ScheduledRunnable ==
  mode = "user" =>
    /\ procs[current].state = P_RUNNABLE
    /\ current = P_IDLE => \A p \in ProcId \ {P_IDLE} :
                             procs[p].state # P_RUNNABLE

\* No lost wake-up: a process that sleeps in getchar is the one the keyboard
\* handler will wake, and there is no character it could have had.
NoLostWakeup ==
  \A p \in ProcId : procs[p].state = P_BLOCKED =>
    keyboard_waiting = p /\ IsEmpty(kb)

\* Every page a process can reach belongs to the slot of the process that
\* owns its frame, is counted once, and is neither kernel nor reserved
\* memory, however often programs are started and stopped.
UserPagesOwned ==
  \A f \in Frame : PTE_U \in pagetable[f] =>
    \E p \in ProcId : /\ f \in slot_pages(p)
                      /\ frames_info[f] = [owner |-> p, refcount |-> 1]

\* A process's registers are its own: a step of another process, or an
\* interrupt that finds another process running, changes nothing in the
\* saved registers of a process that has been started, except that the
\* keyboard handler gives a character to the process it knows of.
ContextIntegrity ==
  [][\A p \in ProcId \ {current} :
       current # NULL /\ procs[p].state # P_FREE =>
         \/ procs'[p].reg = procs[p].reg
         \/ /\ p = keyboard_waiting
            /\ \E c \in Char : procs'[p].reg = [procs[p].reg EXCEPT !.rax = c]
    ]_vars

\* exception() dereferences current: no interrupt may be deliverable before
\* the first process runs.
InterruptsNeedProcess ==
  (cpu.ints /\ imr # IRQ) => current # NULL

\* The assertions of sys_start and sys_stop never fail: the shell's flags
\* and the kernel's process table agree whenever it matters.
AssertionsHold ==
  failed \notin {"Not a startable process", "Start: already running",
                 "Not a stoppable process", "Stop: not running"}

\* schedule() starves nobody: a runnable process gets the processor, unless
\* it is stopped first or the kernel halts.
RoundRobin ==
  \A p \in ProcId \ {P_IDLE} :
    (mode = "user" /\ procs[p].state = P_RUNNABLE)
      ~> (current = p \/ procs[p].state # P_RUNNABLE \/ mode = "halted")

\* A key that decodes to a character and waits in the controller while the
\* shell is blocked gets the shell running.
KeyWakesShell ==
  (procs[P_SHELL].state = P_BLOCKED /\ i8042 # <<>>
     /\ Decoded(Head(i8042), extended, is_shifted) # 0)
    ~> (current = P_SHELL \/ mode = "halted")
----------------------------------------------------------------------------
\* The keyboard path implements KeyService.

\* The shell's registers, live or saved.
ShellReg == IF current = P_SHELL THEN cpu ELSE procs[P_SHELL].reg

\* The ring buffer as a sequence.
Queue == [i \in 1..((kb.head - kb.tail) % KB_BUFFER_SIZE) |->
            kb.buf[(kb.tail + i - 1) % KB_BUFFER_SIZE]]

Asleep == procs[P_SHELL].state = P_BLOCKED

Hand == IF ShellReg.rip = "sh_got" /\ ~Asleep THEN ShellReg.rax ELSE 0

KS == INSTANCE KeyService WITH
        pending <- i8042, ext <- extended, shift <- is_shifted,
        queue <- Queue, hand <- Hand, asleep <- Asleep

\* Every key pressed reaches the shell once and in order, unless the buffer
\* is full: interrupts, the ring, blocking and waking implement KeyService.
KeyServiceRefined == KS!KSSpec
=============================================================================
