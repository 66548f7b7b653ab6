------------------------------- MODULE Kernel -------------------------------
(***************************************************************************)
(* The kernel proper: kernel()'s boot sequence, the process table, the     *)
(* round-robin scheduler, the exception path every interrupt and system    *)
(* call goes through, and the keyboard driver.                             *)
(*                                                                         *)
(* The machine has one processor and every gate is an interrupt gate       *)
(* (type_attr 0x8E), so a handler runs with interrupts off from the entry  *)
(* stub to the iretq in exception_return: each handler is one action.      *)
(* Interrupts arrive between any two user instructions.                    *)
(***************************************************************************)
EXTENDS Integers, Sequences, Keyboard, VirtualMemory

CONSTANTS
  FileIndex       \* indices list_files may return (besides -1)

ASSUME FileIndexAssumption == FileIndex \subseteq Nat

VARIABLES
  mode,             \* next call of kernel(), "user", or "halted" (in fail)
  failed,           \* the message fail() shows, "none" before
  procs,            \* id -> [state, reg]
  current,          \* id of the running process, NULL before the first run
  reschedule,       \* the flag exception() tests on its way out
  cpu,              \* live registers
  kb,               \* kb_buffer, kb_head, kb_tail
  extended,         \* a 0xE0 prefix was read
  is_shifted,       \* shift keys pressed minus shift keys released
  keyboard_waiting, \* process that blocked in getchar, NULL before the first
  frames_info,      \* frame -> [owner, refcount]
  pagetable,        \* page -> flags of its entry
  imr,              \* master PIC: masked IRQs
  isr,              \* master PIC: IRQs in service
  i8042             \* scan codes the keyboard controller holds (hardware)

procVars     == <<procs, current, reschedule, cpu>>
keyboardVars == <<kb, extended, is_shifted, keyboard_waiting>>
memoryVars   == <<frames_info, pagetable>>
picVars      == <<imr, isr>>
statusVars   == <<mode, failed>>
kernelVars   == <<statusVars, procVars, keyboardVars, memoryVars, picVars, i8042>>

----------------------------------------------------------------------------
NULL == -1

P_FREE     == 0
P_RUNNABLE == 1
P_BLOCKED  == -1
PState     == {P_FREE, P_RUNNABLE, P_BLOCKED}

\* Saved registers.  The others are saved and restored alike and carry
\* nothing the kernel looks at; rdi is the operand of the current command,
\* ints is EFLAGS_IF.
Reg  == [rax: Int, rdi: Int, rip: Labels \cup {"null"}, ints: BOOLEAN]
Proc == [state: PState, reg: Reg]

IRQ       == 0..7
IRQ_TIMER == 0
IRQ_KB    == 1

BootSteps == {"init_virtual_memory", "setupInterrupts", "setupDrive",
              "init_processes", "launch_shell"}
DriveMessages == {"No disk found", "No partition found on the disk",
                  "Invalid partition", "sectors of 512 bytes only"}
Messages  == {"none", "Not a startable process", "Start: already running",
              "Not a stoppable process", "Stop: not running",
              "no new cluster can be allocated"} \cup DriveMessages

\* static storage is zero; the boot loader enters with interrupts off and
\* says nothing of the PIC.
Init ==
  /\ mode = "init_virtual_memory" /\ failed = "none"
  /\ procs = [p \in ProcId |->
                [state |-> P_FREE,
                 reg   |-> [rax |-> 0, rdi |-> 0, rip |-> "null", ints |-> FALSE]]]
  /\ current = NULL /\ reschedule = 0
  /\ cpu = [rax |-> 0, rdi |-> 0, rip |-> "null", ints |-> FALSE]
  /\ kb = EmptyRing /\ extended = FALSE /\ is_shifted = 0
  /\ keyboard_waiting = NULL
  /\ frames_info = [f \in Frame |-> [owner |-> PO_FREE, refcount |-> 0]]
  /\ pagetable = [f \in Frame |-> {}]
  /\ imr \in {{}, IRQ} /\ isr = {} /\ i8042 = <<>>

\* fail(): show the message, then spin for ever with nothing restored.
Fail(msg) == mode' = "halted" /\ failed' = msg

----------------------------------------------------------------------------
\* Processes (kernel/process.c).

\* init_process for every entry, after the memset of procs.
FreshProcs ==
  [p \in ProcId |->
     [state |-> P_FREE,
      reg   |-> [rax |-> 0, rdi |-> 0, rip |-> "null", ints |-> TRUE]]]

\* load_process: entry point, stack and state.  The other saved registers
\* keep what an earlier run of the slot left in them.
Loaded(ps, p, prog) ==
  [ps EXCEPT ![p] = [state |-> P_RUNNABLE,
                     reg   |-> [@.reg EXCEPT !.rip = Entry(prog)]]]

MapProgram(p, prog) ==
  /\ pagetable' = map_pages(pagetable, loaded_pages(p, prog), Flags)
  /\ frames_info' = assign_physical_pages(frames_info, loaded_pages(p, prog), p)

\* procs[p].state = st; and procs[p].reg.reg_rax = v.
WithState(ps, p, st) == [ps EXCEPT ![p].state = st]
WithRax(ps, p, v)    == [ps EXCEPT ![p].reg.rax = v]

\* One turn of the loop in schedule(): the next id, never 0.
NextId(id) == LET n == (id + 1) % PROC_NUMBER IN IF n = 0 THEN 1 ELSE n

\* The id that loop has reached after k >= 1 turns from id: Visit(id, 1) is
\* NextId(id) and Visit(id, k + 1) is NextId(Visit(id, k)).
Visit(id, k) == 1 + ((id + k - 1) % (PROC_NUMBER - 1))

\* Mutants: the loop is three turns short, or starts at process 1 every time.
schedule_short(ps, id) ==
  LET hits == {k \in 1..(PROC_NUMBER - 2) :
                 ps[Visit(id, k)].state = P_RUNNABLE}
  IN  IF hits = {} THEN P_IDLE
      ELSE Visit(id, CHOOSE k \in hits : \A j \in hits : k <= j)

schedule_from_first(ps, id) ==
  LET hits == {p \in ProcId \ {P_IDLE} : ps[p].state = P_RUNNABLE}
  IN  IF hits = {} THEN P_IDLE
      ELSE CHOOSE p \in hits : \A q \in hits : p <= q

\* The process schedule() runs: the first runnable one of PROC_NUMBER + 1
\* turns of the loop, the idle process if there is none.
schedule(ps, id) ==
  LET hits == {k \in 1..(PROC_NUMBER + 1) :
                 ps[Visit(id, k)].state = P_RUNNABLE}
  IN  IF hits = {} THEN P_IDLE
      ELSE Visit(id, CHOOSE k \in hits : \A j \in hits : k <= j)

\* run(&procs[p]): never returns; the processor gets p's saved registers.
run(ps, p) ==
  /\ procs' = ps
  /\ current' = p
  /\ cpu' = ps[p].reg

----------------------------------------------------------------------------
\* Boot (kernel/kernel.c), one action per call that changes kernel state.

init_virtual_memory ==
  /\ mode = "init_virtual_memory"
  /\ pagetable' = kernel_pagetable
  /\ frames_info' = init_framing
  /\ mode' = "setupInterrupts"
  /\ UNCHANGED <<failed, procVars, keyboardVars, picVars, i8042>>

\* Mutant: setupPIC does not mask.
setupInterrupts_unmasked ==
  /\ mode = "setupInterrupts"
  /\ imr' = {} /\ isr' = {}
  /\ cpu' = [cpu EXCEPT !.ints = TRUE]
  /\ mode' = "setupDrive"
  /\ UNCHANGED <<failed, procs, current, reschedule, keyboardVars, memoryVars,
                 i8042>>

\* setupPIC ends by masking every IRQ of the master; then lidt and sti.
setupInterrupts ==
  /\ mode = "setupInterrupts"
  /\ imr' = IRQ /\ isr' = {}
  /\ cpu' = [cpu EXCEPT !.ints = TRUE]
  /\ mode' = "setupDrive"
  /\ UNCHANGED <<failed, procs, current, reschedule, keyboardVars, memoryVars,
                 i8042>>

\* The drive, its partition table and its boot sector are the hardware's;
\* what setupDrive keeps of them is read by the file system only.  That its
\* wait may never end (disk.c:17) is in Ata; here it comes to an end.
setupDrive ==
  /\ mode = "setupDrive"
  /\ \/ mode' = "init_processes" /\ UNCHANGED failed
     \/ \E msg \in DriveMessages : Fail(msg)
  /\ UNCHANGED <<procVars, keyboardVars, memoryVars, picVars, i8042>>

init_processes ==
  /\ mode = "init_processes"
  /\ procs' = Loaded(FreshProcs, P_IDLE, P_IDLE)
  /\ MapProgram(P_IDLE, P_IDLE)
  /\ mode' = "launch_shell"
  /\ UNCHANGED <<failed, current, reschedule, cpu, keyboardVars, picVars, i8042>>

launch_shell ==
  /\ mode = "launch_shell"
  /\ MapProgram(P_SHELL, P_SHELL)
  /\ run(Loaded(procs, P_SHELL, P_SHELL), P_SHELL)
  /\ mode' = "user"
  /\ UNCHANGED <<failed, reschedule, keyboardVars, picVars, i8042>>

----------------------------------------------------------------------------
\* exception(): save, handle, then run current or schedule.

\* current->reg = *reg, with %rip after the `int` for a trap.
Saved(rip) == [procs EXCEPT ![current].reg = [cpu EXCEPT !.rip = rip]]

\* The tail of exception(), resched being the flag the handler left.
Return(ps, resched) ==
  /\ reschedule' = 0
  /\ run(ps, IF resched = 0 /\ ps[current].state = P_RUNNABLE
             THEN current ELSE schedule(ps, current))

\* The running process executes `int n`.
Trap(n) == mode = "user" /\ cpu.rip \in Traps /\ IntNo[cpu.rip] = n

TrapSaved == Saved(After[cpu.rip])

\* Handlers that only drive the VGA text buffer or the CRT cursor.
sys_write_char_handler ==
  /\ Trap(SYS_WRITE_CHAR_INT)
  /\ Return(TrapSaved, reschedule)
  /\ UNCHANGED <<statusVars, keyboardVars, memoryVars, picVars, i8042>>

sys_cursor_handler ==
  /\ Trap(SYS_CURSOR_INT)
  /\ Return(TrapSaved, reschedule)
  /\ UNCHANGED <<statusVars, keyboardVars, memoryVars, picVars, i8042>>

sys_yield ==
  /\ Trap(SYS_YIELD_INT)
  /\ Return(TrapSaved, 1)
  /\ UNCHANGED <<statusVars, keyboardVars, memoryVars, picVars, i8042>>

\* Mutant: 0xFE, which leaves the keyboard masked.
sys_enable_tim ==
  /\ Trap(SYS_ENABLE_KB_TIM_INT)
  /\ imr' = IRQ \ {IRQ_TIMER}
  /\ Return(TrapSaved, reschedule)
  /\ UNCHANGED <<statusVars, keyboardVars, memoryVars, isr, i8042>>

\* outb(0x21, 0xFC): unmask the timer and the keyboard.
sys_enable_kb_tim ==
  /\ Trap(SYS_ENABLE_KB_TIM_INT)
  /\ imr' = IRQ \ {IRQ_TIMER, IRQ_KB}
  /\ Return(TrapSaved, reschedule)
  /\ UNCHANGED <<statusVars, keyboardVars, memoryVars, isr, i8042>>

\* Mutant: blocks without looking at the buffer.
sys_getchar_always_blocks ==
  /\ Trap(SYS_GETCHAR_INT)
  /\ keyboard_waiting' = current
  /\ Return(WithState(TrapSaved, current, P_BLOCKED), 1)
  /\ UNCHANGED <<statusVars, kb, extended, is_shifted, memoryVars, picVars, i8042>>

sys_getchar_blocks ==
  /\ Trap(SYS_GETCHAR_INT)
  /\ IsEmpty(kb)
  /\ keyboard_waiting' = current
  /\ Return(WithState(TrapSaved, current, P_BLOCKED), 1)
  /\ UNCHANGED <<statusVars, kb, extended, is_shifted, memoryVars, picVars, i8042>>

sys_getchar_reads ==
  /\ Trap(SYS_GETCHAR_INT)
  /\ ~IsEmpty(kb)
  /\ kb' = kb_drop(kb)
  /\ Return(WithRax(TrapSaved, current, kb_first(kb)), reschedule)
  /\ UNCHANGED <<statusVars, extended, is_shifted, keyboard_waiting, memoryVars,
                 picVars, i8042>>

\* list_files: the index of the next entry, -1 at the end of the directory.
sys_list_files_handler ==
  /\ Trap(SYS_LIST_FILES_INT)
  /\ \E cont \in FileIndex \cup {-1} :
       Return(WithRax(TrapSaved, current, cont), reschedule)
  /\ UNCHANGED <<statusVars, keyboardVars, memoryVars, picVars, i8042>>

FsInts == {SYS_MKDIR_INT, SYS_CD_INT, SYS_RM_INT, SYS_READ_INT, SYS_WRITE_INT}

\* The other file-system calls change the disk only (module Fat32).
sys_fs_handler ==
  /\ \E n \in FsInts : Trap(n)
  /\ Return(TrapSaved, reschedule)
  /\ UNCHANGED <<statusVars, keyboardVars, memoryVars, picVars, i8042>>

\* Any of them, list_files included, may need a cluster and find none.
sys_fs_fails ==
  /\ \E n \in FsInts \cup {SYS_LIST_FILES_INT} : Trap(n)
  /\ Fail("no new cluster can be allocated")
  /\ procs' = TrapSaved
  /\ UNCHANGED <<current, reschedule, cpu, keyboardVars, memoryVars, picVars, i8042>>

\* sys_start and sys_stop; the operand is in %rdi.  An assertion that does
\* not hold ends in fail().  (The code shows "Process already running" for
\* both state assertions; the model tells them apart.)
sys_start_assert ==
  CASE cpu.rdi \notin Startable           -> "Not a startable process"
    [] procs[cpu.rdi].state # P_FREE       -> "Start: already running"
    [] OTHER                               -> "none"

sys_stop_assert ==
  CASE cpu.rdi \notin Startable           -> "Not a stoppable process"
    [] procs[cpu.rdi].state # P_RUNNABLE   -> "Stop: not running"
    [] OTHER                               -> "none"

AssertFails(msg) ==
  /\ Fail(msg)
  /\ procs' = TrapSaved
  /\ UNCHANGED <<current, reschedule, cpu, memoryVars>>

sys_start ==
  /\ Trap(SYS_START_INT)
  /\ IF sys_start_assert # "none"
     THEN AssertFails(sys_start_assert)
     ELSE /\ MapProgram(cpu.rdi, cpu.rdi)
          /\ Return(Loaded(TrapSaved, cpu.rdi, cpu.rdi), reschedule)
          /\ UNCHANGED statusVars
  /\ UNCHANGED <<keyboardVars, picVars, i8042>>

sys_stop ==
  /\ Trap(SYS_STOP_INT)
  /\ IF sys_stop_assert # "none"
     THEN AssertFails(sys_stop_assert)
     ELSE /\ Return(WithState(TrapSaved, cpu.rdi, P_FREE), reschedule)
          /\ UNCHANGED <<statusVars, memoryVars>>
  /\ UNCHANGED <<keyboardVars, picVars, i8042>>

----------------------------------------------------------------------------
\* Hardware interrupts.

\* The 8259 delivers an unmasked IRQ when none of its priority or higher is
\* in service; outb(0x20, 0x20) ends the one of highest priority.
Deliverable(irq) ==
  mode = "user" /\ cpu.ints /\ irq \notin imr /\ \A j \in isr : irq < j

EndOfInterrupt(s) == {i \in s : \E j \in s : j < i}

time_handler ==
  /\ Deliverable(IRQ_TIMER)
  /\ isr' = EndOfInterrupt(isr \cup {IRQ_TIMER})
  /\ Return(Saved(cpu.rip), 1)
  /\ UNCHANGED <<statusVars, keyboardVars, memoryVars, imr, i8042>>

\* kb_buffer and the decoder's state after scan code c.
Decode(c) ==
  /\ extended' = ExtendedAfter(c)
  /\ is_shifted' = ShiftAfter(c, is_shifted)

Put(c) ==
  LET ch == Decoded(c, extended, is_shifted)
  IN  IF ch # 0 THEN kb_buffer_put(kb, ch) ELSE kb

KeyboardIrq ==
  /\ Deliverable(IRQ_KB) /\ i8042 # <<>>
  /\ i8042' = Tail(i8042)
  /\ Decode(Head(i8042))
  /\ isr' = EndOfInterrupt(isr \cup {IRQ_KB})

\* Mutant: the character stays in the buffer.
keyboard_handler_keeps ==
  LET r == Put(Head(i8042))
      w == keyboard_waiting
      ps == WithState(WithRax(Saved(cpu.rip), w, kb_first(r)), w, P_RUNNABLE)
  IN  /\ KeyboardIrq
      /\ w # NULL /\ ~IsEmpty(r)
      /\ kb' = r
      /\ run(ps, schedule(ps, current))
      /\ UNCHANGED <<statusVars, reschedule, keyboard_waiting, memoryVars, imr>>

\* Mutant: the waiting process repeats its `int' although it was served.
keyboard_handler_restarts ==
  LET r == Put(Head(i8042))
      w == keyboard_waiting
      ps == [WithState(WithRax(Saved(cpu.rip), w, kb_first(r)), w, P_RUNNABLE)
               EXCEPT ![w].reg.rip = "sh_getchar"]
  IN  /\ KeyboardIrq
      /\ w # NULL /\ ~IsEmpty(r)
      /\ kb' = kb_drop(r)
      /\ run(ps, schedule(ps, current))
      /\ UNCHANGED <<statusVars, reschedule, keyboard_waiting, memoryVars, imr>>

\* A process has blocked in getchar before, and the buffer has a character:
\* it gets it in %rax, whatever it is doing now, and schedule() is called.
keyboard_handler_delivers ==
  LET r == Put(Head(i8042))
      w == keyboard_waiting
      ps == WithState(WithRax(Saved(cpu.rip), w, kb_first(r)), w, P_RUNNABLE)
  IN  /\ KeyboardIrq
      /\ w # NULL /\ ~IsEmpty(r)
      /\ kb' = kb_drop(r)
      /\ run(ps, schedule(ps, current))
      /\ UNCHANGED <<statusVars, reschedule, keyboard_waiting, memoryVars, imr>>

keyboard_handler_buffers ==
  LET r == Put(Head(i8042))
  IN  /\ KeyboardIrq
      /\ keyboard_waiting = NULL \/ IsEmpty(r)
      /\ kb' = r
      /\ Return(Saved(cpu.rip), reschedule)
      /\ UNCHANGED <<statusVars, keyboard_waiting, memoryVars, imr>>

keyboard_handler == keyboard_handler_delivers \/ keyboard_handler_buffers

----------------------------------------------------------------------------
Boot == \/ init_virtual_memory \/ setupInterrupts \/ setupDrive
        \/ init_processes \/ launch_shell

Syscall ==
  \/ sys_write_char_handler \/ sys_cursor_handler \/ sys_yield
  \/ sys_enable_kb_tim \/ sys_getchar_blocks \/ sys_getchar_reads
  \/ sys_list_files_handler \/ sys_fs_handler \/ sys_fs_fails
  \/ sys_start \/ sys_stop

\* while(1) in fail(), with interrupts off or masked.
Halted == mode = "halted" /\ UNCHANGED kernelVars
=============================================================================
