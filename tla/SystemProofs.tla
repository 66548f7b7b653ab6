---------------------------- MODULE SystemProofs ----------------------------
(***************************************************************************)
(* Proofs about the whole system: what schedule() returns, and facts about *)
(* the operators of Kernel, Keyboard and VirtualMemory; the invariant IInv *)
(* of the processes, the interrupts and the keyboard; that user pages are  *)
(* owned, for every memory layout that satisfies LayoutAssumption and any  *)
(* number of starts, stops and restarts; the saved registers; and that the *)
(* keyboard path implements KeyService.                                    *)
(***************************************************************************)
EXTENDS System, WellFoundedInduction, TLAPS

\* The remainder of a number below the modulus, and of one above it by less
\* than the modulus.
LEMMA ModSmall ==
  ASSUME NEW m \in Nat \ {0}, NEW x \in 0..(m - 1)
  PROVE  x % m = x /\ (x + m) % m = x
BY Z3

\* Adding one to a number either adds one to its remainder or wraps it.
LEMMA ModSucc ==
  ASSUME NEW m \in Nat \ {0}, NEW a \in Nat
  PROVE  /\ a % m \in 0..(m - 1)
         /\ (a + 1) % m = IF a % m = m - 1 THEN 0 ELSE (a % m) + 1
<1> DEFINE q == a \div m
           r == a % m
<1>1. q \in Nat /\ r \in 0..(m - 1) /\ a = m * q + r
  OBVIOUS
<1> HIDE DEF q, r
<1>2. CASE r = m - 1
  <2>1. a + 1 = m * (q + 1)
    BY <1>1, <1>2
  <2>2. (m * (q + 1)) % m = 0
    BY <1>1
  <2> QED  BY <1>1, <1>2, <2>1, <2>2 DEF r
<1>3. CASE r # m - 1
  <2>1. a + 1 = m * q + (r + 1) /\ r + 1 \in 0..(m - 1)
    BY <1>1, <1>3
  <2>2. (m * q + (r + 1)) % m = r + 1
    BY <1>1, <2>1
  <2> QED  BY <1>1, <1>3, <2>1, <2>2 DEF r
<1> QED  BY <1>2, <1>3

\* A non-empty set of natural numbers has a least element.
LEMMA LeastNatural ==
  ASSUME NEW S, S \subseteq Nat, S # {}
  PROVE  \E k \in S : \A j \in S : k <= j
<1>1. PICK k \in S : \A j \in S : ~(<<j, k>> \in OpToRel(<, Nat))
  BY WFMin, NatLessThanWellFounded, Zenon
<1>2. \A j \in S : ~(j < k)
  BY <1>1 DEF OpToRel
<1>3. QED
  BY <1>2

\* The closed form Visit is the loop of schedule(): the first turn goes to
\* NextId(id), every further turn to the NextId of the one before.
THEOREM VisitIsLoop ==
  ASSUME NEW id \in ProcId
  PROVE  /\ Visit(id, 1) = NextId(id)
         /\ \A k \in Nat \ {0} : Visit(id, k + 1) = NextId(Visit(id, k))
<1> DEFINE m == PROC_NUMBER - 1
<1>0. m \in Nat /\ m > 2 /\ PROC_NUMBER = m + 1 /\ id \in 0..m
  BY LayoutAssumption DEF ProcId
<1>1. Visit(id, 1) = NextId(id)
  <2>1. CASE id = m
    BY <1>0, <2>1, ModSmall, 0 % m = 0, (0 + m) % m = 0,
       (0 + (m + 1)) % (m + 1) = 0 DEF Visit, NextId
  <2>2. CASE id # m
    <3>1. id % m = id
      BY <1>0, <2>2, ModSmall
    <3>2. (id + 1) % (m + 1) = id + 1
      <4>1. m + 1 \in Nat \ {0} /\ id + 1 \in 0..((m + 1) - 1)
        BY <1>0, <2>2
      <4> QED  BY <4>1, ModSmall
    <3> QED  BY <1>0, <2>2, <3>1, <3>2 DEF Visit, NextId
  <2> QED  BY <2>1, <2>2
<1>2. ASSUME NEW k \in Nat \ {0}
      PROVE  Visit(id, k + 1) = NextId(Visit(id, k))
  <2> DEFINE a == id + k - 1
             y == a % m
  <2>1. a \in Nat /\ id + (k + 1) - 1 = a + 1
    BY <1>0
  <2>2. y \in 0..(m - 1) /\ (a + 1) % m = IF y = m - 1 THEN 0 ELSE y + 1
    <3>1. m \in Nat \ {0}
      BY <1>0
    <3> HIDE DEF a, m
    <3> QED  BY <2>1, <3>1, ModSucc
  <2>3. Visit(id, k) = 1 + y /\ Visit(id, k + 1) = 1 + ((a + 1) % m)
    BY <2>1 DEF Visit
  <2>4. CASE y = m - 1
    <3>1. (1 + y + 1) % PROC_NUMBER = 0
      <4>1. 1 + y + 1 = 0 + PROC_NUMBER /\ PROC_NUMBER \in Nat \ {0} /\ 0 \in 0..(PROC_NUMBER - 1)
        BY <1>0, <2>4
      <4> HIDE DEF y
      <4> QED  BY <4>1, ModSmall
    <3> QED  BY <2>2, <2>3, <2>4, <3>1 DEF NextId
  <2>5. CASE y # m - 1
    <3>1. (1 + y + 1) % PROC_NUMBER = y + 2
      <4>1. 1 + y + 1 = y + 2 /\ PROC_NUMBER \in Nat \ {0} /\ y + 2 \in 0..(PROC_NUMBER - 1)
        BY <1>0, <2>2, <2>5
      <4> HIDE DEF y
      <4> QED  BY <4>1, ModSmall
    <3> QED  BY <2>2, <2>3, <2>5, <3>1 DEF NextId
  <2> QED  BY <2>4, <2>5
<1> QED  BY <1>1, <1>2

\* The loop reaches every process but the idle one within its turns.
LEMMA VisitReaches ==
  ASSUME NEW id \in ProcId, NEW p \in ProcId \ {P_IDLE}
  PROVE  \E k \in 1..(PROC_NUMBER + 1) : Visit(id, k) = p
<1> DEFINE m == PROC_NUMBER - 1
           k == IF p > id THEN p - id ELSE p - id + m
<1>0. m \in Nat /\ m > 2 /\ PROC_NUMBER = m + 1 /\ id \in 0..m /\ p \in 1..m
  BY LayoutAssumption DEF ProcId, P_IDLE
<1>1. k \in 1..(PROC_NUMBER + 1) /\ id + k - 1 \in {p - 1, (p - 1) + m}
  BY <1>0
<1>2. (p - 1) % m = p - 1 /\ ((p - 1) + m) % m = p - 1
  BY <1>0, ModSmall, SMTT(60)
<1>3. Visit(id, k) = p
  <2> HIDE DEF k
  <2> QED  BY <1>0, <1>1, <1>2 DEF Visit
<1> QED  BY <1>1, <1>3

\* Every turn of the loop is at a process other than the idle one.
LEMMA VisitInRange ==
  ASSUME NEW id \in ProcId, NEW k \in Nat \ {0}
  PROVE  Visit(id, k) \in ProcId \ {P_IDLE}
<1> DEFINE m == PROC_NUMBER - 1
<1>0. m \in Nat \ {0} /\ PROC_NUMBER = m + 1 /\ id + k - 1 \in Nat
  BY LayoutAssumption DEF ProcId
<1>1. (id + k - 1) % m \in 0..(m - 1)
  BY <1>0, ModSucc
<1> QED  BY <1>0, <1>1 DEF Visit, ProcId, P_IDLE

\* schedule() picks a runnable process, or the idle one, and the idle one
\* only when nothing else is runnable.
THEOREM ScheduleChoice ==
  ASSUME NEW ps, NEW id \in ProcId
  PROVE  LET s == schedule(ps, id)
         IN  /\ s \in ProcId
             /\ s # P_IDLE => ps[s].state = P_RUNNABLE
             /\ s = P_IDLE => \A p \in ProcId \ {P_IDLE} :
                                ps[p].state # P_RUNNABLE
<1> DEFINE hits == {k \in 1..(PROC_NUMBER + 1) :
                      ps[Visit(id, k)].state = P_RUNNABLE}
<1>0. PROC_NUMBER \in Nat /\ P_IDLE \in ProcId
  BY LayoutAssumption DEF ProcId, P_IDLE
<1>1. CASE hits = {}
  <2>1. schedule(ps, id) = P_IDLE
    BY <1>1 DEF schedule
  <2>2. ASSUME NEW p \in ProcId \ {P_IDLE} PROVE ps[p].state # P_RUNNABLE
    BY <1>1, VisitReaches
  <2> QED  BY <1>0, <2>1, <2>2
<1>2. CASE hits # {}
  <2> DEFINE k == CHOOSE i \in hits : \A j \in hits : i <= j
  <2>1. k \in hits
    <3>1. hits \subseteq Nat
      BY <1>0
    <3>2. \E i \in hits : \A j \in hits : i <= j
      BY <1>2, <3>1, LeastNatural
    <3> QED  BY <3>2
  <2>2. schedule(ps, id) = Visit(id, k)
    BY <1>2 DEF schedule
  <2> HIDE DEF k
  <2>3. k \in Nat \ {0} /\ ps[Visit(id, k)].state = P_RUNNABLE
    BY <1>0, <2>1
  <2> QED  BY <2>2, <2>3, VisitInRange
<1> QED  BY <1>1, <1>2

----------------------------------------------------------------------------
\* The shell's labels on the way to a start or stop call, where %rdi holds
\* the process it names.
OperandLabels == {"sh_start_load", "sh_start_test", "sh_sys_start",
                  "sh_stop_load", "sh_stop_test", "sh_sys_stop"}

\* Registers a process p that has been started can have.
GoodReg(p, rg) ==
  /\ rg.rip \in Code(p)
  /\ rg.rip \in OperandLabels => rg.rdi \in Startable

\* A process table as the kernel leaves it on its way back to user mode.
GoodTable(ps) ==
  /\ ps \in [ProcId -> Proc]
  /\ ps[P_IDLE].state = P_RUNNABLE
  /\ \A p \in ProcId : ps[p].state # P_FREE => GoodReg(p, ps[p].reg)
  /\ \A p \in ProcId : ps[p].state = P_BLOCKED => p = P_SHELL

\* What ScheduledRunnable and NoLostWakeup need to be inductive: where each
\* program can be, that only the shell can block, and that the flags the
\* handlers share are clear whenever user code runs.
Control ==
  /\ reschedule = 0 /\ isr = {}
  /\ keyboard_waiting \in {NULL, P_SHELL}
  /\ mode = "launch_shell" => GoodTable(procs)
  /\ mode = "user" => /\ current \in ProcId
                      /\ GoodTable(procs) /\ procs[P_SHELL].state # P_FREE
                      /\ GoodReg(current, cpu)

IInv == /\ TypeOK /\ Control
        /\ ScheduledRunnable /\ NoLostWakeup /\ InterruptsNeedProcess

----------------------------------------------------------------------------
\* Types.

\* The program numbers are process ids, and no process has the null id.
LEMMA ProgramsAreProcesses ==
  Programs \subseteq ProcId /\ Startable \subseteq Programs /\ NULL \notin ProcId
BY LayoutAssumption
   DEF ProcId, Programs, Startable, NULL, P_IDLE, P_SHELL, P_DUMMY1, P_DUMMY2

\* A trap returns to the program that raised it.
LEMMA TrapLabels ==
  /\ \A prog : Code(prog) \subseteq Labels
  /\ \A prog : \A l \in Code(prog) : l \in Traps => After[l] \in Code(prog)
  /\ \A l \in Traps : After[l] \in Labels
  /\ \A prog : Entry(prog) \in Code(prog)
  /\ \A l \in Traps : After[l] \notin OperandLabels
  /\ \A prog : Entry(prog) \notin OperandLabels
<1>1. \A prog : Code(prog) \subseteq Labels
  BY DEF Code, Labels, ShellLabels, DummyLabels, IdleLabels
<1>2. \A l \in DummyTraps : After[l] \in DummyLabels
  BY DEF After, DummyLabels, DummyTraps, Traps
<1>3. \A l \in ShellTraps : After[l] \in ShellLabels
  BY DEF After, ShellLabels, ShellTraps, FsTraps, Traps
<1>4. /\ \A l \in DummyLabels : l \in Traps => l \in DummyTraps
      /\ \A l \in ShellLabels : l \in Traps => l \in ShellTraps
      /\ \A l \in IdleLabels : l \notin Traps
  BY DEF DummyLabels, ShellLabels, IdleLabels, Traps, DummyTraps, ShellTraps, FsTraps
<1>5. \A prog : \A l \in Code(prog) : l \in Traps => After[l] \in Code(prog)
  BY <1>2, <1>3, <1>4 DEF Code
<1>6. \A l \in Traps : After[l] \in Labels
  BY <1>2, <1>3 DEF Traps, Labels
<1>7. \A prog : Entry(prog) \in Code(prog)
  BY DEF Entry, Code, ShellLabels, ShellTraps, DummyLabels, DummyTraps, IdleLabels
<1>8. \A l \in Traps : After[l] \notin OperandLabels
  BY DEF After, Traps, DummyTraps, ShellTraps, FsTraps, OperandLabels
<1>9. \A prog : Entry(prog) \notin OperandLabels
  BY DEF Entry, OperandLabels
<1> QED  BY <1>1, <1>5, <1>6, <1>7, <1>8, <1>9

\* Who can be where.
LEMMA TrapOwner ==
  ASSUME NEW p \in ProcId, NEW l \in Code(p)
  PROVE  /\ l \in Traps => p # P_IDLE
         /\ l \in ShellLabels => p = P_SHELL
         /\ l \in DummyLabels => Code(p) = DummyLabels
BY DEF Code, ShellLabels, DummyLabels, IdleLabels, Traps, DummyTraps,
       ShellTraps, FsTraps, P_IDLE, P_SHELL

\* Putting a character into kb_buffer or taking one keeps the indices and the
\* bytes in range.
LEMMA RingType ==
  ASSUME NEW r \in Ring
  PROVE  /\ \A c \in Char : kb_buffer_put(r, c) \in Ring
         /\ kb_drop(r) \in Ring
         /\ kb_first(r) \in Char
<1>1. \A i \in Slot : NextSlot(i) \in Slot
  <2> SUFFICES ASSUME NEW i \in Slot PROVE NextSlot(i) \in Slot
    OBVIOUS
  <2>1. i + 1 \in Nat /\ KB_BUFFER_SIZE \in Nat \ {0}
    BY KeyboardAssumption DEF Slot
  <2> QED  BY <2>1, ModSucc DEF NextSlot, Slot
<1> QED  BY <1>1 DEF kb_buffer_put, kb_drop, kb_first, Ring

\* The decoder yields a byte and keeps the two flags typed.
LEMMA DecodedType ==
  ASSUME NEW c \in ScanCode, NEW e \in BOOLEAN, NEW s \in Int
  PROVE  /\ Decoded(c, e, s) \in Char
         /\ ExtendedAfter(c) \in BOOLEAN
         /\ ShiftAfter(c, s) \in Int
<1>1. keyboard_to_ascii(c, s) \in Char
  <2>1. c \in RowKeys => Glyph[<<c, s # 0>>] \in Char
    BY KeyboardAssumption
  <2> QED  BY <2>1 DEF keyboard_to_ascii, Char
<1> QED  BY <1>1 DEF Decoded, ExtendedAfter, ShiftAfter, Char

\* load_process leaves a well-typed page table and frame table.
LEMMA MapTypes ==
  ASSUME NEW p \in Programs, MapProgram(p, p),
         frames_info \in [Frame -> FrameInfo],
         pagetable \in [Frame -> SUBSET Flags]
  PROVE  /\ frames_info' \in [Frame -> FrameInfo]
         /\ pagetable' \in [Frame -> SUBSET Flags]
<1>1. p \in Owner
  BY ProgramsAreProcesses DEF Owner
<1> QED
  BY <1>1 DEF MapProgram, assign_physical_pages, map_pages, FrameInfo

----------------------------------------------------------------------------
\* The process table.

\* What the tail of exception() does with a good table: it comes back to user
\* mode in a process that may run, and to the idle one only if it must.
LEMMA ReturnRuns ==
  ASSUME NEW ps, NEW r, GoodTable(ps), current \in ProcId, Return(ps, r),
         (r = 0 /\ current = P_IDLE) =>
            \A p \in ProcId \ {P_IDLE} : ps[p].state # P_RUNNABLE
  PROVE  /\ procs' = ps /\ current' \in ProcId /\ reschedule' = 0
         /\ cpu' = ps[current'].reg /\ cpu' \in Reg
         /\ GoodReg(current', cpu')
         /\ ps[current'].state = P_RUNNABLE
         /\ current' = P_IDLE => \A p \in ProcId \ {P_IDLE} :
                                   ps[p].state # P_RUNNABLE
<1> DEFINE s == IF r = 0 /\ ps[current].state = P_RUNNABLE
                THEN current ELSE schedule(ps, current)
<1>1. procs' = ps /\ current' = s /\ cpu' = ps[s].reg /\ reschedule' = 0
  BY DEF Return, run
<1>2. s \in ProcId /\ ps[s].state = P_RUNNABLE
  BY ScheduleChoice DEF GoodTable
<1>3. s = P_IDLE => \A p \in ProcId \ {P_IDLE} : ps[p].state # P_RUNNABLE
  BY ScheduleChoice
<1>4. ps[s].reg \in Reg /\ GoodReg(s, ps[s].reg)
  BY <1>2 DEF GoodTable, Proc, P_RUNNABLE, P_FREE
<1> HIDE DEF s
<1> QED  BY <1>1, <1>2, <1>3, <1>4

\* Saving the registers of the running process keeps the table good.
LEMMA SavedGood ==
  ASSUME GoodTable(procs), current \in ProcId, cpu \in Reg,
         NEW l \in Code(current), l \in OperandLabels => cpu.rdi \in Startable
  PROVE  /\ GoodTable(Saved(l))
         /\ \A p \in ProcId : Saved(l)[p].state = procs[p].state
         /\ \A p \in ProcId \ {current} : Saved(l)[p] = procs[p]
         /\ Saved(l)[current].reg = [cpu EXCEPT !.rip = l]
<1>1. l \in Labels
  BY TrapLabels
<1>2. [cpu EXCEPT !.rip = l] \in Reg /\ GoodReg(current, [cpu EXCEPT !.rip = l])
  BY <1>1 DEF Reg, GoodReg
<1>3. P_IDLE \in ProcId
  BY ProgramsAreProcesses DEF Programs
<1> QED  BY <1>2, <1>3 DEF GoodTable, Saved, Proc

\* Starting a program keeps the table good, and writing a character into a
\* saved %rax does too.
LEMMA LoadedGood ==
  ASSUME NEW ps, GoodTable(ps), NEW p \in Programs
  PROVE  /\ GoodTable(Loaded(ps, p, p))
         /\ Loaded(ps, p, p)[p].state = P_RUNNABLE
         /\ \A q \in ProcId \ {p} : Loaded(ps, p, p)[q] = ps[q]
<1>1. /\ p \in ProcId /\ Entry(p) \in Code(p) /\ Entry(p) \in Labels
      /\ Entry(p) \notin OperandLabels
  BY ProgramsAreProcesses, TrapLabels
<1> DEFINE rg == [ps[p].reg EXCEPT !.rip = Entry(p)]
           qs == Loaded(ps, p, p)
<1>2. rg \in Reg /\ GoodReg(p, rg)
  BY <1>1 DEF GoodTable, Proc, Reg, GoodReg
<1>3. qs = [ps EXCEPT ![p] = [state |-> P_RUNNABLE, reg |-> rg]]
  BY <1>1 DEF GoodTable, Loaded
<1>4. P_IDLE \in ProcId
  BY ProgramsAreProcesses DEF Programs
<1> HIDE DEF rg, qs
<1>5. /\ qs[p].state = P_RUNNABLE /\ GoodReg(p, qs[p].reg)
      /\ \A q \in ProcId \ {p} : qs[q] = ps[q]
      /\ qs \in [ProcId -> Proc]
  BY <1>1, <1>2, <1>3 DEF GoodTable, Proc, PState
<1>6. GoodTable(qs)
  BY <1>1, <1>4, <1>5 DEF GoodTable, P_RUNNABLE, P_BLOCKED
<1> QED  BY <1>5, <1>6 DEF qs

\* Writing %rax of a saved context moves no process.
LEMMA RaxGood ==
  ASSUME NEW ps, GoodTable(ps), NEW p \in ProcId, NEW v, v \in Int
  PROVE  /\ GoodTable(WithRax(ps, p, v))
         /\ \A q \in ProcId : WithRax(ps, p, v)[q].state = ps[q].state
         /\ \A q \in ProcId \ {p} : WithRax(ps, p, v)[q] = ps[q]
         /\ WithRax(ps, p, v)[p].reg.rip = ps[p].reg.rip
         /\ WithRax(ps, p, v)[p].reg.rdi = ps[p].reg.rdi
<1>1. P_IDLE \in ProcId
  BY ProgramsAreProcesses DEF Programs
<1> QED  BY <1>1 DEF GoodTable, GoodReg, Proc, Reg, WithRax

\* Changing the state of one process other than the idle one.
LEMMA StateGood ==
  ASSUME NEW ps, GoodTable(ps), NEW p \in ProcId \ {P_IDLE}, NEW st \in PState,
         st # P_FREE => GoodReg(p, ps[p].reg),
         st = P_BLOCKED => p = P_SHELL
  PROVE  /\ GoodTable(WithState(ps, p, st))
         /\ \A q \in ProcId \ {p} : WithState(ps, p, st)[q] = ps[q]
         /\ WithState(ps, p, st)[p].state = st
         /\ WithState(ps, p, st)[p].reg = ps[p].reg
<1>1. P_IDLE \in ProcId
  BY ProgramsAreProcesses DEF Programs
<1> QED  BY <1>1 DEF GoodTable, Proc, WithState

----------------------------------------------------------------------------
\* The invariant, one kind of step at a time.

\* The types of the state that the process table and the registers leave.
RestTyped ==
  /\ kb \in Ring
  /\ extended \in BOOLEAN /\ is_shifted \in Int
  /\ keyboard_waiting \in {NULL, P_SHELL}
  /\ frames_info \in [Frame -> FrameInfo]
  /\ pagetable \in [Frame -> SUBSET Flags]
  /\ imr \in SUBSET IRQ /\ isr = {}
  /\ i8042 \in Seq(ScanCode)
  /\ running \in [Startable -> {0, 1}]

\* What IInv says of the variables no handler's return path touches.
LEMMA RestFromInv ==
  ASSUME IInv PROVE RestTyped
BY DEF IInv, TypeOK, Control, RestTyped

\* Every handler that comes back to user mode through Return.
LEMMA ReturnKeeps ==
  ASSUME NEW ps, NEW r, IInv, mode = "user", GoodTable(ps), Return(ps, r),
         ps[P_SHELL].state # P_FREE,
         (r = 0 /\ current = P_IDLE) =>
            \A p \in ProcId \ {P_IDLE} : ps[p].state # P_RUNNABLE,
         \A p \in ProcId : ps[p].state = P_BLOCKED =>
                             keyboard_waiting' = p /\ IsEmpty(kb'),
         UNCHANGED statusVars, RestTyped'
  PROVE  IInv'
<1>1. current \in ProcId
  BY DEF IInv, Control
<1>2. /\ procs' = ps /\ current' \in ProcId /\ reschedule' = 0
      /\ cpu' = ps[current'].reg /\ cpu' \in Reg
      /\ GoodReg(current', cpu')
      /\ ps[current'].state = P_RUNNABLE
      /\ current' = P_IDLE => \A p \in ProcId \ {P_IDLE} :
                                ps[p].state # P_RUNNABLE
  BY <1>1, ReturnRuns
<1>3. mode' = "user" /\ failed' = failed
  BY DEF statusVars
<1>4. TypeOK'
  BY <1>2, <1>3, ProgramsAreProcesses
     DEF IInv, TypeOK, RestTyped, GoodTable, Programs
<1>5. Control'
  BY <1>2, <1>3 DEF Control, RestTyped, GoodTable
<1>6. ScheduledRunnable' /\ NoLostWakeup'
  BY <1>2 DEF ScheduledRunnable, NoLostWakeup
<1>7. InterruptsNeedProcess'
  BY <1>2, ProgramsAreProcesses DEF InterruptsNeedProcess
<1> QED  BY <1>4, <1>5, <1>6, <1>7 DEF IInv

\* A trap: who raises it, and the table once the registers are saved.
LEMMA TrapFacts ==
  ASSUME IInv, NEW n, Trap(n)
  PROVE  /\ mode = "user" /\ current \in ProcId \ {P_IDLE}
         /\ procs[current].state = P_RUNNABLE /\ procs[P_SHELL].state # P_FREE
         /\ cpu.rip \in Code(current) /\ cpu.rip \in Traps
         /\ IntNo[cpu.rip] = n
         /\ GoodTable(TrapSaved)
         /\ \A p \in ProcId : TrapSaved[p].state = procs[p].state
         /\ \A p \in ProcId \ {current} : TrapSaved[p] = procs[p]
         /\ TrapSaved[current].reg = [cpu EXCEPT !.rip = After[cpu.rip]]
<1>1. /\ mode = "user" /\ current \in ProcId /\ cpu.rip \in Code(current)
      /\ cpu.rip \in Traps /\ IntNo[cpu.rip] = n /\ cpu \in Reg
      /\ procs[current].state = P_RUNNABLE /\ GoodTable(procs)
      /\ procs[P_SHELL].state # P_FREE
  BY DEF IInv, Control, GoodReg, Trap, TypeOK, ScheduledRunnable
<1>2. /\ current # P_IDLE /\ After[cpu.rip] \in Code(current)
      /\ After[cpu.rip] \notin OperandLabels
  BY <1>1, TrapOwner, TrapLabels
<1> QED  BY <1>1, <1>2, SavedGood DEF TrapSaved

\* A handler that touches neither the process states nor the keyboard.
LEMMA QuietTrapKeeps ==
  ASSUME IInv, NEW n, Trap(n), NEW r, NEW ps,
         Return(ps, r), GoodTable(ps),
         \A p \in ProcId : ps[p].state = procs[p].state,
         UNCHANGED <<statusVars, keyboardVars>>, RestTyped'
  PROVE  IInv'
<1>1. mode = "user" /\ current # P_IDLE /\ ps[P_SHELL].state # P_FREE
  BY TrapFacts, ProgramsAreProcesses DEF Programs
<1>2. \A p \in ProcId : ps[p].state = P_BLOCKED =>
                           keyboard_waiting' = p /\ IsEmpty(kb')
  BY DEF IInv, NoLostWakeup, keyboardVars
<1> QED  BY <1>1, <1>2, ReturnKeeps

\* A handler that ends in fail().
LEMMA FailKeeps ==
  ASSUME IInv, NEW n, Trap(n), NEW msg \in Messages, Fail(msg), procs' = TrapSaved,
         UNCHANGED <<current, reschedule, cpu, keyboardVars, memoryVars,
                     picVars, i8042, running>>
  PROVE  IInv'
<1> USE DEF keyboardVars, memoryVars, picVars
<1>1. GoodTable(TrapSaved) /\ \A p \in ProcId : TrapSaved[p].state = procs[p].state
  BY TrapFacts
<1>2. mode' = "halted" /\ failed' \in Messages
  BY DEF Fail
<1>3. TypeOK'
  BY <1>1, <1>2 DEF IInv, TypeOK, GoodTable
<1>4. Control'
  BY <1>1, <1>2 DEF IInv, Control
<1>5. ScheduledRunnable' /\ InterruptsNeedProcess'
  BY <1>2 DEF IInv, ScheduledRunnable, InterruptsNeedProcess
<1>6. NoLostWakeup'
  BY <1>1 DEF IInv, NoLostWakeup
<1> QED  BY <1>3, <1>4, <1>5, <1>6 DEF IInv

\* Every system call preserves the invariant.
LEMMA SyscallKeeps ==
  ASSUME IInv, Syscall, UNCHANGED running
  PROVE  IInv'
<1> USE RestFromInv
<1>1. CASE sys_write_char_handler
  <2>1. RestTyped'
    BY <1>1 DEF sys_write_char_handler, RestTyped, keyboardVars, memoryVars, picVars
  <2> QED  BY <1>1, <2>1, TrapFacts, QuietTrapKeeps DEF sys_write_char_handler
<1>2. CASE sys_cursor_handler
  <2>1. RestTyped'
    BY <1>2 DEF sys_cursor_handler, RestTyped, keyboardVars, memoryVars, picVars
  <2> QED  BY <1>2, <2>1, TrapFacts, QuietTrapKeeps DEF sys_cursor_handler
<1>3. CASE sys_yield
  <2>1. RestTyped'
    BY <1>3 DEF sys_yield, RestTyped, keyboardVars, memoryVars, picVars
  <2> QED  BY <1>3, <2>1, TrapFacts, QuietTrapKeeps DEF sys_yield
<1>4. CASE sys_enable_kb_tim
  <2>1. RestTyped'
    BY <1>4 DEF sys_enable_kb_tim, RestTyped, keyboardVars, memoryVars
  <2> QED  BY <1>4, <2>1, TrapFacts, QuietTrapKeeps DEF sys_enable_kb_tim
<1>5. CASE sys_fs_handler
  <2>1. RestTyped'
    BY <1>5 DEF sys_fs_handler, RestTyped, keyboardVars, memoryVars, picVars
  <2>2. PICK n \in FsInts : Trap(n)
    BY <1>5 DEF sys_fs_handler
  <2> QED  BY <1>5, <2>1, <2>2, TrapFacts, QuietTrapKeeps DEF sys_fs_handler
<1>6. CASE sys_list_files_handler
  <2>1. RestTyped'
    BY <1>6 DEF sys_list_files_handler, RestTyped, keyboardVars, memoryVars, picVars
  <2>2. PICK cont \in FileIndex \cup {-1} :
          Return(WithRax(TrapSaved, current, cont), reschedule)
    BY <1>6 DEF sys_list_files_handler
  <2>3. cont \in Int
    BY FileIndexAssumption
  <2>4. Trap(SYS_LIST_FILES_INT) /\ UNCHANGED <<statusVars, keyboardVars>>
    BY <1>6 DEF sys_list_files_handler
  <2>5. GoodTable(TrapSaved) /\ current \in ProcId
        /\ \A p \in ProcId : TrapSaved[p].state = procs[p].state
    BY <2>4, TrapFacts
  <2> DEFINE ps == WithRax(TrapSaved, current, cont)
  <2>6. GoodTable(ps) /\ \A p \in ProcId : ps[p].state = TrapSaved[p].state
    BY <2>3, <2>5, RaxGood
  <2>7. \A p \in ProcId : ps[p].state = procs[p].state
    BY <2>5, <2>6
  <2> HIDE DEF ps
  <2> QED  BY <2>1, <2>2, <2>4, <2>6, <2>7, QuietTrapKeeps DEF ps
<1>7. CASE sys_getchar_reads
  <2> DEFINE c  == kb_first(kb)
             ps == WithRax(TrapSaved, current, c)
  <2>1. c \in Char /\ kb_drop(kb) \in Ring
    BY RingType DEF RestTyped
  <2>2. RestTyped'
    BY <1>7, <2>1 DEF sys_getchar_reads, RestTyped, memoryVars, picVars
  <2>3. /\ Trap(SYS_GETCHAR_INT) /\ ~IsEmpty(kb) /\ UNCHANGED statusVars
        /\ Return(ps, reschedule)
    BY <1>7 DEF sys_getchar_reads
  <2>4. /\ GoodTable(TrapSaved) /\ current \in ProcId /\ current # P_IDLE
        /\ mode = "user"
        /\ \A p \in ProcId : TrapSaved[p].state = procs[p].state
    BY <2>3, TrapFacts
  <2>5. c \in Int
    BY <2>1 DEF Char
  <2>6. GoodTable(ps) /\ \A p \in ProcId : ps[p].state = TrapSaved[p].state
    <3> HIDE DEF c
    <3> QED  BY <2>4, <2>5, RaxGood
  <2>7. \A p \in ProcId : ps[p].state # P_BLOCKED
    BY <2>3, <2>4, <2>6 DEF IInv, NoLostWakeup
  <2>8. ps[P_SHELL].state # P_FREE
    BY <2>3, <2>4, <2>6, TrapFacts, ProgramsAreProcesses DEF Programs
  <2> HIDE DEF ps
  <2> QED  BY <2>2, <2>3, <2>4, <2>6, <2>7, <2>8, ReturnKeeps
<1>8. CASE sys_getchar_blocks
  <2> DEFINE ps == WithState(TrapSaved, current, P_BLOCKED)
  <2>1. /\ Trap(SYS_GETCHAR_INT) /\ IsEmpty(kb) /\ UNCHANGED <<statusVars, kb>>
        /\ keyboard_waiting' = current /\ Return(ps, 1)
    BY <1>8 DEF sys_getchar_blocks
  <2>2. /\ GoodTable(TrapSaved) /\ current \in ProcId \ {P_IDLE} /\ mode = "user"
        /\ cpu.rip \in Code(current) /\ cpu.rip \in Traps
        /\ IntNo[cpu.rip] = SYS_GETCHAR_INT
        /\ procs[current].state = P_RUNNABLE
        /\ \A p \in ProcId : TrapSaved[p].state = procs[p].state
    BY <2>1, TrapFacts
  <2>3. current = P_SHELL
    <3>1. cpu.rip = "sh_getchar"
      BY <2>2 DEF IntNo, Traps, DummyTraps, ShellTraps, FsTraps,
            SYS_GETCHAR_INT, SYS_WRITE_CHAR_INT, SYS_CURSOR_INT,
            SYS_LIST_FILES_INT, SYS_MKDIR_INT, SYS_CD_INT, SYS_RM_INT,
            SYS_ENABLE_KB_TIM_INT, SYS_YIELD_INT, SYS_START_INT, SYS_STOP_INT,
            SYS_READ_INT, SYS_WRITE_INT
    <3>2. cpu.rip \in ShellLabels
      BY <3>1 DEF ShellLabels, ShellTraps
    <3> QED  BY <2>2, <3>2, TrapOwner
  <2>4. RestTyped'
    BY <1>8, <2>3 DEF sys_getchar_blocks, RestTyped, memoryVars, picVars
  <2>5. GoodReg(current, TrapSaved[current].reg)
    BY <2>2 DEF GoodTable, P_RUNNABLE, P_FREE
  <2>6. /\ GoodTable(ps) /\ \A q \in ProcId \ {current} : ps[q] = TrapSaved[q]
    BY <2>2, <2>3, <2>5, StateGood DEF PState
  <2>7. \A p \in ProcId : ps[p].state = P_BLOCKED =>
                             keyboard_waiting' = p /\ IsEmpty(kb')
    BY <2>1, <2>3, <2>6 DEF GoodTable
  <2>8. ps[P_SHELL].state # P_FREE
    BY <2>2, <2>3, <2>5, StateGood, SMTT(60) DEF PState, P_FREE, P_BLOCKED
  <2> HIDE DEF ps
  <2> QED  BY <2>1, <2>2, <2>4, <2>6, <2>7, <2>8, ReturnKeeps
<1>9. CASE sys_fs_fails
  <2>1. PICK n \in FsInts \cup {SYS_LIST_FILES_INT} : Trap(n)
    BY <1>9 DEF sys_fs_fails
  <2>2. "no new cluster can be allocated" \in Messages
    BY DEF Messages
  <2> QED  BY <1>9, <2>1, <2>2, FailKeeps DEF sys_fs_fails
<1>10. CASE sys_start
  <2>1. Trap(SYS_START_INT) /\ UNCHANGED <<keyboardVars, picVars, i8042>>
    BY <1>10 DEF sys_start
  <2>2. CASE sys_start_assert # "none"
    <3>1. sys_start_assert \in Messages
      BY DEF sys_start_assert, Messages
    <3>2. AssertFails(sys_start_assert)
      BY <1>10, <2>2 DEF sys_start
    <3> QED  BY <2>1, <3>1, <3>2, FailKeeps DEF AssertFails
  <2>3. CASE sys_start_assert = "none"
    <3> DEFINE p  == cpu.rdi
               ps == Loaded(TrapSaved, p, p)
    <3>1. MapProgram(p, p) /\ Return(ps, reschedule) /\ UNCHANGED statusVars
      BY <1>10, <2>3 DEF sys_start
    <3>2. p \in Programs
      BY <2>3, ProgramsAreProcesses DEF sys_start_assert
    <3>3. /\ GoodTable(TrapSaved) /\ mode = "user" /\ current # P_IDLE
          /\ \A q \in ProcId : TrapSaved[q].state = procs[q].state
      BY <2>1, TrapFacts
    <3>4. /\ GoodTable(ps) /\ ps[p].state = P_RUNNABLE
          /\ \A q \in ProcId \ {p} : ps[q] = TrapSaved[q]
      BY <3>2, <3>3, LoadedGood
    <3>5. RestTyped'
      BY <2>1, <3>1, <3>2, MapTypes DEF RestTyped, keyboardVars, picVars
    <3> HIDE DEF p, ps
    <3>6. \A q \in ProcId : ps[q].state = P_BLOCKED =>
                               keyboard_waiting' = q /\ IsEmpty(kb')
      BY <2>1, <3>3, <3>4 DEF IInv, NoLostWakeup, keyboardVars, P_RUNNABLE, P_BLOCKED
    <3>7. ps[P_SHELL].state # P_FREE
      BY <2>1, <3>3, <3>4, TrapFacts, ProgramsAreProcesses
         DEF Programs, P_RUNNABLE, P_FREE
    <3> QED  BY <3>1, <3>3, <3>4, <3>5, <3>6, <3>7, ReturnKeeps
  <2> QED  BY <2>2, <2>3
<1>11. CASE sys_stop
  <2>1. Trap(SYS_STOP_INT) /\ UNCHANGED <<keyboardVars, picVars, i8042>>
    BY <1>11 DEF sys_stop
  <2>2. CASE sys_stop_assert # "none"
    <3>1. sys_stop_assert \in Messages
      BY DEF sys_stop_assert, Messages
    <3>2. AssertFails(sys_stop_assert)
      BY <1>11, <2>2 DEF sys_stop
    <3> QED  BY <2>1, <3>1, <3>2, FailKeeps DEF AssertFails
  <2>3. CASE sys_stop_assert = "none"
    <3> DEFINE p  == cpu.rdi
               ps == WithState(TrapSaved, p, P_FREE)
    <3>1. Return(ps, reschedule) /\ UNCHANGED <<statusVars, memoryVars>>
      BY <1>11, <2>3 DEF sys_stop
    <3>2. p \in Startable
      BY <2>3 DEF sys_stop_assert
    <3>3. p \in ProcId \ {P_IDLE}
      BY <3>2, ProgramsAreProcesses DEF Startable, P_IDLE, P_DUMMY1, P_DUMMY2
    <3>4. /\ GoodTable(TrapSaved) /\ mode = "user" /\ current # P_IDLE
          /\ \A q \in ProcId : TrapSaved[q].state = procs[q].state
      BY <2>1, TrapFacts
    <3>5. /\ GoodTable(ps) /\ ps[p].state = P_FREE
          /\ \A q \in ProcId \ {p} : ps[q] = TrapSaved[q]
      BY <3>3, <3>4, StateGood DEF PState, P_FREE, P_BLOCKED
    <3>6. RestTyped'
      BY <2>1, <3>1 DEF RestTyped, keyboardVars, picVars, memoryVars
    <3> HIDE DEF p, ps
    <3>7. \A q \in ProcId : ps[q].state = P_BLOCKED =>
                               keyboard_waiting' = q /\ IsEmpty(kb')
      BY <2>1, <3>4, <3>5 DEF IInv, NoLostWakeup, keyboardVars, P_FREE, P_BLOCKED
    <3>8. P_SHELL \in ProcId /\ p # P_SHELL
      BY <3>2, ProgramsAreProcesses
         DEF Programs, Startable, P_SHELL, P_DUMMY1, P_DUMMY2
    <3>9. ps[P_SHELL].state # P_FREE
      BY <2>1, <3>4, <3>5, <3>8, TrapFacts
    <3> QED  BY <3>1, <3>4, <3>5, <3>6, <3>7, <3>9, ReturnKeeps
  <2> QED  BY <2>2, <2>3
<1> QED
  BY <1>1, <1>2, <1>3, <1>4, <1>5, <1>6, <1>7, <1>8, <1>9, <1>10, <1>11 DEF Syscall

\* The registers are saved as they are when an interrupt comes.
LEMMA InterruptFacts ==
  ASSUME IInv, mode = "user"
  PROVE  /\ current \in ProcId /\ GoodTable(Saved(cpu.rip))
         /\ \A p \in ProcId : Saved(cpu.rip)[p].state = procs[p].state
         /\ \A p \in ProcId \ {current} : Saved(cpu.rip)[p] = procs[p]
         /\ reschedule = 0 /\ Saved(cpu.rip)[P_SHELL].state # P_FREE
<1>1. /\ current \in ProcId /\ GoodTable(procs) /\ GoodReg(current, cpu)
      /\ cpu \in Reg /\ reschedule = 0 /\ procs[P_SHELL].state # P_FREE
  BY DEF IInv, Control, TypeOK
<1>2. P_SHELL \in ProcId
  BY ProgramsAreProcesses DEF Programs
<1> QED  BY <1>1, <1>2, SavedGood DEF GoodReg

\* With no other IRQ in service, end-of-interrupt clears the PIC.
LEMMA OneInService ==
  ASSUME NEW i \in IRQ PROVE EndOfInterrupt({} \cup {i}) = {}
BY DEF EndOfInterrupt, IRQ

\* The timer interrupt preserves the invariant.
LEMMA TimerKeeps ==
  ASSUME IInv, time_handler, UNCHANGED running
  PROVE  IInv'
<1>1. mode = "user" /\ Return(Saved(cpu.rip), 1) /\ UNCHANGED <<statusVars, keyboardVars>>
  BY DEF time_handler, Deliverable
<1>2. isr' = {}
  <2>1. isr' = EndOfInterrupt(isr \cup {IRQ_TIMER}) /\ isr = {}
    BY RestFromInv DEF time_handler, RestTyped
  <2> QED  BY <2>1, OneInService DEF IRQ, IRQ_TIMER
<1>3. RestTyped'
  BY <1>2, RestFromInv DEF time_handler, RestTyped, keyboardVars, memoryVars
<1>4. \A p \in ProcId : Saved(cpu.rip)[p].state = P_BLOCKED =>
                           keyboard_waiting' = p /\ IsEmpty(kb')
  BY <1>1, InterruptFacts DEF IInv, NoLostWakeup, keyboardVars
<1> QED  BY <1>1, <1>3, <1>4, InterruptFacts, ReturnKeeps

\* What both outcomes of the keyboard handler do to the driver's state.
LEMMA KeyboardIrqFacts ==
  ASSUME IInv, KeyboardIrq
  PROVE  /\ mode = "user" /\ Head(i8042) \in ScanCode
         /\ Put(Head(i8042)) \in Ring
         /\ extended' \in BOOLEAN /\ is_shifted' \in Int
         /\ i8042' \in Seq(ScanCode) /\ isr' = {}
<1>1. /\ mode = "user" /\ i8042 # <<>> /\ i8042' = Tail(i8042)
      /\ extended' = ExtendedAfter(Head(i8042))
      /\ is_shifted' = ShiftAfter(Head(i8042), is_shifted)
      /\ isr' = EndOfInterrupt(isr \cup {IRQ_KB})
  BY DEF KeyboardIrq, Deliverable, Decode
<1>2. /\ i8042 \in Seq(ScanCode) /\ kb \in Ring /\ extended \in BOOLEAN
      /\ is_shifted \in Int /\ isr = {}
  BY RestFromInv DEF RestTyped
<1>3. Head(i8042) \in ScanCode /\ Tail(i8042) \in Seq(ScanCode)
  BY <1>1, <1>2
<1>4. isr' = {}
  BY <1>1, <1>2, OneInService DEF IRQ, IRQ_KB
<1>5. Decoded(Head(i8042), extended, is_shifted) \in Char
      /\ ExtendedAfter(Head(i8042)) \in BOOLEAN
      /\ ShiftAfter(Head(i8042), is_shifted) \in Int
  BY <1>2, <1>3, DecodedType
<1>6. Put(Head(i8042)) \in Ring
  BY <1>2, <1>5, RingType DEF Put
<1> QED  BY <1>1, <1>3, <1>4, <1>5, <1>6

\* The keyboard interrupt preserves the invariant, whether it delivers or
\* buffers.
LEMMA KeyboardKeeps ==
  ASSUME IInv, keyboard_handler, UNCHANGED running
  PROVE  IInv'
<1> DEFINE r == Put(Head(i8042))
<1>1. CASE keyboard_handler_buffers
  <2>1. /\ KeyboardIrq
        /\ keyboard_waiting = NULL \/ IsEmpty(r)
        /\ kb' = r /\ Return(Saved(cpu.rip), reschedule)
        /\ UNCHANGED <<statusVars, keyboard_waiting, memoryVars, imr>>
    BY <1>1 DEF keyboard_handler_buffers
  <2>2. RestTyped'
    BY <2>1, KeyboardIrqFacts, RestFromInv DEF RestTyped, memoryVars
  <2>3. mode = "user"
    BY <2>1, KeyboardIrqFacts
  <2>4. \A p \in ProcId : Saved(cpu.rip)[p].state = P_BLOCKED =>
                             keyboard_waiting' = p /\ IsEmpty(kb')
    BY <2>1, <2>3, InterruptFacts, ProgramsAreProcesses DEF IInv, NoLostWakeup
  <2>5. current = P_IDLE => \A p \in ProcId \ {P_IDLE} :
                              Saved(cpu.rip)[p].state # P_RUNNABLE
    BY <2>3, InterruptFacts DEF IInv, ScheduledRunnable
  <2> QED  BY <2>1, <2>2, <2>3, <2>4, <2>5, InterruptFacts, ReturnKeeps
<1>2. CASE keyboard_handler_delivers
  <2> DEFINE w  == keyboard_waiting
             rs == WithRax(Saved(cpu.rip), w, kb_first(r))
             ps == WithState(rs, w, P_RUNNABLE)
  <2>1. /\ KeyboardIrq /\ w # NULL /\ kb' = kb_drop(r)
        /\ run(ps, schedule(ps, current))
        /\ UNCHANGED <<statusVars, reschedule, keyboard_waiting, memoryVars, imr>>
    BY <1>2 DEF keyboard_handler_delivers
  <2>2. mode = "user" /\ r \in Ring
    BY <2>1, KeyboardIrqFacts
  <2>3. w = P_SHELL /\ w \in ProcId /\ w # P_IDLE
    BY <2>1, ProgramsAreProcesses DEF IInv, Control, Programs, P_SHELL, P_IDLE
  <2>4. kb_first(r) \in Int /\ kb_drop(r) \in Ring
    BY <2>2, RingType DEF Char
  <2>5. RestTyped'
    BY <2>1, <2>4, KeyboardIrqFacts, RestFromInv DEF RestTyped, memoryVars
  <2>6. Return(ps, 1)
    BY <2>1, <2>2, InterruptFacts DEF Return
  <2>7. /\ GoodTable(rs)
        /\ \A p \in ProcId : rs[p].state = procs[p].state
    BY <2>2, <2>3, <2>4, InterruptFacts, RaxGood
  <2>8. GoodReg(w, rs[w].reg)
    BY <2>2, <2>3, <2>7 DEF GoodTable, IInv, Control
  <2>9. /\ GoodTable(ps) /\ ps[w].state = P_RUNNABLE
    BY <2>3, <2>7, <2>8, StateGood DEF PState, P_RUNNABLE, P_BLOCKED
  <2>10. (\A p \in ProcId : ps[p].state # P_BLOCKED) /\ ps[P_SHELL].state # P_FREE
    BY <2>3, <2>9 DEF GoodTable, P_RUNNABLE, P_BLOCKED, P_FREE
  <2> HIDE DEF ps
  <2> QED  BY <2>1, <2>2, <2>5, <2>6, <2>9, <2>10, ReturnKeeps
<1> QED  BY <1>1, <1>2 DEF keyboard_handler

\* Boot: nothing runs, nothing is blocked and nothing is unmasked until
\* launch_shell.
LEMMA InitHolds ==
  ASSUME SysInit PROVE IInv
<1> USE DEF SysInit, Init
<1>1. /\ procs \in [ProcId -> Proc]
      /\ \A p \in ProcId : procs[p].state = P_FREE
  BY DEF Proc, Reg, PState
<1>2. EmptyRing \in Ring
  BY KeyboardAssumption DEF EmptyRing, Ring, Slot, Char
<1>3. frames_info \in [Frame -> FrameInfo] /\ pagetable \in [Frame -> SUBSET Flags]
  BY DEF FrameInfo, Owner
<1>4. /\ cpu \in Reg /\ ~cpu.ints /\ i8042 \in Seq(ScanCode)
      /\ running \in [Startable -> {0, 1}]
  BY DEF Reg
<1>5. TypeOK
  <2>1. /\ mode \in BootSteps /\ failed \in Messages
        /\ current \in {NULL} /\ reschedule \in {0, 1}
        /\ kb \in Ring /\ is_shifted \in Int /\ keyboard_waiting \in {NULL}
    BY <1>2 DEF BootSteps, Messages, DriveMessages
  <2>2. extended \in BOOLEAN
    BY Zenon
  <2>3. imr \in SUBSET IRQ /\ isr \in SUBSET IRQ
    OBVIOUS
  <2> QED  BY <1>1, <1>3, <1>4, <2>1, <2>2, <2>3 DEF TypeOK
<1>6. Control
  BY DEF Control
<1>7. ScheduledRunnable /\ NoLostWakeup /\ InterruptsNeedProcess
  BY <1>1, <1>4 DEF ScheduledRunnable, NoLostWakeup, InterruptsNeedProcess,
                    P_FREE, P_BLOCKED
<1> QED  BY <1>5, <1>6, <1>7 DEF IInv

\* The table init_processes leaves, before and after the idle process is
\* loaded.
LEMMA FreshGood ==
  /\ GoodTable(Loaded(FreshProcs, P_IDLE, P_IDLE))
  /\ \A p \in ProcId : Loaded(FreshProcs, P_IDLE, P_IDLE)[p].state # P_BLOCKED
<1> DEFINE rg == [FreshProcs[P_IDLE].reg EXCEPT !.rip = Entry(P_IDLE)]
           qs == Loaded(FreshProcs, P_IDLE, P_IDLE)
<1>1. /\ P_IDLE \in ProcId /\ Entry(P_IDLE) \in Code(P_IDLE)
      /\ Entry(P_IDLE) \in Labels /\ Entry(P_IDLE) \notin OperandLabels
  BY ProgramsAreProcesses, TrapLabels DEF Programs
<1>2. FreshProcs \in [ProcId -> Proc] /\ \A p \in ProcId : FreshProcs[p].state = P_FREE
  BY DEF FreshProcs, Proc, Reg, PState
<1>3. rg \in Reg /\ GoodReg(P_IDLE, rg)
  BY <1>1, <1>2 DEF Proc, Reg, GoodReg
<1>4. qs = [FreshProcs EXCEPT ![P_IDLE] = [state |-> P_RUNNABLE, reg |-> rg]]
  BY <1>1, <1>2 DEF Loaded
<1> HIDE DEF rg, qs
<1>5. /\ qs \in [ProcId -> Proc] /\ qs[P_IDLE].state = P_RUNNABLE
      /\ GoodReg(P_IDLE, qs[P_IDLE].reg)
      /\ \A p \in ProcId \ {P_IDLE} : qs[p].state = P_FREE
  BY <1>1, <1>2, <1>3, <1>4 DEF Proc, PState
<1>6. GoodTable(qs) /\ \A p \in ProcId : qs[p].state # P_BLOCKED
  BY <1>1, <1>5 DEF GoodTable, P_RUNNABLE, P_FREE, P_BLOCKED
<1> QED  BY <1>6 DEF qs

\* Every call of kernel() preserves the invariant.
LEMMA BootKeeps ==
  ASSUME IInv, Boot, UNCHANGED running
  PROVE  IInv'
<1> USE DEF statusVars, procVars, keyboardVars, memoryVars, picVars
<1>1. CASE init_virtual_memory
  <2>1. /\ kernel_pagetable \in [Frame -> SUBSET Flags]
        /\ init_framing \in [Frame -> FrameInfo]
    BY DEF kernel_pagetable, init_framing, Flags, FrameInfo, Owner
  <2>2. TypeOK' /\ Control'
    BY <1>1, <2>1 DEF init_virtual_memory, IInv, TypeOK, Control, BootSteps
  <2>3. ScheduledRunnable' /\ NoLostWakeup' /\ InterruptsNeedProcess'
    BY <1>1 DEF init_virtual_memory, IInv, ScheduledRunnable, NoLostWakeup,
                InterruptsNeedProcess
  <2> QED  BY <2>2, <2>3 DEF IInv
<1>2. CASE setupInterrupts
  <2>1. cpu' \in Reg /\ imr' = IRQ /\ isr' = {}
    BY <1>2 DEF setupInterrupts, IInv, TypeOK, Reg
  <2>2. TypeOK' /\ Control'
    BY <1>2, <2>1 DEF setupInterrupts, IInv, TypeOK, Control, BootSteps
  <2>3. ScheduledRunnable' /\ NoLostWakeup' /\ InterruptsNeedProcess'
    BY <1>2 DEF setupInterrupts, IInv, ScheduledRunnable, NoLostWakeup,
                InterruptsNeedProcess
  <2> QED  BY <2>2, <2>3 DEF IInv
<1>3. CASE setupDrive
  <2>1. TypeOK' /\ Control'
    BY <1>3 DEF setupDrive, Fail, IInv, TypeOK, Control, BootSteps, Messages
  <2>2. ScheduledRunnable' /\ NoLostWakeup' /\ InterruptsNeedProcess'
    BY <1>3 DEF setupDrive, Fail, IInv, ScheduledRunnable, NoLostWakeup,
                InterruptsNeedProcess
  <2> QED  BY <2>1, <2>2 DEF IInv
<1>4. CASE init_processes
  <2>1. frames_info' \in [Frame -> FrameInfo] /\ pagetable' \in [Frame -> SUBSET Flags]
    BY <1>4, MapTypes DEF init_processes, IInv, TypeOK, Programs
  <2>2. GoodTable(procs') /\ \A p \in ProcId : procs'[p].state # P_BLOCKED
    BY <1>4, FreshGood DEF init_processes
  <2>3. TypeOK' /\ Control'
    BY <1>4, <2>1, <2>2
       DEF init_processes, IInv, TypeOK, Control, BootSteps, GoodTable
  <2>4. ScheduledRunnable' /\ NoLostWakeup' /\ InterruptsNeedProcess'
    BY <1>4, <2>2 DEF init_processes, IInv, ScheduledRunnable, NoLostWakeup,
                      InterruptsNeedProcess
  <2> QED  BY <2>3, <2>4 DEF IInv
<1>5. CASE launch_shell
  <2> DEFINE ps == Loaded(procs, P_SHELL, P_SHELL)
  <2>0. P_SHELL \in Programs /\ P_SHELL \in ProcId /\ P_SHELL # P_IDLE
    BY ProgramsAreProcesses DEF Programs, P_SHELL, P_IDLE
  <2>1. frames_info' \in [Frame -> FrameInfo] /\ pagetable' \in [Frame -> SUBSET Flags]
    BY <1>5, <2>0, MapTypes DEF launch_shell, IInv, TypeOK
  <2>2. GoodTable(procs)
    BY <1>5 DEF launch_shell, IInv, Control
  <2>3. /\ GoodTable(ps) /\ ps[P_SHELL].state = P_RUNNABLE
        /\ \A q \in ProcId \ {P_SHELL} : ps[q] = procs[q]
    BY <2>0, <2>2, LoadedGood
  <2>4. procs' = ps /\ current' = P_SHELL /\ cpu' = ps[P_SHELL].reg /\ mode' = "user"
    BY <1>5 DEF launch_shell, run
  <2> HIDE DEF ps
  <2>5. /\ cpu' \in Reg /\ GoodReg(P_SHELL, cpu')
        /\ \A p \in ProcId : ps[p].state # P_BLOCKED
    BY <2>0, <2>3, <2>4 DEF GoodTable, Proc, P_RUNNABLE, P_FREE, P_BLOCKED
  <2>6. TypeOK' /\ Control'
    BY <1>5, <2>0, <2>1, <2>3, <2>4, <2>5
       DEF launch_shell, IInv, TypeOK, Control, GoodTable, P_RUNNABLE, P_FREE
  <2>7. ScheduledRunnable' /\ NoLostWakeup' /\ InterruptsNeedProcess'
    BY <2>0, <2>3, <2>4, <2>5, ProgramsAreProcesses
       DEF ScheduledRunnable, NoLostWakeup, InterruptsNeedProcess
  <2> QED  BY <2>6, <2>7 DEF IInv
<1> QED  BY <1>1, <1>2, <1>3, <1>4, <1>5 DEF Boot

\* User instructions stay inside the program and leave the kernel alone.
LEMMA UserKeeps ==
  ASSUME IInv, mode = "user", UserStep,
         cpu' \in Reg, GoodReg(current, cpu'), cpu'.ints = cpu.ints,
         running' \in [Startable -> {0, 1}]
  PROVE  IInv'
<1> USE DEF UserStep, statusVars, keyboardVars, memoryVars, picVars
<1>1. TypeOK' /\ Control'
  BY DEF IInv, TypeOK, Control
<1>2. ScheduledRunnable' /\ NoLostWakeup' /\ InterruptsNeedProcess'
  BY DEF IInv, ScheduledRunnable, NoLostWakeup, InterruptsNeedProcess
<1> QED  BY <1>1, <1>2 DEF IInv

\* A user instruction that only moves %rip inside its program.
LEMMA GotoKeeps ==
  ASSUME IInv, mode = "user", UserStep, NEW l \in Code(current), Goto(l),
         l \in OperandLabels => cpu.rip \in OperandLabels,
         running' \in [Startable -> {0, 1}]
  PROVE  IInv'
<1>1. l \in Labels /\ cpu \in Reg /\ GoodReg(current, cpu)
  BY TrapLabels DEF IInv, TypeOK, Control
<1>2. cpu' \in Reg /\ cpu'.rip = l /\ cpu'.rdi = cpu.rdi /\ cpu'.ints = cpu.ints
  BY <1>1 DEF Goto, Reg
<1> QED  BY <1>1, <1>2, UserKeeps DEF GoodReg

\* A shell label is reached in the shell only, and there every shell label
\* belongs to the program; the same for the dummies.
LEMMA AtFacts ==
  ASSUME IInv, NEW l, At(l)
  PROVE  /\ mode = "user" /\ cpu.rip = l /\ current \in ProcId
         /\ l \in ShellLabels => current = P_SHELL /\ Code(current) = ShellLabels
         /\ l \in DummyLabels => Code(current) = DummyLabels
         /\ l \in OperandLabels => cpu.rdi \in Startable
<1>1. /\ mode = "user" /\ cpu.rip = l /\ current \in ProcId /\ l \in Code(current)
      /\ l \in OperandLabels => cpu.rdi \in Startable
  BY DEF IInv, Control, GoodReg, At
<1>2. Code(P_SHELL) = ShellLabels
  BY DEF Code, P_IDLE, P_SHELL
<1> QED  BY <1>1, <1>2, TrapOwner

\* The dummies' user instructions preserve the invariant.
LEMMA DummyKeeps ==
  ASSUME IInv, dummy_loop PROVE IInv'
<1>1. At("dummy_loop") /\ UserStep /\ UNCHANGED running
  BY DEF dummy_loop
<1>2. PICK l \in {"dummy_print", "dummy_yield"} : Goto(l)
  BY DEF dummy_loop
<1>3. l \in Code(current) /\ mode = "user"
  BY <1>1, <1>2, AtFacts DEF DummyLabels, DummyTraps
<1>5. l \notin OperandLabels
  BY <1>2 DEF OperandLabels
<1>4. running' \in [Startable -> {0, 1}]
  BY <1>1 DEF IInv, TypeOK
<1> QED  BY <1>1, <1>2, <1>3, <1>4, <1>5, GotoKeeps

\* The shell's user instructions preserve the invariant.
LEMMA ShellKeeps ==
  ASSUME IInv, Shell PROVE IInv'
<1> USE DEF ShellLabels, ShellTraps, FsTraps, OperandLabels
<1>0. running \in [Startable -> {0, 1}] /\ cpu \in Reg
  BY DEF IInv, TypeOK
<1>1. CASE shell_key
  <2>1. At("sh_got") /\ UserStep /\ UNCHANGED running
    BY <1>1 DEF shell_key
  <2>2. PICK l \in {"sh_echo", "sh_cursor"} : Goto(l)
    BY <1>1 DEF shell_key
  <2> QED  BY <1>0, <2>1, <2>2, AtFacts, GotoKeeps
<1>2. CASE shell_command
  <2>1. At("sh_got") /\ UserStep /\ UNCHANGED running
    BY <1>2 DEF shell_command
  <2>2. CASE \E l \in Commands \ ProcessCommands : Goto(l)
    <3>1. PICK l \in Commands \ ProcessCommands : Goto(l)
      BY <2>2
    <3>2. l \in ShellLabels /\ l \notin OperandLabels
      BY <3>1, SystemAssumption DEF AllCommands, ProcessCommands
    <3> QED  BY <1>0, <2>1, <3>1, <3>2, AtFacts, GotoKeeps
  <2>3. CASE \E p \in Startable, l \in Commands \cap ProcessCommands :
               cpu' = [cpu EXCEPT !.rip = l, !.rdi = p]
    <3>1. PICK p \in Startable, l \in ProcessCommands :
               cpu' = [cpu EXCEPT !.rip = l, !.rdi = p]
      BY <2>3
    <3>2. p \in Int /\ l \in ShellLabels /\ l \in Labels
      BY DEF Startable, ProcessCommands, P_DUMMY1, P_DUMMY2, Labels
    <3>3. cpu' \in Reg /\ cpu'.rip = l /\ cpu'.rdi = p /\ cpu'.ints = cpu.ints
      BY <1>0, <3>1, <3>2 DEF Reg
    <3> QED  BY <1>0, <2>1, <3>1, <3>2, <3>3, AtFacts, UserKeeps DEF GoodReg
  <2> QED  BY <1>2, <2>2, <2>3 DEF shell_command
<1>3. CASE shell_load
  <2>1. PICK l \in {"sh_start_load", "sh_stop_load"},
             k \in {"sh_start_test", "sh_stop_test"} :
          /\ At(l) /\ UserStep /\ UNCHANGED running
          /\ cpu' = [cpu EXCEPT !.rax = running[cpu.rdi], !.rip = k]
    BY <1>3 DEF shell_load
  <2>2. /\ cpu.rdi \in Startable /\ l \in ShellLabels /\ k \in ShellLabels
    BY <2>1, AtFacts
  <2>3. running[cpu.rdi] \in Int /\ k \in Labels
    BY <1>0, <2>2 DEF Labels
  <2>4. cpu' \in Reg /\ cpu'.rip = k /\ cpu'.rdi = cpu.rdi /\ cpu'.ints = cpu.ints
    BY <1>0, <2>1, <2>3 DEF Reg
  <2> QED  BY <1>0, <2>1, <2>2, <2>4, AtFacts, UserKeeps DEF GoodReg
<1>4. CASE shell_start_test
  <2>1. At("sh_start_test") /\ UserStep
    BY <1>4 DEF shell_start_test
  <2>2. /\ running' \in [Startable -> {0, 1}]
        /\ Goto("sh_prompt") \/ Goto("sh_sys_start")
    BY <1>0, <1>4 DEF shell_start_test
  <2> QED  BY <2>1, <2>2, AtFacts, GotoKeeps
<1>5. CASE shell_stop_test
  <2>1. At("sh_stop_test") /\ UserStep
    BY <1>5 DEF shell_stop_test
  <2>2. /\ running' \in [Startable -> {0, 1}]
        /\ Goto("sh_prompt") \/ Goto("sh_sys_stop")
    BY <1>0, <1>5 DEF shell_stop_test
  <2> QED  BY <2>1, <2>2, AtFacts, GotoKeeps
<1>6. CASE shell_ls_test
  <2>1. /\ At("sh_ls_test") /\ UserStep /\ UNCHANGED running
        /\ Goto("sh_prompt") \/ Goto("sh_ls")
    BY <1>6 DEF shell_ls_test
  <2> QED  BY <1>0, <2>1, AtFacts, GotoKeeps
<1>7. CASE shell_find_test
  <2>1. At("sh_find_test") /\ UserStep /\ UNCHANGED running
    BY <1>7 DEF shell_find_test
  <2>2. PICK l \in {"sh_find", "sh_prompt", "sh_mkdir", "sh_cd", "sh_rm",
                    "sh_rm_old", "sh_read", "sh_write"} : Goto(l)
    BY <1>7 DEF shell_find_test
  <2> QED  BY <1>0, <2>1, <2>2, AtFacts, GotoKeeps
<1> QED
  BY <1>1, <1>2, <1>3, <1>4, <1>5, <1>6, <1>7 DEF Shell

\* A scan code reaching the controller preserves the invariant.
LEMMA KeyTypedKeeps ==
  ASSUME IInv, KeyTyped PROVE IInv'
<1> USE DEF KeyTyped, statusVars, procVars, keyboardVars, memoryVars, picVars
<1>1. i8042' \in Seq(ScanCode)
  BY SystemAssumption DEF IInv, TypeOK
<1>2. TypeOK' /\ Control'
  BY <1>1 DEF IInv, TypeOK, Control
<1>3. ScheduledRunnable' /\ NoLostWakeup' /\ InterruptsNeedProcess'
  BY DEF IInv, ScheduledRunnable, NoLostWakeup, InterruptsNeedProcess
<1> QED  BY <1>2, <1>3 DEF IInv

\* Stuttering preserves the invariant.
LEMMA StutterKeeps ==
  ASSUME IInv, UNCHANGED vars PROVE IInv'
<1> USE DEF vars, kernelVars, statusVars, procVars, keyboardVars, memoryVars, picVars
<1>1. TypeOK' /\ Control'
  BY DEF IInv, TypeOK, Control
<1>2. ScheduledRunnable' /\ NoLostWakeup' /\ InterruptsNeedProcess'
  BY DEF IInv, ScheduledRunnable, NoLostWakeup, InterruptsNeedProcess
<1> QED  BY <1>1, <1>2 DEF IInv

\* The invariant behind the three theorems that follow holds in every
\* reachable state.
THEOREM Invariance == Spec => []IInv
<1>1. SysInit => IInv
  BY InitHolds
<1>2. IInv /\ [Next]_vars => IInv'
  <2> SUFFICES ASSUME IInv, [Next]_vars PROVE IInv'
    OBVIOUS
  <2>1. CASE KernelStep
    BY <2>1, BootKeeps, SyscallKeeps, TimerKeeps, KeyboardKeeps DEF KernelStep
  <2>2. CASE dummy_loop
    BY <2>2, DummyKeeps
  <2>3. CASE Shell
    BY <2>3, ShellKeeps
  <2>4. CASE KeyTyped
    BY <2>4, KeyTypedKeeps
  <2>5. CASE Halted /\ UNCHANGED running
    BY <2>5, StutterKeeps DEF Halted, vars
  <2>6. CASE UNCHANGED vars
    BY <2>6, StutterKeeps
  <2> QED  BY <2>1, <2>2, <2>3, <2>4, <2>5, <2>6 DEF Next
<1> QED  BY <1>1, <1>2, PTL DEF Spec

\* Every variable keeps its type: the ring indices stay inside kb_buffer, the
\* scheduler's choice inside procs, the page tables inside memory.
THEOREM TypeCorrect == Spec => []TypeOK
<1>1. IInv => TypeOK
  BY DEF IInv
<1> QED  BY <1>1, Invariance, PTL

\* schedule() and the handlers that make processes runnable, blocked or free
\* never leave the processor with a process that may not run, nor idle while
\* another could run; for any number of process slots.
THEOREM Scheduling == Spec => []ScheduledRunnable
<1>1. IInv => ScheduledRunnable
  BY DEF IInv
<1> QED  BY <1>1, Invariance, PTL

\* getchar and the keyboard handler never lose a wake-up: whoever sleeps is
\* the one the handler knows of, and the buffer is empty; for any buffer
\* size, with or without type-ahead.
THEOREM Wakeups == Spec => []NoLostWakeup
<1>1. IInv => NoLostWakeup
  BY DEF IInv
<1> QED  BY <1>1, Invariance, PTL

\* No interrupt reaches exception() before there is a current process.
THEOREM InterruptsLate == Spec => []InterruptsNeedProcess
<1>1. IInv => InterruptsNeedProcess
  BY DEF IInv
<1> QED  BY <1>1, Invariance, PTL

----------------------------------------------------------------------------
\* The frames.

\* What makes UserPagesOwned inductive: the frames of a slot are either
\* untouched or already counted once for their own process, so that the -1
\* assign_physical_page returns on a restart is harmless.
SlotFrames ==
  \A p \in ProcId : \A f \in slot_pages(p) :
    \/ frames_info[f].refcount = 0
    \/ frames_info[f] = [owner |-> p, refcount |-> 1]

MInv == UserPagesOwned /\ SlotFrames

\* The slot of process p lies in memory, above the kernel and the I/O hole.
LEMMA SlotInMemory ==
  ASSUME NEW p \in ProcId, NEW f \in slot_pages(p)
  PROVE  f \in Frame /\ f >= PROC_START
<1> DEFINE d == p * PROC_PAGES
           e == (PROC_NUMBER - 1 - p) * PROC_PAGES
<1>1. /\ PROC_NUMBER \in Nat /\ PROC_PAGES \in Nat \ {0} /\ PROC_START \in Nat
      /\ FRAME_NUMBER \in Nat /\ p \in 0..(PROC_NUMBER - 1)
      /\ PROC_START + PROC_NUMBER * PROC_PAGES <= FRAME_NUMBER
  BY LayoutAssumption DEF ProcId
<1>2. d \in Nat /\ e \in Nat /\ d + PROC_PAGES + e = PROC_NUMBER * PROC_PAGES
  <2>1. d + PROC_PAGES + e = PROC_NUMBER * PROC_PAGES
    BY <1>1
  <2>2. \A a, b \in Nat : a * b \in Nat
    OBVIOUS
  <2>3. PROC_NUMBER - 1 - p \in Nat /\ p \in Nat
    BY <1>1
  <2> QED  BY <1>1, <2>1, <2>2, <2>3
<1>3. f \in (PROC_START + d)..(PROC_START + d + PROC_PAGES - 1)
  BY DEF slot_pages, user_base
<1> HIDE DEF d, e
<1> QED  BY <1>1, <1>2, <1>3 DEF Frame

\* Slots do not overlap.
LEMMA SlotsDisjoint ==
  ASSUME NEW p \in ProcId, NEW q \in ProcId, NEW f \in slot_pages(p),
         f \in slot_pages(q)
  PROVE  p = q
<1>1. /\ PROC_PAGES \in Nat \ {0} /\ PROC_START \in Nat
      /\ p \in Nat /\ q \in Nat
  BY LayoutAssumption DEF ProcId
<1>2. ASSUME NEW a \in Nat, NEW b \in Nat, a < b
      PROVE  a * PROC_PAGES + PROC_PAGES <= b * PROC_PAGES
  <2>1. PICK c \in Nat : b = a + 1 + c
    <3>1. b - a - 1 \in Nat /\ b = a + 1 + (b - a - 1)
      BY <1>2
    <3> QED  BY <3>1
  <2>2. b * PROC_PAGES = a * PROC_PAGES + PROC_PAGES + c * PROC_PAGES
    BY <1>1, <2>1
  <2>3. c * PROC_PAGES \in Nat /\ a * PROC_PAGES \in Nat
    BY <1>1
  <2> QED  BY <1>1, <2>2, <2>3
<1> DEFINE dp == p * PROC_PAGES
           dq == q * PROC_PAGES
<1>3. /\ f \in (PROC_START + dp)..(PROC_START + dp + PROC_PAGES - 1)
      /\ f \in (PROC_START + dq)..(PROC_START + dq + PROC_PAGES - 1)
  BY DEF slot_pages, user_base
<1>4. dp \in Nat /\ dq \in Nat
  BY <1>1
<1>5. (p < q => dp + PROC_PAGES <= dq) /\ (q < p => dq + PROC_PAGES <= dp)
  BY <1>1, <1>2
<1> HIDE DEF dp, dq
<1> QED  BY <1>1, <1>3, <1>4, <1>5

\* What load_process maps stays inside the slot.
LEMMA LoadedInSlot ==
  ASSUME NEW p \in Programs
  PROVE  loaded_pages(p, p) \subseteq slot_pages(p)
<1>1. ImagePages[p] \in Nat \ {0} /\ ImagePages[p] < PROC_PAGES
  BY LayoutAssumption
<1>2. user_base(p) \in Int /\ PROC_PAGES \in Nat \ {0}
  <2>1. p \in Int /\ PROC_START \in Int /\ PROC_PAGES \in Nat \ {0}
    BY LayoutAssumption DEF Programs, P_IDLE, P_SHELL, P_DUMMY1, P_DUMMY2
  <2> QED  BY <2>1 DEF user_base
<1> QED
  BY <1>1, <1>2 DEF loaded_pages, image_pages, stack_pages, slot_pages

\* Loading a program, for the first time or again.
LEMMA MapKeeps ==
  ASSUME TypeOK, MInv, NEW p \in Programs, MapProgram(p, p)
  PROVE  MInv'
<1> DEFINE pages == loaded_pages(p, p)
           good(f, q) == frames_info'[f] = [owner |-> q, refcount |-> 1]
<1>1. /\ p \in ProcId /\ pages \subseteq slot_pages(p)
  BY ProgramsAreProcesses, LoadedInSlot
<1>2. \A f \in Frame :
        /\ pagetable'[f] = IF f \in pages THEN Flags ELSE pagetable[f]
        /\ frames_info'[f] = IF f \in pages /\ frames_info[f].refcount = 0
                             THEN [owner |-> p, refcount |-> 1]
                             ELSE frames_info[f]
  BY DEF MapProgram, map_pages, assign_physical_pages
<1> HIDE DEF pages
<1>3. \A f \in pages : f \in Frame /\ good(f, p)
  BY <1>1, <1>2, SlotInMemory DEF MInv, SlotFrames
<1>4. UserPagesOwned'
  <2> SUFFICES ASSUME NEW f \in Frame, PTE_U \in pagetable'[f]
               PROVE  \E q \in ProcId : f \in slot_pages(q) /\ good(f, q)
    BY DEF UserPagesOwned
  <2>1. CASE f \in pages
    BY <1>1, <1>3, <2>1
  <2>2. CASE f \notin pages
    BY <1>2, <2>2 DEF MInv, UserPagesOwned
  <2> QED  BY <2>1, <2>2
<1>5. SlotFrames'
  <2> SUFFICES ASSUME NEW q \in ProcId, NEW f \in slot_pages(q)
               PROVE  frames_info'[f].refcount = 0 \/ good(f, q)
    BY DEF SlotFrames
  <2>1. CASE f \in pages
    BY <1>1, <1>3, <2>1, SlotsDisjoint
  <2>2. CASE f \notin pages
    BY <1>2, <2>2, SlotInMemory DEF MInv, SlotFrames
  <2> QED  BY <2>1, <2>2
<1> QED  BY <1>4, <1>5 DEF MInv

\* init_virtual_memory leaves no user page and every slot unowned.
LEMMA FreshMemory ==
  ASSUME pagetable' = kernel_pagetable, frames_info' = init_framing
  PROVE  MInv'
<1>1. ASSUME NEW p \in ProcId, NEW f \in slot_pages(p)
      PROVE  frames_info'[f].refcount = 0
  <2>1. f \in Frame /\ f >= PROC_START /\ f \in Int
    BY <1>1, SlotInMemory, LayoutAssumption DEF Frame
  <2>2. ~physical_memory_isreserved(f) /\ ~(f >= KERNEL_START /\ f < KERNEL_END)
    BY <2>1, LayoutAssumption DEF physical_memory_isreserved
  <2> QED  BY <2>1, <2>2 DEF init_framing
<1>2. \A f \in Frame : PTE_U \notin pagetable'[f]
  BY DEF kernel_pagetable, PTE_U, PTE_P, PTE_W
<1> QED  BY <1>1, <1>2 DEF MInv, UserPagesOwned, SlotFrames

\* Every page user code can reach is in its process's slot and owned once,
\* however often programs are started, stopped and restarted.
THEOREM MemoryOwned == Spec => []UserPagesOwned
<1>1. SysInit => MInv
  <2> SUFFICES ASSUME SysInit PROVE MInv
    OBVIOUS
  <2>1. \A f \in Frame : PTE_U \notin pagetable[f] /\ frames_info[f].refcount = 0
    BY DEF SysInit, Init
  <2> QED  BY <2>1, SlotInMemory DEF MInv, UserPagesOwned, SlotFrames
<1>2. IInv /\ MInv /\ [Next]_vars => MInv'
  <2> SUFFICES ASSUME IInv, MInv, [Next]_vars PROVE MInv'
    OBVIOUS
  <2>0. TypeOK
    BY DEF IInv
  <2>1. CASE UNCHANGED memoryVars
    BY <2>1 DEF MInv, UserPagesOwned, SlotFrames, memoryVars
  <2>2. CASE init_virtual_memory
    BY <2>2, FreshMemory DEF init_virtual_memory
  <2>3. CASE init_processes \/ launch_shell
    BY <2>0, <2>3, MapKeeps DEF init_processes, launch_shell, Programs
  <2>4. CASE sys_start /\ sys_start_assert = "none"
    <3>1. cpu.rdi \in Programs
      BY <2>4, ProgramsAreProcesses DEF sys_start_assert
    <3>2. MapProgram(cpu.rdi, cpu.rdi)
      BY <2>4 DEF sys_start
    <3> QED  BY <2>0, <3>1, <3>2, MapKeeps
  <2>5. CASE KernelStep
    <3>1. CASE Boot
      BY <2>1, <2>2, <2>3, <3>1 DEF Boot, setupInterrupts, setupDrive
    <3>2. CASE Syscall
      <4>1. CASE sys_start /\ sys_start_assert # "none"
        BY <2>1, <4>1 DEF sys_start, AssertFails
      <4>2. CASE sys_stop
        BY <2>1, <4>2 DEF sys_stop, AssertFails, memoryVars
      <4> QED
        BY <2>1, <2>4, <3>2, <4>1, <4>2
           DEF Syscall, sys_write_char_handler, sys_cursor_handler, sys_yield,
               sys_enable_kb_tim, sys_getchar_blocks, sys_getchar_reads,
               sys_list_files_handler, sys_fs_handler, sys_fs_fails
    <3>3. CASE time_handler \/ keyboard_handler
      BY <2>1, <3>3 DEF time_handler, keyboard_handler,
                        keyboard_handler_delivers, keyboard_handler_buffers
    <3> QED  BY <2>5, <3>1, <3>2, <3>3 DEF KernelStep
  <2>6. CASE dummy_loop \/ Shell
    BY <2>1, <2>6
       DEF dummy_loop, Shell, shell_key, shell_command, shell_load,
           shell_start_test, shell_stop_test, shell_ls_test, shell_find_test,
           UserStep
  <2>7. CASE KeyTyped \/ (Halted /\ UNCHANGED running) \/ UNCHANGED vars
    BY <2>1, <2>7 DEF KeyTyped, Halted, vars, kernelVars
  <2> QED  BY <2>5, <2>6, <2>7 DEF Next
<1>3. MInv => UserPagesOwned
  BY DEF MInv
<1> QED  BY <1>1, <1>2, <1>3, Invariance, PTL DEF Spec

----------------------------------------------------------------------------
(***************************************************************************)
(* The registers the kernel saves for each process and what the shell      *)
(* relies on them for: ContextIntegrity for every value of the constants,  *)
(* and AssertionsHold for a person who types one key at a time.            *)
(*                                                                         *)
(* Then the keyboard path implements KeyService: the interrupts, the ring  *)
(* buffer, blocking in getchar and waking up give the shell every key once *)
(* and in order, for every buffer size, every set of keys and any number   *)
(* of processes, as long as keys come one at a time and, once the shell    *)
(* has slept, only while it sleeps.                                        *)
(***************************************************************************)

\* Until launch_shell runs it there is no current process.
BootAlone == mode \in BootSteps => current = NULL

\* kernel() is the only code before the first process runs.
LEMMA BootAloneKept ==
  ASSUME IInv, BootAlone, [Next]_vars PROVE BootAlone'
<1> USE DEF BootAlone, statusVars, procVars
<1>1. CASE Boot
  BY <1>1 DEF Boot, init_virtual_memory, setupInterrupts, setupDrive,
              init_processes, launch_shell, Fail, BootSteps
<1>2. CASE Syscall
  <2>1. CASE sys_start
    BY <2>1 DEF sys_start, AssertFails, Fail, Trap, BootSteps
  <2>2. CASE sys_stop
    BY <2>2 DEF sys_stop, AssertFails, Fail, Trap, BootSteps
  <2>3. CASE sys_fs_fails
    BY <2>3 DEF sys_fs_fails, Fail, BootSteps
  <2>4. CASE sys_fs_handler
    BY <2>4 DEF sys_fs_handler, Trap, BootSteps
  <2> QED
    BY <1>2, <2>1, <2>2, <2>3, <2>4
       DEF Syscall, sys_write_char_handler, sys_cursor_handler, sys_yield,
           sys_enable_kb_tim, sys_getchar_blocks, sys_getchar_reads,
           sys_list_files_handler, Trap, BootSteps
<1>3. CASE time_handler \/ keyboard_handler
  BY <1>3 DEF time_handler, keyboard_handler, keyboard_handler_delivers,
              keyboard_handler_buffers, KeyboardIrq, Deliverable, BootSteps
<1>4. CASE dummy_loop \/ Shell
  BY <1>4
     DEF dummy_loop, Shell, shell_key, shell_command, shell_load,
         shell_start_test, shell_stop_test, shell_ls_test, shell_find_test,
         UserStep
<1>5. CASE KeyTyped \/ (Halted /\ UNCHANGED running) \/ UNCHANGED vars
  BY <1>5 DEF KeyTyped, Halted, vars, kernelVars
<1> QED  BY <1>1, <1>2, <1>3, <1>4, <1>5 DEF Next, KernelStep

\* What a step may do to the saved registers of a process p that is not the
\* running one.
Untouched(p) ==
  \/ procs'[p].reg = procs[p].reg
  \/ /\ p = keyboard_waiting
     /\ \E c \in Char : procs'[p].reg = [procs[p].reg EXCEPT !.rax = c]

\* A system call writes the caller's registers only; sys_start writes those
\* of a slot that was free.
LEMMA SyscallContext ==
  ASSUME IInv, Syscall, NEW p \in ProcId \ {current}, procs[p].state # P_FREE
  PROVE  procs'[p].reg = procs[p].reg
<1>1. \A n : Trap(n) => TrapSaved[p] = procs[p] /\ TrapSaved \in [ProcId -> Proc]
  BY TrapFacts DEF GoodTable
<1>2. CASE \/ sys_write_char_handler \/ sys_cursor_handler \/ sys_yield
           \/ sys_enable_kb_tim \/ sys_fs_handler \/ sys_fs_fails
  BY <1>1, <1>2
     DEF sys_write_char_handler, sys_cursor_handler, sys_yield,
         sys_enable_kb_tim, sys_fs_handler, sys_fs_fails, Return, run
<1>3. CASE sys_list_files_handler \/ sys_getchar_reads
  <2>1. PICK v, n, r : Trap(n) /\ Return(WithRax(TrapSaved, current, v), r)
    BY <1>3 DEF sys_list_files_handler, sys_getchar_reads
  <2> QED  BY <1>1, <2>1 DEF Return, run, WithRax
<1>4. CASE sys_getchar_blocks
  BY <1>1, <1>4 DEF sys_getchar_blocks, Return, run, WithState
<1>5. CASE sys_start
  <2>1. CASE sys_start_assert # "none"
    BY <1>1, <1>5, <2>1 DEF sys_start, AssertFails
  <2>2. CASE sys_start_assert = "none"
    <3>1. procs[cpu.rdi].state = P_FREE
      BY <2>2 DEF sys_start_assert
    <3>2. p # cpu.rdi
      BY <3>1
    <3> QED
      BY <1>1, <1>5, <2>2, <3>2 DEF sys_start, Return, run, Loaded
  <2> QED  BY <2>1, <2>2
<1>6. CASE sys_stop
  <2>1. CASE sys_stop_assert # "none"
    BY <1>1, <1>6, <2>1 DEF sys_stop, AssertFails
  <2>2. CASE sys_stop_assert = "none"
    <3>1. procs' = WithState(TrapSaved, cpu.rdi, P_FREE)
      BY <1>6, <2>2 DEF sys_stop, Return, run
    <3>2. TrapSaved[p] = procs[p] /\ TrapSaved \in [ProcId -> Proc]
      BY <1>1, <1>6 DEF sys_stop
    <3> QED  BY <3>1, <3>2 DEF WithState, Proc
  <2> QED  BY <2>1, <2>2
<1> QED  BY <1>2, <1>3, <1>4, <1>5, <1>6 DEF Syscall

\* An interrupt writes the interrupted process's registers, and the keyboard
\* handler the %rax of the process it knows of.
LEMMA InterruptContext ==
  ASSUME IInv, time_handler \/ keyboard_handler, NEW p \in ProcId \ {current}
  PROVE  Untouched(p)
<1>1. mode = "user"
  BY DEF time_handler, keyboard_handler, keyboard_handler_delivers,
         keyboard_handler_buffers, KeyboardIrq, Deliverable
<1>2. /\ Saved(cpu.rip)[p] = procs[p] /\ Saved(cpu.rip) \in [ProcId -> Proc]
  BY <1>1, InterruptFacts DEF GoodTable
<1>3. CASE time_handler
  BY <1>2, <1>3 DEF time_handler, Return, run, Untouched
<1>4. CASE keyboard_handler_buffers
  BY <1>2, <1>4 DEF keyboard_handler_buffers, Return, run, Untouched
<1>5. CASE keyboard_handler_delivers
  <2> DEFINE c == kb_first(Put(Head(i8042)))
             w == keyboard_waiting
  <2>1. c \in Char
    BY <1>5, KeyboardIrqFacts, RingType DEF keyboard_handler_delivers
  <2>2. procs' = WithState(WithRax(Saved(cpu.rip), w, c), w, P_RUNNABLE)
    BY <1>5 DEF keyboard_handler_delivers, run
  <2> HIDE DEF c
  <2>3. CASE p = w
    BY <1>2, <2>1, <2>2, <2>3 DEF WithState, WithRax, Untouched, Proc
  <2>4. CASE p # w
    BY <1>2, <2>2, <2>4 DEF WithState, WithRax, Untouched
  <2> QED  BY <2>3, <2>4
<1> QED  BY <1>3, <1>4, <1>5 DEF keyboard_handler

\* The context of a process is its own: whatever another process does,
\* whichever interrupt comes and however processes are started and stopped,
\* the registers exception() saved for it are those exception_return will
\* restore, but for the %rax the keyboard handler writes.
THEOREM ContextsKept == Spec => ContextIntegrity
<1>1. SysInit => BootAlone
  BY DEF SysInit, Init, BootAlone
<1>2. IInv /\ BootAlone /\ [Next]_vars => BootAlone'
  BY BootAloneKept
<1> DEFINE A == \A p \in ProcId \ {current} :
                  current # NULL /\ procs[p].state # P_FREE =>
                    \/ procs'[p].reg = procs[p].reg
                    \/ /\ p = keyboard_waiting
                       /\ \E c \in Char :
                            procs'[p].reg = [procs[p].reg EXCEPT !.rax = c]
<1>3. IInv /\ BootAlone /\ [Next]_vars => [A]_vars
  <2> SUFFICES ASSUME IInv, BootAlone, [Next]_vars, ~ UNCHANGED vars,
                      NEW p \in ProcId \ {current},
                      current # NULL, procs[p].state # P_FREE
               PROVE  Untouched(p)
    BY DEF Untouched
  <2>1. CASE Boot
    BY <2>1 DEF Boot, init_virtual_memory, setupInterrupts, setupDrive,
                init_processes, launch_shell, BootSteps, BootAlone
  <2>2. CASE Syscall
    BY <2>2, SyscallContext DEF Untouched
  <2>3. CASE time_handler \/ keyboard_handler
    BY <2>3, InterruptContext
  <2>4. CASE dummy_loop \/ Shell
    BY <2>4
       DEF dummy_loop, Shell, shell_key, shell_command, shell_load,
           shell_start_test, shell_stop_test, shell_ls_test, shell_find_test,
           UserStep, Untouched
  <2>5. CASE KeyTyped \/ (Halted /\ UNCHANGED running)
    BY <2>5 DEF KeyTyped, Halted, vars, kernelVars, procVars, Untouched
  <2> QED  BY <2>1, <2>2, <2>3, <2>4, <2>5 DEF Next, KernelStep
<1> QED  BY <1>1, <1>2, <1>3, Invariance, PTL DEF Spec, ContextIntegrity

----------------------------------------------------------------------------
\* The shell's flags.

\* What the shell's registers rg, the process table ps and the flags fl have
\* to do with each other: a flag says whether its process runs, except
\* between the assignment and the call that makes it true, and %rax is the
\* flag between the load and the test.
FlagsAgree(rg, ps, fl) ==
  /\ rg.rip \in {"sh_start_test", "sh_stop_test"} => rg.rax = fl[rg.rdi]
  /\ rg.rip = "sh_sys_start" => fl[rg.rdi] = 1
  /\ rg.rip = "sh_sys_stop" => fl[rg.rdi] = 0
  /\ \A p \in Startable :
       (ps[p].state = P_FREE) <=>
         (fl[p] = IF rg.rip \in {"sh_sys_start", "sh_sys_stop"} /\ rg.rdi = p
                  THEN 1 ELSE 0)

\* With keys that come one at a time, and once the shell has slept only while
\* it sleeps, no character is delivered to a shell that is awake.
KeysInTime ==
  /\ Len(i8042) <= 1
  /\ keyboard_waiting # NULL =>
       i8042 = <<>> \/ procs[P_SHELL].state = P_BLOCKED
  /\ procs[P_SHELL].state = P_BLOCKED => procs[P_SHELL].reg.rip = "sh_got"

\* The invariant behind AssertionsHold.
PInv ==
  /\ AssertionsHold
  /\ mode \in BootSteps =>
       /\ keyboard_waiting = NULL /\ Len(i8042) <= 1
       /\ \A p \in Startable : running[p] = 0
       /\ mode = "launch_shell" => \A p \in Startable : procs[p].state = P_FREE
  /\ mode = "user" => KeysInTime /\ FlagsAgree(ShellReg, procs, running)

\* The labels at which FlagsAgree says more than that the flags are right.
Between == {"sh_start_test", "sh_stop_test", "sh_sys_start", "sh_sys_stop"}

\* Facts about labels and states that the steps below share.
LEMMA ShellFacts ==
  ASSUME IInv, mode = "user"
  PROVE  /\ P_SHELL \in ProcId /\ Startable \subseteq ProcId \ {P_SHELL}
         /\ procs \in [ProcId -> Proc] /\ cpu \in Reg /\ current \in ProcId
         /\ procs[current].state = P_RUNNABLE
         /\ GoodReg(P_SHELL, ShellReg) /\ ShellReg \in Reg
         /\ current = P_SHELL <=> cpu.rip \in ShellLabels
<1>1. /\ P_SHELL \in ProcId /\ Startable \subseteq ProcId \ {P_SHELL}
      /\ P_SHELL # P_IDLE
  BY ProgramsAreProcesses
     DEF Programs, Startable, P_IDLE, P_SHELL, P_DUMMY1, P_DUMMY2
<1>2. /\ procs \in [ProcId -> Proc] /\ cpu \in Reg /\ current \in ProcId
      /\ procs[current].state = P_RUNNABLE /\ GoodReg(current, cpu)
      /\ procs[P_SHELL].state # P_FREE /\ GoodTable(procs)
  BY DEF IInv, TypeOK, Control, ScheduledRunnable
<1>3. GoodReg(P_SHELL, ShellReg) /\ ShellReg \in Reg
  BY <1>1, <1>2 DEF ShellReg, GoodTable, Proc
<1>4. Code(P_SHELL) = ShellLabels
  BY DEF Code, P_IDLE, P_SHELL
<1>5. current = P_SHELL <=> cpu.rip \in ShellLabels
  BY <1>2, <1>4, TrapOwner DEF GoodReg
<1> QED  BY <1>1, <1>2, <1>3, <1>5

\* The ways back to user mode.
LEMMA UserPatient ==
  ASSUME PInv, mode' = "user", failed' = failed, KeysInTime',
         FlagsAgree(ShellReg', procs', running')
  PROVE  PInv'
BY DEF PInv, AssertionsHold, BootSteps

\* exception_return restores what the table holds, for the shell too.
LEMMA ReturnShell ==
  ASSUME NEW ps, NEW r, Return(ps, r)
  PROVE  procs' = ps /\ ShellReg' = ps[P_SHELL].reg
BY DEF Return, run, ShellReg

\* The flags stay right as long as no dummy changes state and the shell
\* leaves no assignment half done.
LEMMA FlagsKept ==
  ASSUME NEW rg, NEW ps, NEW fl, FlagsAgree(rg, ps, fl), NEW rg2, NEW ps2,
         \A p \in Startable : ps2[p].state = ps[p].state,
         \/ rg2 = rg
         \/ /\ rg2.rip \notin Between
            /\ rg.rip \notin {"sh_sys_start", "sh_sys_stop"}
  PROVE  FlagsAgree(rg2, ps2, fl)
BY DEF FlagsAgree, Between

\* A system call that neither starts nor stops a process, and blocks none.
LEMMA QuietPatient ==
  ASSUME IInv, PInv, NEW n, Trap(n), n \notin {SYS_START_INT, SYS_STOP_INT},
         NEW ps, NEW r, Return(ps, r),
         \A p \in ProcId : ps[p].state = procs[p].state,
         \A p \in ProcId \ {current} : ps[p] = procs[p],
         ps[current].reg.rip = After[cpu.rip],
         UNCHANGED <<statusVars, keyboard_waiting, i8042, running>>
  PROVE  PInv'
<1> USE DEF statusVars
<1>1. /\ mode = "user" /\ current \in ProcId /\ cpu.rip \in Traps
      /\ IntNo[cpu.rip] = n /\ procs[current].state = P_RUNNABLE
      /\ P_SHELL \in ProcId /\ Startable \subseteq ProcId \ {P_SHELL}
  BY TrapFacts, ShellFacts
<1>2. cpu.rip \notin {"sh_sys_start", "sh_sys_stop"}
  BY <1>1 DEF IntNo, Traps, ShellTraps, DummyTraps, FsTraps
<1>3. ps[P_SHELL].reg = ShellReg \/ ps[P_SHELL].reg.rip \notin Between
  <2>1. After[cpu.rip] \notin Between
    BY <1>1, TrapLabels DEF Between, OperandLabels
  <2> QED  BY <1>1, <2>1 DEF ShellReg
<1>4. ps[P_SHELL].reg = ShellReg
        \/ ShellReg.rip \notin {"sh_sys_start", "sh_sys_stop"}
  BY <1>1, <1>2 DEF ShellReg
<1>5. FlagsAgree(ps[P_SHELL].reg, ps, running)
  <2>1. FlagsAgree(ShellReg, procs, running)
    BY <1>1 DEF PInv
  <2> QED  BY <1>1, <1>3, <1>4, <2>1, FlagsKept
<1>6. KeysInTime'
  BY <1>1, ReturnShell DEF PInv, KeysInTime, P_RUNNABLE, P_BLOCKED
<1> QED  BY <1>1, <1>5, <1>6, ReturnShell, UserPatient

\* A system call: the assertions of sys_start and sys_stop hold because the
\* shell asks for what its flags, and so the table, allow.
LEMMA SyscallPatient ==
  ASSUME IInv, PInv, Syscall, UNCHANGED running
  PROVE  PInv'
<1> USE DEF keyboardVars
<1>0. \A n : Trap(n) =>
        /\ mode = "user" /\ GoodTable(TrapSaved) /\ current \in ProcId
        /\ \A p \in ProcId : TrapSaved[p].state = procs[p].state
        /\ \A p \in ProcId \ {current} : TrapSaved[p] = procs[p]
        /\ TrapSaved[current].reg = [cpu EXCEPT !.rip = After[cpu.rip]]
        /\ TrapSaved[current].reg.rip = After[cpu.rip]
  <2> SUFFICES ASSUME NEW n, Trap(n)
               PROVE  /\ mode = "user" /\ GoodTable(TrapSaved) /\ current \in ProcId
                      /\ \A p \in ProcId : TrapSaved[p].state = procs[p].state
                      /\ \A p \in ProcId \ {current} : TrapSaved[p] = procs[p]
                      /\ TrapSaved[current].reg = [cpu EXCEPT !.rip = After[cpu.rip]]
                      /\ TrapSaved[current].reg.rip = After[cpu.rip]
    OBVIOUS
  <2> QED  BY TrapFacts, ShellFacts DEF Reg
<1>1. CASE \/ sys_write_char_handler \/ sys_cursor_handler \/ sys_yield
           \/ sys_enable_kb_tim \/ sys_fs_handler
  <2>1. PICK n, r : /\ Trap(n) /\ n \notin {SYS_START_INT, SYS_STOP_INT}
                    /\ Return(TrapSaved, r)
                    /\ UNCHANGED <<statusVars, keyboard_waiting, i8042>>
    BY <1>1 DEF sys_write_char_handler, sys_cursor_handler, sys_yield,
         sys_enable_kb_tim, sys_fs_handler, FsInts, SYS_WRITE_CHAR_INT,
         SYS_CURSOR_INT, SYS_YIELD_INT, SYS_ENABLE_KB_TIM_INT, SYS_MKDIR_INT,
         SYS_CD_INT, SYS_RM_INT, SYS_READ_INT, SYS_WRITE_INT, SYS_START_INT,
         SYS_STOP_INT
  <2> QED  BY <1>0, <2>1, QuietPatient
<1>2. CASE sys_list_files_handler \/ sys_getchar_reads
  <2>1. PICK n, r, v : /\ Trap(n) /\ n \notin {SYS_START_INT, SYS_STOP_INT}
                       /\ Return(WithRax(TrapSaved, current, v), r) /\ v \in Int
                       /\ UNCHANGED <<statusVars, keyboard_waiting, i8042>>
    <3>1. CASE sys_list_files_handler
      BY <3>1, FileIndexAssumption DEF sys_list_files_handler,
           SYS_LIST_FILES_INT, SYS_START_INT, SYS_STOP_INT
    <3>2. CASE sys_getchar_reads
      <4>1. kb_first(kb) \in Int
        BY RingType, RestFromInv DEF RestTyped, Char
      <4> QED  BY <3>2, <4>1 DEF sys_getchar_reads, SYS_GETCHAR_INT,
                                 SYS_START_INT, SYS_STOP_INT
    <3> QED  BY <1>2, <3>1, <3>2
  <2>2. GoodTable(TrapSaved) /\ current \in ProcId
    BY <1>0, <2>1
  <2> DEFINE ps == WithRax(TrapSaved, current, v)
  <2>3. /\ \A q \in ProcId : ps[q].state = TrapSaved[q].state
        /\ \A q \in ProcId \ {current} : ps[q] = TrapSaved[q]
        /\ ps[current].reg.rip = TrapSaved[current].reg.rip
    BY <2>1, <2>2, RaxGood
  <2> HIDE DEF ps
  <2>4. /\ \A q \in ProcId : ps[q].state = procs[q].state
        /\ \A q \in ProcId \ {current} : ps[q] = procs[q]
        /\ ps[current].reg.rip = After[cpu.rip]
    BY <1>0, <2>1, <2>3
  <2>5. Return(ps, r)
    BY <2>1 DEF ps
  <2> QED  BY <2>1, <2>4, <2>5, QuietPatient
<1>3. CASE sys_getchar_blocks
  <2> DEFINE ps == WithState(TrapSaved, current, P_BLOCKED)
  <2>1. /\ Trap(SYS_GETCHAR_INT) /\ keyboard_waiting' = current
        /\ UNCHANGED <<statusVars, i8042>> /\ Return(ps, 1)
    BY <1>3 DEF sys_getchar_blocks
  <2>2. cpu.rip = "sh_getchar" /\ After[cpu.rip] = "sh_got"
    <3>1. cpu.rip \in Traps /\ IntNo[cpu.rip] = SYS_GETCHAR_INT
      BY <2>1 DEF Trap
    <3>2. cpu.rip = "sh_getchar"
      BY <3>1 DEF IntNo, Traps, DummyTraps, ShellTraps, FsTraps,
            SYS_GETCHAR_INT, SYS_WRITE_CHAR_INT, SYS_CURSOR_INT,
            SYS_LIST_FILES_INT, SYS_MKDIR_INT, SYS_CD_INT, SYS_RM_INT,
            SYS_ENABLE_KB_TIM_INT, SYS_YIELD_INT, SYS_START_INT, SYS_STOP_INT,
            SYS_READ_INT, SYS_WRITE_INT
    <3> QED  BY <3>1, <3>2 DEF After, Traps, ShellTraps
  <2>3. /\ mode = "user" /\ current = P_SHELL /\ P_SHELL \in ProcId
        /\ Startable \subseteq ProcId \ {P_SHELL}
    BY <1>0, <2>1, <2>2, ShellFacts DEF ShellLabels, ShellTraps
  <2>4. /\ ps[P_SHELL].state = P_BLOCKED /\ ps[P_SHELL].reg.rip = "sh_got"
        /\ \A p \in Startable : ps[p].state = procs[p].state
    <3>1. TrapSaved \in [ProcId -> Proc] /\ TrapSaved[P_SHELL].reg.rip = "sh_got"
      BY <1>0, <2>1, <2>2, <2>3 DEF GoodTable
    <3> QED  BY <1>0, <2>1, <2>3, <3>1 DEF WithState, Proc
  <2> HIDE DEF ps
  <2>5. KeysInTime'
    BY <2>1, <2>3, <2>4, ReturnShell DEF PInv, KeysInTime
  <2>6. FlagsAgree(ps[P_SHELL].reg, ps, running)
    <3>1. FlagsAgree(ShellReg, procs, running) /\ ShellReg.rip = "sh_getchar"
      BY <2>2, <2>3 DEF PInv, ShellReg
    <3> QED  BY <2>4, <3>1, FlagsKept DEF Between
  <2> QED  BY <2>1, <2>3, <2>5, <2>6, ReturnShell, UserPatient DEF statusVars
<1>4. CASE sys_fs_fails
  BY <1>4 DEF sys_fs_fails, Fail, PInv, AssertionsHold, BootSteps
<1>5. CASE sys_start \/ sys_stop
  <2> DEFINE q == cpu.rdi
  <2>1. PICK n \in {SYS_START_INT, SYS_STOP_INT} : Trap(n)
    BY <1>5 DEF sys_start, sys_stop
  <2>2. /\ cpu.rip \in Traps /\ IntNo[cpu.rip] = n
        /\ (sys_start => IntNo[cpu.rip] = SYS_START_INT)
        /\ (sys_stop => IntNo[cpu.rip] = SYS_STOP_INT)
    BY <2>1 DEF Trap, sys_start, sys_stop
  <2>3. /\ (sys_start => cpu.rip = "sh_sys_start")
        /\ (sys_stop => cpu.rip = "sh_sys_stop")
    BY <2>2 DEF IntNo, Traps, DummyTraps, ShellTraps, FsTraps,
          SYS_GETCHAR_INT, SYS_WRITE_CHAR_INT, SYS_CURSOR_INT,
          SYS_LIST_FILES_INT, SYS_MKDIR_INT, SYS_CD_INT, SYS_RM_INT,
          SYS_ENABLE_KB_TIM_INT, SYS_YIELD_INT, SYS_START_INT, SYS_STOP_INT,
          SYS_READ_INT, SYS_WRITE_INT
  <2>4. /\ mode = "user" /\ current = P_SHELL /\ P_SHELL \in ProcId
        /\ Startable \subseteq ProcId \ {P_SHELL} /\ cpu \in Reg
        /\ q \in Startable /\ GoodTable(procs)
    <3>1. mode = "user" /\ cpu.rip \in ShellLabels /\ cpu.rip \in OperandLabels
      BY <1>0, <1>5, <2>1, <2>3 DEF ShellLabels, ShellTraps, OperandLabels
    <3> QED  BY <3>1, ShellFacts DEF IInv, Control, GoodReg
  <2>5. FlagsAgree(cpu, procs, running)
    BY <2>4 DEF PInv, ShellReg
  <2>6. /\ (sys_start => procs[q].state = P_FREE /\ running[q] = 1)
        /\ (sys_stop => procs[q].state = P_RUNNABLE /\ running[q] = 0)
    <3>1. procs[q].state \in {P_FREE, P_RUNNABLE}
      BY <2>4 DEF GoodTable, Proc, PState
    <3> QED  BY <2>3, <2>4, <2>5, <3>1 DEF FlagsAgree
  <2> DEFINE ps == IF sys_start THEN Loaded(TrapSaved, q, q)
                                ELSE WithState(TrapSaved, q, P_FREE)
  <2>7. /\ Return(ps, reschedule)
        /\ UNCHANGED <<statusVars, keyboard_waiting, i8042>>
    <3>1. CASE sys_start
      <4>1. sys_start_assert = "none"
        BY <2>4, <2>6, <3>1 DEF sys_start_assert
      <4> QED  BY <3>1, <4>1 DEF sys_start
    <3>2. CASE sys_stop
      <4>1. sys_stop_assert = "none"
        BY <2>4, <2>6, <3>2 DEF sys_stop_assert
      <4>2. ~sys_start
        BY <2>3, <3>2
      <4> QED  BY <3>2, <4>1, <4>2 DEF sys_stop
    <3> QED  BY <1>5, <3>1, <3>2
  <2>8. /\ \A p \in ProcId \ {q} : ps[p] = TrapSaved[p]
        /\ ps[q].state = IF sys_start THEN P_RUNNABLE ELSE P_FREE
    <3>1. TrapSaved \in [ProcId -> Proc]
      BY <1>0, <2>1 DEF GoodTable
    <3> QED  BY <2>4, <3>1 DEF Loaded, WithState, Proc
  <2> HIDE DEF ps
  <2>9. /\ \A p \in Startable \ {q} : ps[p].state = procs[p].state
        /\ ps[P_SHELL].state = procs[P_SHELL].state
        /\ ps[P_SHELL].reg.rip = "sh_prompt"
    <3>1. After[cpu.rip] = "sh_prompt"
      BY <1>5, <2>3 DEF After, Traps, ShellTraps
    <3> QED  BY <1>0, <2>1, <2>4, <2>8, <3>1
  <2>10. FlagsAgree(ps[P_SHELL].reg, ps, running)
    BY <1>5, <2>3, <2>4, <2>5, <2>6, <2>8, <2>9 DEF FlagsAgree, P_FREE, P_RUNNABLE
  <2>11. KeysInTime'
    <3>1. procs[P_SHELL].state # P_BLOCKED
      BY <2>4, ShellFacts DEF P_RUNNABLE, P_BLOCKED
    <3> QED  BY <2>4, <2>7, <2>9, <3>1, ReturnShell DEF PInv, KeysInTime
  <2> QED  BY <2>4, <2>7, <2>10, <2>11, ReturnShell, UserPatient DEF statusVars
<1> QED  BY <1>1, <1>2, <1>3, <1>4, <1>5 DEF Syscall

\* An interrupt: the timer touches nothing, and a character only reaches a
\* shell that sleeps, whose next instruction wants it in %rax.
LEMMA InterruptPatient ==
  ASSUME IInv, PInv, time_handler \/ keyboard_handler, UNCHANGED running
  PROVE  PInv'
<1> DEFINE ss == Saved(cpu.rip)
<1>1. mode = "user" /\ mode' = "user" /\ failed' = failed
  BY DEF time_handler, keyboard_handler, keyboard_handler_delivers,
         keyboard_handler_buffers, KeyboardIrq, Deliverable, statusVars
<1>2. /\ P_SHELL \in ProcId /\ Startable \subseteq ProcId \ {P_SHELL}
      /\ current \in ProcId /\ procs[current].state = P_RUNNABLE /\ cpu \in Reg
      /\ ss \in [ProcId -> Proc]
      /\ \A p \in ProcId : ss[p].state = procs[p].state
      /\ \A p \in ProcId \ {current} : ss[p] = procs[p]
  BY <1>1, ShellFacts, InterruptFacts DEF GoodTable
<1>3. ss[P_SHELL].reg = ShellReg
  <2>1. [cpu EXCEPT !.rip = cpu.rip] = cpu
    BY <1>2 DEF Reg
  <2> QED  BY <1>1, <1>2, <2>1 DEF Saved, ShellReg, IInv, TypeOK, Proc
<1>4. /\ KeysInTime /\ FlagsAgree(ShellReg, procs, running)
      /\ procs[P_SHELL].state = P_BLOCKED => ss[P_SHELL].reg.rip = "sh_got"
  BY <1>1, <1>2 DEF PInv, KeysInTime, P_RUNNABLE, P_BLOCKED
<1>5. FlagsAgree(ss[P_SHELL].reg, ss, running)
  BY <1>2, <1>3, <1>4, FlagsKept
<1>6. KeyboardIrq => i8042 # <<>> /\ i8042' = <<>>
  <2> SUFFICES ASSUME KeyboardIrq PROVE i8042 # <<>> /\ i8042' = <<>>
    OBVIOUS
  <2>1. i8042 # <<>> /\ i8042' = Tail(i8042) /\ i8042 \in Seq(ScanCode)
    BY RestFromInv DEF KeyboardIrq, RestTyped
  <2>2. Len(i8042) <= 1
    BY <1>4 DEF KeysInTime
  <2> QED  BY <2>1, <2>2
<1> HIDE DEF ss
<1>7. CASE time_handler
  <2>1. Return(ss, 1) /\ UNCHANGED <<keyboard_waiting, i8042>>
    BY <1>7 DEF time_handler, keyboardVars, ss
  <2>2. KeysInTime'
    BY <1>2, <1>4, <2>1, ReturnShell DEF KeysInTime
  <2> QED  BY <1>1, <1>5, <2>1, <2>2, ReturnShell, UserPatient
<1>8. CASE keyboard_handler_buffers
  <2>1. Return(ss, reschedule) /\ KeyboardIrq
    BY <1>8 DEF keyboard_handler_buffers, ss
  <2>2. KeysInTime'
    BY <1>2, <1>4, <1>6, <2>1, ReturnShell DEF KeysInTime
  <2> QED  BY <1>1, <1>5, <2>1, <2>2, ReturnShell, UserPatient
<1>9. CASE keyboard_handler_delivers
  <2> DEFINE c  == kb_first(Put(Head(i8042)))
             ps == WithState(WithRax(ss, P_SHELL, c), P_SHELL, P_RUNNABLE)
  <2>1. /\ KeyboardIrq /\ keyboard_waiting # NULL
        /\ procs' = WithState(WithRax(ss, keyboard_waiting, c),
                              keyboard_waiting, P_RUNNABLE)
        /\ cpu' = procs'[current'].reg
    BY <1>9 DEF keyboard_handler_delivers, run, ss
  <2>2. keyboard_waiting = P_SHELL
    BY <2>1 DEF IInv, Control
  <2>3. ss[P_SHELL].reg.rip = "sh_got" /\ ShellReg.rip = "sh_got"
    BY <1>3, <1>4, <1>6, <2>1 DEF KeysInTime
  <2>4. /\ ps[P_SHELL].reg.rip = "sh_got" /\ ps[P_SHELL].state = P_RUNNABLE
        /\ \A p \in Startable : ps[p].state = procs[p].state
    <3> HIDE DEF c
    <3> QED  BY <1>2, <2>3 DEF WithState, WithRax, Proc, Reg
  <2>5. procs' = ps /\ ShellReg' = ps[P_SHELL].reg
    BY <2>1, <2>2 DEF ShellReg
  <2> HIDE DEF ps
  <2>6. FlagsAgree(ShellReg', ps, running)
    BY <1>4, <2>3, <2>4, <2>5, FlagsKept DEF Between
  <2>7. KeysInTime'
    BY <1>6, <2>1, <2>4, <2>5 DEF KeysInTime, P_RUNNABLE, P_BLOCKED
  <2> QED  BY <1>1, <2>5, <2>6, <2>7, UserPatient
<1> QED  BY <1>7, <1>8, <1>9 DEF keyboard_handler

\* User instructions: what the shell loads is what it tests, and the flag it
\* sets is the one of the process it names.
LEMMA UserStepPatient ==
  ASSUME IInv, PInv, dummy_loop \/ Shell
  PROVE  PInv'
<1>1. /\ mode = "user" /\ UserStep
      /\ cpu.rip \in {"dummy_loop", "sh_got", "sh_start_load", "sh_stop_load",
                      "sh_start_test", "sh_stop_test", "sh_ls_test",
                      "sh_find_test"}
  BY DEF dummy_loop, Shell, shell_key, shell_command, shell_load,
         shell_start_test, shell_stop_test, shell_ls_test, shell_find_test, At
<1>2. /\ mode' = "user" /\ failed' = failed /\ procs' = procs /\ KeysInTime'
      /\ current' = current
  BY <1>1 DEF UserStep, statusVars, keyboardVars, PInv, KeysInTime
<1>3. /\ FlagsAgree(ShellReg, procs, running)
      /\ current = P_SHELL <=> cpu.rip \in ShellLabels
      /\ cpu \in Reg /\ running \in [Startable -> {0, 1}]
      /\ (cpu.rip \in OperandLabels => cpu.rdi \in Startable)
  BY <1>1, ShellFacts DEF PInv, IInv, TypeOK, Control, GoodReg
<1>4. CASE dummy_loop
  <2>1. current # P_SHELL /\ UNCHANGED running
    BY <1>3, <1>4 DEF dummy_loop, At, ShellLabels, ShellTraps, FsTraps
  <2>2. ShellReg' = ShellReg
    BY <1>2, <2>1 DEF ShellReg
  <2> QED  BY <1>2, <1>3, <2>1, <2>2, UserPatient
<1>5. CASE Shell
  <2>1. /\ cpu.rip \in {"sh_got", "sh_start_load", "sh_stop_load",
                        "sh_start_test", "sh_stop_test", "sh_ls_test",
                        "sh_find_test"}
    BY <1>5 DEF Shell, shell_key, shell_command, shell_load,
         shell_start_test, shell_stop_test, shell_ls_test, shell_find_test, At
  <2>2. current = P_SHELL /\ ShellReg = cpu /\ ShellReg' = cpu'
    BY <1>2, <1>3, <2>1 DEF ShellLabels, ShellReg
  <2>3. CASE \/ shell_key \/ shell_command \/ shell_ls_test \/ shell_find_test
    <3>1. cpu'.rip \notin Between /\ UNCHANGED running
      <4>1. CASE shell_key \/ shell_ls_test
        BY <1>3, <4>1 DEF shell_key, shell_ls_test, Goto, Between, Reg
      <4>2. CASE shell_find_test
        BY <1>3, <4>2 DEF shell_find_test, Goto, Between, Reg
      <4>3. CASE shell_command
        <5>1. Commands \subseteq AllCommands /\ AllCommands \cap Between = {}
          BY SystemAssumption DEF AllCommands, ProcessCommands, Between
        <5> QED  BY <1>3, <4>3, <5>1 DEF shell_command, Goto, Reg
      <4> QED  BY <2>3, <4>1, <4>2, <4>3
    <3>2. cpu.rip \notin {"sh_sys_start", "sh_sys_stop"}
      BY <2>1
    <3>3. FlagsAgree(cpu', procs', running')
      BY <1>2, <1>3, <2>2, <3>1, <3>2, FlagsKept
    <3> QED  BY <1>2, <2>2, <3>3, UserPatient
  <2>4. CASE shell_load
    <3>1. /\ cpu.rip \in {"sh_start_load", "sh_stop_load"} /\ UNCHANGED running
          /\ cpu'.rip \in {"sh_start_test", "sh_stop_test"}
          /\ cpu'.rax = running[cpu'.rdi]
      <4>1. cpu \in Reg
        BY <1>3
      <4>2. /\ cpu.rip \in {"sh_start_load", "sh_stop_load"} /\ UNCHANGED running
            /\ \/ cpu' = [cpu EXCEPT !.rax = running[cpu.rdi], !.rip = "sh_start_test"]
               \/ cpu' = [cpu EXCEPT !.rax = running[cpu.rdi], !.rip = "sh_stop_test"]
        BY <2>4 DEF shell_load, At
      <4> QED  BY ONLY <4>1, <4>2, ZenonT(60) DEF Reg
    <3>2. FlagsAgree(cpu', procs', running')
      BY <1>2, <1>3, <2>2, <3>1 DEF FlagsAgree
    <3> QED  BY <1>2, <2>2, <3>2, UserPatient
  <2>5. CASE shell_start_test
    <3>1. cpu.rip = "sh_start_test" /\ cpu.rdi \in Startable
      BY <1>3, <2>5 DEF shell_start_test, At, OperandLabels
    <3>2. running[cpu.rdi] = cpu.rax /\ cpu.rax \in {0, 1}
      BY <1>3, <2>2, <3>1 DEF FlagsAgree
    <3>3. CASE cpu.rax # 0
      BY <1>2, <1>3, <2>2, <2>5, <3>1, <3>3, FlagsKept, UserPatient
         DEF shell_start_test, Goto, Between, Reg
    <3>4. CASE cpu.rax = 0
      <4>1. /\ cpu'.rip = "sh_sys_start" /\ cpu'.rdi = cpu.rdi
            /\ running' = [running EXCEPT ![cpu.rdi] = 1]
        BY <1>3, <2>5, <3>4 DEF shell_start_test, Goto, Reg
      <4>2. FlagsAgree(cpu', procs', running')
        BY <1>2, <1>3, <2>2, <3>1, <3>2, <3>4, <4>1 DEF FlagsAgree
      <4> QED  BY <1>2, <2>2, <4>2, UserPatient
    <3> QED  BY <3>3, <3>4
  <2>6. CASE shell_stop_test
    <3>1. cpu.rip = "sh_stop_test" /\ cpu.rdi \in Startable
      BY <1>3, <2>6 DEF shell_stop_test, At, OperandLabels
    <3>2. running[cpu.rdi] = cpu.rax /\ cpu.rax \in {0, 1}
      BY <1>3, <2>2, <3>1 DEF FlagsAgree
    <3>3. CASE cpu.rax = 0
      BY <1>2, <1>3, <2>2, <2>6, <3>1, <3>3, FlagsKept, UserPatient
         DEF shell_stop_test, Goto, Between, Reg
    <3>4. CASE cpu.rax # 0
      <4>1. /\ cpu'.rip = "sh_sys_stop" /\ cpu'.rdi = cpu.rdi
            /\ running' = [running EXCEPT ![cpu.rdi] = 0]
        BY <1>3, <2>6, <3>4 DEF shell_stop_test, Goto, Reg
      <4>2. FlagsAgree(cpu', procs', running')
        BY <1>2, <1>3, <2>2, <3>1, <3>2, <3>4, <4>1 DEF FlagsAgree
      <4> QED  BY <1>2, <2>2, <4>2, UserPatient
    <3> QED  BY <3>3, <3>4
  <2> QED  BY <1>5, <2>3, <2>4, <2>5, <2>6 DEF Shell
<1> QED  BY <1>4, <1>5

\* Boot: the flags are zero and no dummy has been started.
LEMMA BootPatient ==
  ASSUME IInv, PInv, Boot, UNCHANGED running
  PROVE  PInv'
<1>0. /\ P_SHELL \in ProcId /\ P_IDLE \in ProcId
      /\ Startable \subseteq ProcId \ {P_SHELL, P_IDLE}
  BY ProgramsAreProcesses
     DEF Programs, Startable, P_IDLE, P_SHELL, P_DUMMY1, P_DUMMY2
<1>1. CASE init_virtual_memory \/ setupInterrupts \/ setupDrive
  BY <1>1 DEF init_virtual_memory, setupInterrupts, setupDrive, Fail,
              DriveMessages, PInv, AssertionsHold, BootSteps, keyboardVars
<1>2. CASE init_processes
  <2>1. \A p \in Startable : procs'[p].state = P_FREE
    BY <1>0, <1>2 DEF init_processes, Loaded, FreshProcs
  <2> QED  BY <1>2, <2>1 DEF init_processes, PInv, AssertionsHold, BootSteps,
                             keyboardVars
<1>3. CASE launch_shell
  <2>1. /\ mode' = "user" /\ failed' = failed
        /\ UNCHANGED <<keyboard_waiting, i8042>>
        /\ procs' = Loaded(procs, P_SHELL, P_SHELL)
        /\ current' = P_SHELL /\ cpu' = procs'[P_SHELL].reg
    BY <1>3 DEF launch_shell, run, keyboardVars
  <2>2. /\ keyboard_waiting = NULL /\ Len(i8042) <= 1
        /\ \A p \in Startable : running[p] = 0 /\ procs[p].state = P_FREE
    BY <1>3 DEF launch_shell, PInv, BootSteps
  <2>3. /\ procs'[P_SHELL].state = P_RUNNABLE
        /\ procs'[P_SHELL].reg.rip = "sh_enable"
        /\ \A p \in Startable : procs'[p] = procs[p]
    <3>1. procs \in [ProcId -> Proc]
      BY DEF IInv, TypeOK
    <3> QED  BY <1>0, <2>1, <3>1 DEF Loaded, Entry, Proc, Reg, P_IDLE, P_SHELL
  <2>4. KeysInTime' /\ ShellReg' = cpu'
    BY <2>1, <2>2, <2>3 DEF KeysInTime, ShellReg, P_RUNNABLE, P_BLOCKED
  <2>5. FlagsAgree(cpu', procs', running')
    BY <2>1, <2>2, <2>3 DEF FlagsAgree
  <2> QED  BY <2>1, <2>4, <2>5, UserPatient
<1> QED  BY <1>1, <1>2, <1>3 DEF Boot

\* A key typed by a person who waits for the shell.
LEMMA KeyPatient ==
  ASSUME ~TypeAhead, IInv, PInv, KeyTyped
  PROVE  PInv'
<1>1. /\ i8042 = <<>> /\ (keyboard_waiting = NULL \/ procs[P_SHELL].state = P_BLOCKED)
      /\ UNCHANGED <<mode, failed, procs, current, cpu, keyboard_waiting, running>>
  BY DEF KeyTyped, MayType, statusVars, procVars, keyboardVars
<1>2. PICK c \in ScanCodes : i8042' = Append(i8042, c)
  BY DEF KeyTyped
<1>3. Len(i8042') <= 1
  BY <1>1, <1>2
<1>4. ShellReg' = ShellReg /\ (KeysInTime => KeysInTime')
  BY <1>1, <1>3 DEF ShellReg, KeysInTime
<1> QED  BY <1>1, <1>3, <1>4 DEF PInv, AssertionsHold

\* The invariant behind the theorem that follows, for every step.
LEMMA PatientKept ==
  ASSUME ~TypeAhead, IInv, PInv, [Next]_vars PROVE PInv'
<1>1. CASE KernelStep
  BY <1>1, BootPatient, SyscallPatient, InterruptPatient DEF KernelStep
<1>2. CASE dummy_loop \/ Shell
  BY <1>2, UserStepPatient
<1>3. CASE KeyTyped
  BY <1>3, KeyPatient
<1>4. CASE (Halted /\ UNCHANGED running) \/ UNCHANGED vars
  <2>1. UNCHANGED <<mode, failed, procs, current, cpu, keyboard_waiting,
                    i8042, running>>
    BY <1>4 DEF Halted, vars, kernelVars, statusVars, procVars, keyboardVars
  <2>2. ShellReg' = ShellReg /\ (KeysInTime => KeysInTime')
    BY <2>1 DEF ShellReg, KeysInTime
  <2> QED  BY <2>1, <2>2 DEF PInv, AssertionsHold
<1> QED  BY <1>1, <1>2, <1>3, <1>4 DEF Next

\* For a person who types one key at a time, and waits for the shell to ask
\* once it has asked before, the assertions of sys_start and sys_stop never
\* fail: whatever is started, stopped and interrupted in between, the shell's
\* flags agree with the process table when it makes the call.
THEOREM AssertionsNeverFail == ~TypeAhead /\ Spec => []AssertionsHold
<1>1. SysInit => PInv
  BY DEF SysInit, Init, PInv, AssertionsHold, BootSteps
<1>2. ~TypeAhead /\ IInv /\ PInv /\ [Next]_vars => PInv'
  BY PatientKept
<1>3. PInv => AssertionsHold
  BY DEF PInv
<1>4. CASE ~TypeAhead
  BY <1>1, <1>2, <1>3, <1>4, Invariance, PTL DEF Spec
<1>5. CASE TypeAhead
  BY <1>5, PTL
<1> QED  BY <1>4, <1>5

----------------------------------------------------------------------------
\* The ring buffer is a bounded queue.

\* The characters of a ring, oldest first; Queue is RingQueue(kb).
RingQueue(r) == [i \in 1..((r.head - r.tail) % KB_BUFFER_SIZE) |->
                   r.buf[(r.tail + i - 1) % KB_BUFFER_SIZE]]

\* The two indices, without remainders.
Size(h, t) == IF h >= t THEN h - t ELSE h - t + KB_BUFFER_SIZE
Wrap(x)    == IF x < KB_BUFFER_SIZE THEN x ELSE x - KB_BUFFER_SIZE

\* Indices stay below twice the size, so the remainder is a conditional
\* subtraction.
LEMMA WrapIsMod ==
  /\ \A x \in 0..(2 * KB_BUFFER_SIZE - 1) : x % KB_BUFFER_SIZE = Wrap(x)
  /\ \A h, t \in Slot : (h - t) % KB_BUFFER_SIZE = Size(h, t)
<1>0. KB_BUFFER_SIZE \in Nat \ {0}
  BY KeyboardAssumption
<1>1. ASSUME NEW x \in 0..(2 * KB_BUFFER_SIZE - 1)
      PROVE  x % KB_BUFFER_SIZE = Wrap(x)
  <2>1. CASE x < KB_BUFFER_SIZE
    BY <1>0, <2>1, ModSmall DEF Wrap
  <2>2. CASE x >= KB_BUFFER_SIZE
    <3>1. /\ x - KB_BUFFER_SIZE \in 0..(KB_BUFFER_SIZE - 1)
          /\ (x - KB_BUFFER_SIZE) + KB_BUFFER_SIZE = x
      BY <1>0, <2>2
    <3> QED  BY <1>0, <2>2, <3>1, ModSmall DEF Wrap
  <2> QED  BY <1>0, <2>1, <2>2
<1>2. ASSUME NEW h \in Slot, NEW t \in Slot
      PROVE  (h - t) % KB_BUFFER_SIZE = Size(h, t)
  <2>1. CASE h >= t
    <3>1. h - t \in 0..(KB_BUFFER_SIZE - 1)
      BY <1>0, <2>1 DEF Slot
    <3> QED  BY <1>0, <2>1, <3>1, ModSmall DEF Size
  <2>2. CASE h < t
    <3> DEFINE y == h - t + KB_BUFFER_SIZE
    <3>1. y \in 0..(KB_BUFFER_SIZE - 1) /\ h - t = y - KB_BUFFER_SIZE
      BY <1>0, <2>2 DEF Slot
    <3> HIDE DEF y
    <3>2. (y - KB_BUFFER_SIZE) % KB_BUFFER_SIZE = y
      BY <1>0, <3>1
    <3> QED  BY <1>0, <2>2, <3>1, <3>2 DEF Size, y, Slot
  <2> QED  BY <2>1, <2>2 DEF Slot
<1> QED  BY <1>1, <1>2

\* Sequences of the same length with the same elements are equal.
LEMMA SeqEqual ==
  ASSUME NEW S, NEW a \in Seq(S), NEW b \in Seq(S), Len(a) = Len(b),
         \A i \in 1..Len(a) : a[i] = b[i]
  PROVE  a = b
<1>1. a \in [1..Len(a) -> S] /\ b \in [1..Len(b) -> S]
  OBVIOUS
<1>2. a = [i \in 1..Len(a) |-> a[i]] /\ b = [i \in 1..Len(b) |-> b[i]]
  BY <1>1
<1> QED  BY <1>2

\* A ring holds at most one character less than its size.
LEMMA RingLength ==
  ASSUME NEW r \in Ring
  PROVE  /\ RingQueue(r) \in Seq(Char)
         /\ Len(RingQueue(r)) = Size(r.head, r.tail)
         /\ Size(r.head, r.tail) \in 0..(KB_BUFFER_SIZE - 1)
         /\ \A i \in 1..Size(r.head, r.tail) :
              RingQueue(r)[i] = r.buf[Wrap(r.tail + i - 1)]
         /\ IsEmpty(r) <=> RingQueue(r) = <<>>
<1>0. KB_BUFFER_SIZE \in Nat \ {0} /\ r.head \in Slot /\ r.tail \in Slot
      /\ r.buf \in [Slot -> Char]
  BY KeyboardAssumption DEF Ring
<1> DEFINE n == Size(r.head, r.tail)
<1>1. n \in 0..(KB_BUFFER_SIZE - 1) /\ (n = 0 <=> r.head = r.tail)
  BY <1>0 DEF Size, Slot
<1>2. (r.head - r.tail) % KB_BUFFER_SIZE = n
  BY <1>0, WrapIsMod
<1> HIDE DEF n
<1>3. \A i \in 1..n : /\ (r.tail + i - 1) % KB_BUFFER_SIZE = Wrap(r.tail + i - 1)
                      /\ Wrap(r.tail + i - 1) \in Slot
  <2> SUFFICES ASSUME NEW i \in 1..n
               PROVE  /\ (r.tail + i - 1) % KB_BUFFER_SIZE = Wrap(r.tail + i - 1)
                      /\ Wrap(r.tail + i - 1) \in Slot
    OBVIOUS
  <2>1. r.tail + i - 1 \in 0..(2 * KB_BUFFER_SIZE - 1)
    BY <1>0, <1>1 DEF Slot
  <2>2. Wrap(r.tail + i - 1) \in Slot
    BY <1>0, <2>1 DEF Wrap, Slot
  <2> QED  BY <2>1, <2>2, WrapIsMod
<1>4. RingQueue(r) = [i \in 1..n |-> r.buf[Wrap(r.tail + i - 1)]]
  BY <1>2, <1>3 DEF RingQueue
<1>5. RingQueue(r) \in Seq(Char) /\ Len(RingQueue(r)) = n
  BY <1>0, <1>1, <1>3, <1>4
<1>6. IsEmpty(r) <=> RingQueue(r) = <<>>
  BY <1>1, <1>5 DEF IsEmpty
<1> QED  BY <1>1, <1>4, <1>5, <1>6 DEF n

\* kb_buffer_put appends, unless the buffer is full.
LEMMA PutAppends ==
  ASSUME NEW r \in Ring, NEW c \in Char
  PROVE  /\ NextSlot(r.head) = r.tail <=> Len(RingQueue(r)) = KB_BUFFER_SIZE - 1
         /\ NextSlot(r.head) # r.tail =>
              RingQueue(kb_buffer_put(r, c)) = Append(RingQueue(r), c)
         /\ NextSlot(r.head) = r.tail => kb_buffer_put(r, c) = r
         /\ ~IsEmpty(kb_buffer_put(r, c))
<1>0. /\ KB_BUFFER_SIZE \in Nat /\ KB_BUFFER_SIZE > 1
      /\ r.head \in Slot /\ r.tail \in Slot /\ r.buf \in [Slot -> Char]
  BY KeyboardAssumption DEF Ring
<1> DEFINE n == Size(r.head, r.tail)
           s == kb_buffer_put(r, c)
<1>1. NextSlot(r.head) = Wrap(r.head + 1)
  <2>1. r.head + 1 \in 0..(2 * KB_BUFFER_SIZE - 1)
    BY <1>0 DEF Slot
  <2> QED  BY <2>1, WrapIsMod DEF NextSlot
<1>2. NextSlot(r.head) = r.tail <=> n = KB_BUFFER_SIZE - 1
  BY <1>0, <1>1 DEF Wrap, Size, Slot
<1>3. ASSUME NextSlot(r.head) # r.tail
      PROVE  RingQueue(s) = Append(RingQueue(r), c) /\ ~IsEmpty(s)
  <2>1. /\ s \in Ring /\ s.tail = r.tail /\ s.head = Wrap(r.head + 1)
        /\ s.buf = [r.buf EXCEPT ![r.head] = c]
    BY <1>1, <1>3, RingType DEF kb_buffer_put, Ring
  <2>2. Size(s.head, s.tail) = n + 1 /\ n \in Nat
    BY <1>0, <1>1, <1>3, <2>1, SMTT(60) DEF Wrap, Size, Slot
  <2>3. \A i \in 1..n : /\ Wrap(r.tail + i - 1) # r.head
                        /\ Wrap(r.tail + i - 1) \in Slot
    BY <1>0, SMTT(60) DEF Wrap, Size, Slot
  <2>4. Wrap(r.tail + (n + 1) - 1) = r.head
    BY <1>0 DEF Wrap, Size, Slot
  <2> DEFINE q == RingQueue(r)
             u == RingQueue(s)
  <2>5. /\ q \in Seq(Char) /\ Len(q) = n
        /\ \A i \in 1..n : q[i] = r.buf[Wrap(r.tail + i - 1)]
    BY RingLength
  <2>6. /\ u \in Seq(Char) /\ Len(u) = n + 1
        /\ \A i \in 1..(n + 1) : u[i] = s.buf[Wrap(r.tail + i - 1)]
    BY <2>1, <2>2, RingLength
  <2> HIDE DEF n, q, u, s
  <2>7. \A i \in 1..n : u[i] = q[i]
    BY <1>0, <2>1, <2>2, <2>3, <2>5, <2>6
  <2>8. u[n + 1] = c
    BY <1>0, <2>1, <2>2, <2>4, <2>6
  <2>9. u = Append(q, c)
    BY <2>2, <2>5, <2>6, <2>7, <2>8
  <2>10. ~IsEmpty(s)
    BY <1>1, <1>3, <2>1 DEF IsEmpty
  <2> QED  BY <2>9, <2>10 DEF q, u
<1>4. ASSUME NextSlot(r.head) = r.tail
      PROVE  s = r /\ ~IsEmpty(s)
  BY <1>0, <1>1, <1>4 DEF kb_buffer_put, IsEmpty, Wrap, Slot
<1>5. Len(RingQueue(r)) = n
  BY RingLength
<1> QED  BY <1>2, <1>3, <1>4, <1>5

\* Reading takes the oldest character.
LEMMA DropTakesHead ==
  ASSUME NEW r \in Ring, ~IsEmpty(r)
  PROVE  /\ kb_first(r) = Head(RingQueue(r))
         /\ RingQueue(kb_drop(r)) = Tail(RingQueue(r))
<1>0. /\ KB_BUFFER_SIZE \in Nat /\ KB_BUFFER_SIZE > 1
      /\ r.head \in Slot /\ r.tail \in Slot /\ r.buf \in [Slot -> Char]
      /\ r.head # r.tail
  BY KeyboardAssumption DEF Ring, IsEmpty
<1> DEFINE n == Size(r.head, r.tail)
           s == kb_drop(r)
           q == RingQueue(r)
           u == RingQueue(s)
<1>1. NextSlot(r.tail) = Wrap(r.tail + 1)
  <2>1. r.tail + 1 \in 0..(2 * KB_BUFFER_SIZE - 1)
    BY <1>0 DEF Slot
  <2> QED  BY <2>1, WrapIsMod DEF NextSlot
<1>2. s \in Ring /\ s.head = r.head /\ s.tail = Wrap(r.tail + 1) /\ s.buf = r.buf
  BY <1>1, RingType DEF kb_drop, Ring
<1>3. /\ n \in Nat \ {0} /\ Size(s.head, s.tail) = n - 1
      /\ \A i \in 1..(n - 1) :
           Wrap(Wrap(r.tail + 1) + i - 1) = Wrap(r.tail + (i + 1) - 1)
  <2>1. CASE r.tail + 1 < KB_BUFFER_SIZE
    <3>1. Wrap(r.tail + 1) = r.tail + 1
      BY <2>1 DEF Wrap
    <3>2. n \in Nat \ {0} /\ Size(r.head, r.tail + 1) = n - 1
      BY <1>0, <2>1, SMTT(60) DEF Size, Slot
    <3>3. \A i \in 1..(n - 1) : (r.tail + 1) + i - 1 = r.tail + (i + 1) - 1
      BY <1>0, <3>2 DEF Slot
    <3> QED  BY <1>2, <3>1, <3>2, <3>3
  <2>2. CASE ~(r.tail + 1 < KB_BUFFER_SIZE)
    <3>1. r.tail = KB_BUFFER_SIZE - 1 /\ Wrap(r.tail + 1) = 0
      BY <1>0, <2>2 DEF Wrap, Slot
    <3>2. n = r.head + 1 /\ n \in Nat \ {0} /\ Size(r.head, 0) = n - 1
      BY <1>0, <3>1 DEF Size, Slot
    <3>3. \A i \in 1..(n - 1) : Wrap(0 + i - 1) = Wrap(r.tail + (i + 1) - 1)
      BY <1>0, <3>1, <3>2 DEF Wrap, Slot
    <3> QED  BY <1>2, <3>1, <3>2, <3>3
  <2> QED  BY <2>1, <2>2
<1>5. /\ q \in Seq(Char) /\ Len(q) = n
      /\ \A i \in 1..n : q[i] = r.buf[Wrap(r.tail + i - 1)]
  BY RingLength
<1>6. /\ u \in Seq(Char) /\ Len(u) = n - 1
      /\ \A i \in 1..(n - 1) : u[i] = r.buf[Wrap(Wrap(r.tail + 1) + i - 1)]
  BY <1>2, <1>3, RingLength
<1>7. Wrap(r.tail + 1 - 1) = r.tail
  BY <1>0 DEF Wrap, Slot
<1> HIDE DEF n, s, q, u
<1>8. q[1] = r.buf[r.tail]
  BY <1>3, <1>5, <1>7
<1>9. \A i \in 1..(n - 1) : u[i] = q[i + 1]
  <2> SUFFICES ASSUME NEW i \in 1..(n - 1) PROVE u[i] = q[i + 1]
    OBVIOUS
  <2> DEFINE j == i + 1
  <2>1. j \in 1..n
    BY <1>3
  <2>2. Wrap(Wrap(r.tail + 1) + i - 1) = Wrap(r.tail + j - 1)
    BY <1>3
  <2>3. u[i] = r.buf[Wrap(Wrap(r.tail + 1) + i - 1)]
    BY <1>6
  <2> HIDE DEF j
  <2>4. q[j] = r.buf[Wrap(r.tail + j - 1)]
    BY <1>5, <2>1
  <2> QED  BY <2>2, <2>3, <2>4 DEF j
<1>10. u = Tail(q)
  <2>1. /\ Tail(q) \in Seq(Char) /\ Len(Tail(q)) = n - 1
        /\ \A i \in 1..(n - 1) : Tail(q)[i] = q[i + 1]
    BY <1>3, <1>5
  <2> QED  BY <1>3, <1>6, <1>9, <2>1, SeqEqual
<1> QED  BY <1>5, <1>8, <1>10 DEF kb_first, q, s, u

----------------------------------------------------------------------------
\* The refinement.

\* Until the kernel loads it, the shell has no code.
BootBlank == mode \in BootSteps => procs[P_SHELL].reg.rip = "null"

\* What the mapping needs to know of the state.
RInv == IInv /\ PInv /\ BootAlone /\ BootBlank

\* init_processes clears the table, and nothing else writes it before
\* launch_shell.
LEMMA BootBlankKept ==
  ASSUME IInv, BootBlank, [Next]_vars PROVE BootBlank'
<1> USE DEF BootBlank, statusVars, procVars
<1>0. P_SHELL \in ProcId /\ P_IDLE \in ProcId /\ P_SHELL # P_IDLE
  BY ProgramsAreProcesses DEF Programs, P_IDLE, P_SHELL
<1>1. CASE Boot
  BY <1>0, <1>1 DEF Boot, init_virtual_memory, setupInterrupts, setupDrive,
              init_processes, launch_shell, Fail, BootSteps, Loaded, FreshProcs
<1>2. CASE Syscall
  <2>1. CASE sys_start
    BY <2>1 DEF sys_start, AssertFails, Fail, Trap, BootSteps
  <2>2. CASE sys_stop
    BY <2>2 DEF sys_stop, AssertFails, Fail, Trap, BootSteps
  <2>3. CASE sys_fs_fails
    BY <2>3 DEF sys_fs_fails, Fail, BootSteps
  <2>4. CASE sys_fs_handler
    BY <2>4 DEF sys_fs_handler, Trap, BootSteps
  <2> QED
    BY <1>2, <2>1, <2>2, <2>3, <2>4
       DEF Syscall, sys_write_char_handler, sys_cursor_handler, sys_yield,
           sys_enable_kb_tim, sys_getchar_blocks, sys_getchar_reads,
           sys_list_files_handler, Trap, BootSteps
<1>3. CASE time_handler \/ keyboard_handler
  BY <1>3 DEF time_handler, keyboard_handler, keyboard_handler_delivers,
              keyboard_handler_buffers, KeyboardIrq, Deliverable, BootSteps
<1>4. CASE dummy_loop \/ Shell
  BY <1>4
     DEF dummy_loop, Shell, shell_key, shell_command, shell_load,
         shell_start_test, shell_stop_test, shell_ls_test, shell_find_test,
         UserStep
<1>5. CASE KeyTyped \/ (Halted /\ UNCHANGED running) \/ UNCHANGED vars
  BY <1>5 DEF KeyTyped, Halted, vars, kernelVars
<1> QED  BY <1>1, <1>2, <1>3, <1>4, <1>5 DEF Next, KernelStep

\* The abstract specification decodes scan codes as the driver does.
LEMMA SameDecoder ==
  /\ \A c, e, s : KS!Decoded(c, e, s) = Decoded(c, e, s)
  /\ \A c : KS!ExtendedAfter(c) = ExtendedAfter(c)
  /\ \A c, s : KS!ShiftAfter(c, s) = ShiftAfter(c, s)
BY DEF KS!Decoded, Decoded, KS!ExtendedAfter, ExtendedAfter, KS!ShiftAfter,
       ShiftAfter, KS!keyboard_to_ascii, keyboard_to_ascii,
       KS!EXTENDED_PREFIX, EXTENDED_PREFIX, KS!ShiftMake, ShiftMake,
       KS!ShiftBreak, ShiftBreak, KS!SC_LEFT, SC_LEFT, KS!SC_RIGHT, SC_RIGHT,
       KS!SC_UP, SC_UP, KS!RowKeys, RowKeys

\* One abstract step, or none.
Abstract == [KS!KSNext]_(KS!ksVars)

\* The steps the reader and the keyboard do not see.
LEMMA UnseenStep ==
  ASSUME UNCHANGED <<i8042, extended, is_shifted, kb>>,
         Hand' = Hand, Asleep' = Asleep
  PROVE  Abstract
BY DEF Abstract, KS!ksVars, Queue

\* A system call other than getchar that comes back to its caller or to
\* another process.
LEMMA QuietUnseen ==
  ASSUME RInv, NEW n, Trap(n), n # SYS_GETCHAR_INT,
         NEW ps, NEW r, Return(ps, r),
         ps[P_SHELL].state = procs[P_SHELL].state,
         current # P_SHELL => ps[P_SHELL] = procs[P_SHELL],
         ps[current].reg.rip = After[cpu.rip],
         UNCHANGED <<i8042, keyboardVars>>
  PROVE  Abstract
<1>1. cpu.rip \in Traps /\ IntNo[cpu.rip] = n
  BY DEF Trap
<1>2. cpu.rip # "sh_got" /\ After[cpu.rip] # "sh_got"
  BY <1>1 DEF Traps, DummyTraps, ShellTraps, FsTraps, After, IntNo
<1>3. procs' = ps /\ ShellReg' = ps[P_SHELL].reg
  BY ReturnShell
<1>4. Asleep' = Asleep /\ Hand' = Hand
  BY <1>2, <1>3 DEF Asleep, Hand, ShellReg
<1> QED  BY <1>4, UnseenStep DEF keyboardVars

\* getchar reads the oldest character or goes to sleep; the other system
\* calls are not seen.
LEMMA SyscallRefines ==
  ASSUME RInv, Syscall
  PROVE  Abstract
<1> USE DEF RInv
<1>0. ASSUME NEW n, Trap(n)
      PROVE  /\ mode = "user" /\ GoodTable(TrapSaved) /\ current \in ProcId
             /\ P_SHELL \in ProcId /\ TrapSaved \in [ProcId -> Proc]
             /\ TrapSaved[P_SHELL].state = procs[P_SHELL].state
             /\ current # P_SHELL => TrapSaved[P_SHELL] = procs[P_SHELL]
             /\ TrapSaved[current].reg.rip = After[cpu.rip]
             /\ procs[current].state = P_RUNNABLE
  BY <1>0, TrapFacts, ShellFacts DEF Reg, GoodTable
<1>1. CASE \/ sys_write_char_handler \/ sys_cursor_handler \/ sys_yield
           \/ sys_enable_kb_tim \/ sys_fs_handler
  <2>1. PICK n, r : /\ Trap(n) /\ n # SYS_GETCHAR_INT
                    /\ Return(TrapSaved, r) /\ UNCHANGED <<i8042, keyboardVars>>
    BY <1>1 DEF sys_write_char_handler, sys_cursor_handler, sys_yield,
         sys_enable_kb_tim, sys_fs_handler, FsInts, SYS_WRITE_CHAR_INT,
         SYS_CURSOR_INT, SYS_YIELD_INT, SYS_ENABLE_KB_TIM_INT, SYS_MKDIR_INT,
         SYS_CD_INT, SYS_RM_INT, SYS_READ_INT, SYS_WRITE_INT, SYS_GETCHAR_INT
  <2> QED  BY <1>0, <2>1, QuietUnseen
<1>2. CASE sys_list_files_handler
  <2>1. PICK v : /\ Trap(SYS_LIST_FILES_INT)
                 /\ Return(WithRax(TrapSaved, current, v), reschedule) /\ v \in Int
                 /\ UNCHANGED <<i8042, keyboardVars>>
    BY <1>2, FileIndexAssumption DEF sys_list_files_handler
  <2> DEFINE ps == WithRax(TrapSaved, current, v)
  <2>2. /\ ps[P_SHELL].state = procs[P_SHELL].state
        /\ current # P_SHELL => ps[P_SHELL] = procs[P_SHELL]
        /\ ps[current].reg.rip = After[cpu.rip]
    BY <1>0, <2>1, RaxGood
  <2> HIDE DEF ps
  <2>3. Return(ps, reschedule)
    BY <2>1 DEF ps
  <2> QED
    BY <2>1, <2>2, <2>3, QuietUnseen DEF SYS_LIST_FILES_INT, SYS_GETCHAR_INT
<1>3. CASE sys_fs_fails \/ sys_start \/ sys_stop
  <2>1. CASE procs' = TrapSaved /\ UNCHANGED <<current, cpu, i8042, keyboardVars>>
    <3>1. PICK n : Trap(n)
      BY <1>3 DEF sys_fs_fails, sys_start, sys_stop
    <3> QED  BY <1>0, <2>1, <3>1, UnseenStep
                DEF Hand, Asleep, ShellReg, keyboardVars
  <2>2. CASE sys_start /\ sys_start_assert = "none"
    <3> DEFINE ps == Loaded(TrapSaved, cpu.rdi, cpu.rdi)
    <3>1. /\ Trap(SYS_START_INT) /\ Return(ps, reschedule)
          /\ UNCHANGED <<i8042, keyboardVars>> /\ cpu.rdi \in Startable
          /\ procs[cpu.rdi].state = P_FREE
      BY <2>2 DEF sys_start, sys_start_assert
    <3>2. cpu.rdi # P_SHELL /\ cpu.rdi # current
      BY <1>0, <3>1, ShellFacts DEF P_RUNNABLE, P_FREE
    <3>3. ps[P_SHELL] = TrapSaved[P_SHELL] /\ ps[current] = TrapSaved[current]
      BY <1>0, <3>1, <3>2 DEF Loaded
    <3> HIDE DEF ps
    <3> QED  BY <1>0, <3>1, <3>3, QuietUnseen DEF SYS_START_INT, SYS_GETCHAR_INT
  <2>3. CASE sys_stop /\ sys_stop_assert = "none"
    <3> DEFINE ps == WithState(TrapSaved, cpu.rdi, P_FREE)
    <3>1. /\ Trap(SYS_STOP_INT) /\ Return(ps, reschedule)
          /\ UNCHANGED <<i8042, keyboardVars>> /\ cpu.rdi \in Startable
      BY <2>3 DEF sys_stop, sys_stop_assert
    <3>2. cpu.rdi # P_SHELL
      BY <1>0, <3>1, ShellFacts
    <3>3. /\ ps[P_SHELL] = TrapSaved[P_SHELL]
          /\ ps[current].reg = TrapSaved[current].reg
      BY <1>0, <3>1, <3>2 DEF WithState, Proc
    <3> HIDE DEF ps
    <3> QED  BY <1>0, <3>1, <3>3, QuietUnseen DEF SYS_STOP_INT, SYS_GETCHAR_INT
  <2> QED
    BY <1>3, <2>1, <2>2, <2>3
       DEF sys_fs_fails, sys_start, sys_stop, AssertFails, keyboardVars
<1>4. CASE sys_getchar_reads \/ sys_getchar_blocks
  <2>1. Trap(SYS_GETCHAR_INT)
    BY <1>4 DEF sys_getchar_reads, sys_getchar_blocks
  <2>2. cpu.rip = "sh_getchar" /\ After[cpu.rip] = "sh_got"
    <3>1. cpu.rip \in Traps /\ IntNo[cpu.rip] = SYS_GETCHAR_INT
      BY <2>1 DEF Trap
    <3>2. cpu.rip = "sh_getchar"
      BY <3>1 DEF IntNo, Traps, DummyTraps, ShellTraps, FsTraps,
            SYS_GETCHAR_INT, SYS_WRITE_CHAR_INT, SYS_CURSOR_INT,
            SYS_LIST_FILES_INT, SYS_MKDIR_INT, SYS_CD_INT, SYS_RM_INT,
            SYS_ENABLE_KB_TIM_INT, SYS_YIELD_INT, SYS_START_INT, SYS_STOP_INT,
            SYS_READ_INT, SYS_WRITE_INT
    <3> QED  BY <3>1, <3>2 DEF After, Traps, ShellTraps
  <2>3. current = P_SHELL
    BY <1>0, <2>1, <2>2, ShellFacts DEF ShellLabels, ShellTraps
  <2>4. ~Asleep /\ Hand = 0
    BY <1>0, <2>1, <2>2, <2>3 DEF Asleep, Hand, ShellReg, P_RUNNABLE, P_BLOCKED
  <2>5. kb \in Ring /\ Queue = RingQueue(kb) /\ Queue' = RingQueue(kb')
    BY RestFromInv DEF RestTyped, Queue, RingQueue
  <2>6. CASE sys_getchar_reads
    <3> DEFINE ps == WithRax(TrapSaved, current, kb_first(kb))
    <3>1. /\ ~IsEmpty(kb) /\ kb' = kb_drop(kb) /\ Return(ps, reschedule)
          /\ UNCHANGED <<i8042, extended, is_shifted>>
      BY <2>6 DEF sys_getchar_reads
    <3>2. /\ ps[P_SHELL].state = procs[P_SHELL].state
          /\ ps[P_SHELL].reg.rip = "sh_got" /\ ps[P_SHELL].reg.rax = kb_first(kb)
      <4>1. TrapSaved[P_SHELL].reg \in Reg
        BY <1>0, <2>1 DEF Proc
      <4> QED  BY <1>0, <2>1, <2>2, <2>3, <4>1 DEF WithRax, Reg, Proc
    <3> HIDE DEF ps
    <3>3. ~Asleep' /\ Hand' = kb_first(kb)
      BY <2>4, <3>1, <3>2, ReturnShell DEF Asleep, Hand
    <3>4. kb_first(kb) = Head(Queue) /\ Queue' = Tail(Queue) /\ Queue # <<>>
      BY <2>5, <3>1, DropTakesHead, RingLength
    <3>5. KS!Read
      BY <2>4, <3>1, <3>3, <3>4 DEF KS!Read, Asleep
    <3> QED  BY <3>5 DEF Abstract, KS!KSNext
  <2>7. CASE sys_getchar_blocks
    <3> DEFINE ps == WithState(TrapSaved, current, P_BLOCKED)
    <3>1. /\ IsEmpty(kb) /\ Return(ps, 1)
          /\ UNCHANGED <<i8042, kb, extended, is_shifted>>
      BY <2>7 DEF sys_getchar_blocks
    <3>2. ps[P_SHELL].state = P_BLOCKED
      BY <1>0, <2>1, <2>3 DEF WithState, Proc
    <3> HIDE DEF ps
    <3>3. Asleep' /\ Hand' = 0
      BY <3>1, <3>2, ReturnShell DEF Asleep, Hand
    <3>4. Queue = <<>> /\ Queue' = Queue
      BY <2>5, <3>1, RingLength
    <3>5. KS!Sleep
      BY <2>4, <3>1, <3>3, <3>4 DEF KS!Sleep, Asleep
    <3> QED  BY <3>5 DEF Abstract, KS!KSNext
  <2> QED  BY <1>4, <2>6, <2>7
<1> QED  BY <1>1, <1>2, <1>3, <1>4 DEF Syscall

\* A keyboard interrupt serves the oldest scan code: no character, one for
\* the sleeping shell, one more in the buffer, or one too many.
LEMMA KeyboardRefines ==
  ASSUME RInv, keyboard_handler
  PROVE  Abstract
<1> USE DEF RInv
<1> DEFINE ss == Saved(cpu.rip)
           r  == Put(Head(i8042))
           ch == Decoded(Head(i8042), extended, is_shifted)
<1>1. /\ KeyboardIrq /\ mode = "user"
  BY DEF keyboard_handler, keyboard_handler_delivers,
         keyboard_handler_buffers, KeyboardIrq, Deliverable
<1>2. /\ i8042 # <<>> /\ i8042' = Tail(i8042)
      /\ extended' = ExtendedAfter(Head(i8042))
      /\ is_shifted' = ShiftAfter(Head(i8042), is_shifted)
  BY <1>1 DEF KeyboardIrq, Decode
<1>3. KS!Serve /\ KS!Ch = ch
  BY <1>2, SameDecoder DEF KS!Serve, KS!Ch
<1>4. /\ kb \in Ring /\ ch \in Char /\ Queue = RingQueue(kb)
      /\ Queue' = RingQueue(kb') /\ r = IF ch # 0 THEN kb_buffer_put(kb, ch) ELSE kb
  <2>1. /\ kb \in Ring /\ extended \in BOOLEAN /\ is_shifted \in Int
    BY RestFromInv DEF RestTyped
  <2> QED  BY <1>1, <2>1, KeyboardIrqFacts, DecodedType
              DEF Queue, RingQueue, Put
<1>5. /\ P_SHELL \in ProcId /\ current \in ProcId /\ ss \in [ProcId -> Proc]
      /\ procs[current].state = P_RUNNABLE
      /\ ss[P_SHELL].state = procs[P_SHELL].state /\ ss[P_SHELL].reg = ShellReg
  <2>1. /\ P_SHELL \in ProcId /\ current \in ProcId /\ ss \in [ProcId -> Proc]
        /\ procs[current].state = P_RUNNABLE /\ cpu \in Reg
        /\ procs \in [ProcId -> Proc]
        /\ ss[P_SHELL].state = procs[P_SHELL].state
        /\ \A p \in ProcId \ {current} : ss[p] = procs[p]
    BY <1>1, ShellFacts, InterruptFacts DEF GoodTable
  <2>2. [cpu EXCEPT !.rip = cpu.rip] = cpu
    BY <2>1 DEF Reg
  <2> QED  BY <2>1, <2>2 DEF Saved, ShellReg, Proc
<1>6. KeysInTime /\ (Asleep => Queue = <<>> /\ IsEmpty(kb))
  BY <1>1, <1>4, <1>5, RingLength DEF PInv, IInv, NoLostWakeup, Asleep
<1> HIDE DEF ss, ch, r
<1>7. CASE keyboard_handler_buffers
  <2>1. /\ Return(ss, reschedule) /\ kb' = r
        /\ keyboard_waiting = NULL \/ IsEmpty(r)
    BY <1>7 DEF keyboard_handler_buffers, ss, r
  <2>2. Hand' = Hand /\ Asleep' = Asleep
    BY <1>5, <2>1, ReturnShell DEF Hand, Asleep
  <2>3. CASE ch = 0
    <3>1. Queue' = Queue
      BY <1>4, <2>1, <2>3
    <3> QED  BY <1>3, <2>2, <2>3, <3>1 DEF Abstract, KS!KSNext, KS!Silent
  <2>4. CASE ch # 0
    <3>1. ~Asleep
      <4>1. ~IsEmpty(r)
        BY <1>4, <2>4, PutAppends
      <4> QED  BY <1>5, <2>1, <4>1, ProgramsAreProcesses
                  DEF IInv, NoLostWakeup, Asleep
    <3>2. CASE NextSlot(kb.head) # kb.tail
      <4>1. Queue' = Append(Queue, ch) /\ Len(Queue) < KB_BUFFER_SIZE - 1
        BY <1>4, <2>1, <2>4, <3>2, PutAppends, RingLength, KeyboardAssumption
      <4>2. KS!Enqueue
        BY <1>3, <2>2, <2>4, <3>1, <4>1 DEF KS!Enqueue, KS!Capacity
      <4> QED  BY <4>2 DEF Abstract, KS!KSNext
    <3>3. CASE NextSlot(kb.head) = kb.tail
      <4>1. Queue' = Queue /\ Len(Queue) = KB_BUFFER_SIZE - 1
        BY <1>4, <2>1, <2>4, <3>3, PutAppends
      <4>2. KS!Overflow
        BY <1>3, <2>2, <2>4, <3>1, <4>1 DEF KS!Overflow, KS!Capacity
      <4> QED  BY <4>2 DEF Abstract, KS!KSNext
    <3> QED  BY <3>2, <3>3
  <2> QED  BY <2>3, <2>4
<1>8. CASE keyboard_handler_delivers
  <2> DEFINE ps == WithState(WithRax(ss, P_SHELL, kb_first(r)), P_SHELL, P_RUNNABLE)
  <2>1. /\ keyboard_waiting # NULL /\ ~IsEmpty(r) /\ kb' = kb_drop(r)
        /\ procs' = WithState(WithRax(ss, keyboard_waiting, kb_first(r)),
                              keyboard_waiting, P_RUNNABLE)
        /\ cpu' = procs'[current'].reg
    BY <1>8 DEF keyboard_handler_delivers, run, ss, r
  <2>2. keyboard_waiting = P_SHELL
    BY <2>1 DEF IInv, Control
  <2>3. Asleep /\ procs[P_SHELL].reg.rip = "sh_got" /\ current # P_SHELL
    BY <1>2, <1>5, <1>6, <2>1 DEF KeysInTime, Asleep, P_RUNNABLE, P_BLOCKED
  <2>4. ch # 0 /\ r = kb_buffer_put(kb, ch) /\ Queue = <<>>
    BY <1>4, <1>6, <2>1, <2>3
  <2>5. RingQueue(r) = <<ch>> /\ r \in Ring
    <3>1. r \in Ring
      BY <1>4, <2>4, RingType
    <3>2. RingQueue(r) = Append(<<>>, ch)
      <4>1. Len(RingQueue(kb)) = 0 /\ KB_BUFFER_SIZE > 1 /\ KB_BUFFER_SIZE \in Nat
        BY <1>4, <2>4, KeyboardAssumption
      <4>2. NextSlot(kb.head) # kb.tail
        BY <1>4, <4>1, PutAppends
      <4> QED  BY <1>4, <2>4, <4>2, PutAppends
    <3> QED  BY <3>1, <3>2
  <2>6. kb_first(r) = ch /\ Queue' = <<>>
    <3>1. kb_first(r) = Head(<<ch>>) /\ RingQueue(kb') = Tail(<<ch>>)
      BY <2>1, <2>5, DropTakesHead
    <3> QED  BY <1>4, <3>1
  <2>7. /\ ps[P_SHELL].reg.rip = "sh_got" /\ ps[P_SHELL].reg.rax = ch
        /\ ps[P_SHELL].state = P_RUNNABLE
    <3>1. ss[P_SHELL].reg.rip = "sh_got" /\ ss[P_SHELL].reg \in Reg
      BY <1>5, <2>3 DEF ShellReg, Proc
    <3> QED  BY <1>5, <2>6, <3>1 DEF WithState, WithRax, Proc, Reg
  <2>8. procs' = ps /\ ShellReg' = ps[P_SHELL].reg
    BY <2>1, <2>2 DEF ShellReg
  <2> HIDE DEF ps
  <2>9. Hand' = ch /\ ~Asleep'
    BY <2>7, <2>8 DEF Hand, Asleep, P_RUNNABLE, P_BLOCKED
  <2>10. KS!Wake
    BY <1>3, <2>3, <2>4, <2>6, <2>9 DEF KS!Wake, Asleep
  <2> QED  BY <2>10 DEF Abstract, KS!KSNext
<1> QED  BY <1>7, <1>8 DEF keyboard_handler

\* The timer is not seen.
LEMMA TimerRefines ==
  ASSUME RInv, time_handler
  PROVE  Abstract
<1> USE DEF RInv
<1>1. /\ mode = "user" /\ Return(Saved(cpu.rip), 1)
      /\ UNCHANGED <<i8042, keyboardVars>>
  BY DEF time_handler, Deliverable
<1>2. /\ P_SHELL \in ProcId /\ current \in ProcId /\ cpu \in Reg
      /\ procs \in [ProcId -> Proc]
      /\ Saved(cpu.rip)[P_SHELL].state = procs[P_SHELL].state
      /\ \A p \in ProcId \ {current} : Saved(cpu.rip)[p] = procs[p]
  BY <1>1, ShellFacts, InterruptFacts DEF GoodTable
<1>3. Saved(cpu.rip)[P_SHELL].reg = ShellReg
  <2>1. [cpu EXCEPT !.rip = cpu.rip] = cpu
    BY <1>2 DEF Reg
  <2> QED  BY <1>2, <2>1 DEF Saved, ShellReg, Proc
<1>4. Hand' = Hand /\ Asleep' = Asleep
  BY <1>1, <1>2, <1>3, ReturnShell DEF Hand, Asleep
<1> QED  BY <1>1, <1>4, UnseenStep DEF keyboardVars

\* The shell acts on the character it holds; its other instructions and those
\* of the dummies are not seen.
LEMMA UserRefines ==
  ASSUME RInv, dummy_loop \/ Shell
  PROVE  Abstract
<1> USE DEF RInv
<1>1. /\ mode = "user" /\ UserStep
  BY DEF dummy_loop, Shell, shell_key, shell_command, shell_load,
         shell_start_test, shell_stop_test, shell_ls_test, shell_find_test, At
<1>2. /\ UNCHANGED <<i8042, extended, is_shifted, kb, procs, current>>
      /\ Asleep' = Asleep /\ Queue' = Queue
      /\ cpu \in Reg /\ procs[current].state = P_RUNNABLE
      /\ current = P_SHELL <=> cpu.rip \in ShellLabels
  BY <1>1, ShellFacts DEF UserStep, keyboardVars, Asleep, Queue
<1>3. CASE dummy_loop
  <2>1. current # P_SHELL
    BY <1>2, <1>3 DEF dummy_loop, At, ShellLabels, ShellTraps, FsTraps
  <2>2. Hand' = Hand
    BY <1>2, <2>1 DEF Hand, ShellReg
  <2> QED  BY <1>2, <2>2, UnseenStep
<1>4. CASE shell_key \/ shell_command
  <2>1. cpu.rip = "sh_got" /\ cpu'.rip # "sh_got"
    <3>1. CASE shell_key
      BY <1>2, <3>1 DEF shell_key, At, Goto, Reg
    <3>2. CASE shell_command
      <4>1. "sh_got" \notin Commands
        BY SystemAssumption DEF AllCommands, ProcessCommands
      <4> QED  BY <1>2, <3>2, <4>1, ZenonT(60) DEF shell_command, At, Goto, Reg
    <3> QED  BY <1>4, <3>1, <3>2
  <2>2. current = P_SHELL /\ ~Asleep
    BY <1>2, <2>1 DEF ShellLabels, Asleep, P_RUNNABLE, P_BLOCKED
  <2>3. Hand' = 0
    BY <1>2, <2>1, <2>2 DEF Hand, ShellReg
  <2>4. CASE Hand = 0
    BY <1>2, <2>3, <2>4, UnseenStep
  <2>5. CASE Hand # 0
    <3>1. KS!Act
      BY <1>2, <2>3, <2>5 DEF KS!Act
    <3> QED  BY <3>1 DEF Abstract, KS!KSNext
  <2> QED  BY <2>4, <2>5
<1>5. CASE \/ shell_load \/ shell_start_test \/ shell_stop_test
           \/ shell_ls_test \/ shell_find_test
  <2>1. cpu.rip \in ShellLabels /\ cpu.rip # "sh_got"
    BY <1>5 DEF shell_load, shell_start_test, shell_stop_test, shell_ls_test,
                shell_find_test, At, ShellLabels
  <2>2. cpu'.rip # "sh_got"
    BY <1>2, <1>5 DEF shell_load, shell_start_test, shell_stop_test,
                      shell_ls_test, shell_find_test, Goto, Reg
  <2>3. Hand' = Hand
    BY <1>2, <2>1, <2>2 DEF Hand, ShellReg
  <2> QED  BY <1>2, <2>3, UnseenStep
<1> QED  BY <1>3, <1>4, <1>5 DEF Shell

\* Boot is not seen: there is nobody to read.
LEMMA BootRefines ==
  ASSUME RInv, Boot
  PROVE  Abstract
<1> USE DEF RInv
<1>0. P_SHELL \in ProcId /\ P_IDLE \in ProcId /\ P_SHELL # P_IDLE /\ NULL # P_SHELL
      /\ procs \in [ProcId -> Proc]
  BY ProgramsAreProcesses DEF Programs, P_IDLE, P_SHELL, IInv, TypeOK
<1>1. /\ mode \in BootSteps /\ UNCHANGED <<i8042, keyboardVars>>
  BY DEF Boot, init_virtual_memory, setupInterrupts, setupDrive,
         init_processes, launch_shell, BootSteps
<1>2. ~Asleep /\ Hand = 0 /\ current = NULL
  BY <1>0, <1>1 DEF BootAlone, BootBlank, PInv, IInv, NoLostWakeup, Asleep, Hand,
                    ShellReg
<1>3. CASE procs' = procs /\ current' = current
  BY <1>0, <1>1, <1>2, <1>3, UnseenStep DEF keyboardVars, Asleep, Hand, ShellReg
<1>4. CASE init_processes
  <2>1. procs'[P_SHELL] = FreshProcs[P_SHELL] /\ current' = current
    BY <1>0, <1>4 DEF init_processes, Loaded, FreshProcs
  <2>2. ~Asleep' /\ Hand' = 0
    BY <1>0, <1>2, <2>1 DEF Asleep, Hand, ShellReg, FreshProcs, P_FREE, P_BLOCKED
  <2> QED  BY <1>1, <1>2, <2>2, UnseenStep DEF keyboardVars, Asleep
<1>5. CASE launch_shell
  <2>1. /\ procs' = Loaded(procs, P_SHELL, P_SHELL)
        /\ current' = P_SHELL /\ cpu' = procs'[P_SHELL].reg
    BY <1>5 DEF launch_shell, run
  <2>2. /\ procs'[P_SHELL].state = P_RUNNABLE
        /\ procs'[P_SHELL].reg.rip = "sh_enable"
    BY <1>0, <2>1 DEF Loaded, Entry, Proc, Reg, P_IDLE, P_SHELL
  <2>3. ~Asleep' /\ Hand' = 0
    BY <2>1, <2>2 DEF Asleep, Hand, ShellReg, P_RUNNABLE, P_BLOCKED
  <2> QED  BY <1>1, <1>2, <2>3, UnseenStep DEF keyboardVars, Asleep
<1> QED
  BY <1>3, <1>4, <1>5 DEF Boot, init_virtual_memory, setupInterrupts,
                          setupDrive, procVars

\* The keyboard path as a whole gives the shell every key once and in order.
THEOREM KeysServed == ~TypeAhead /\ Spec => KeyServiceRefined
<1>1. SysInit => KS!KSInit
  <2> SUFFICES ASSUME SysInit PROVE KS!KSInit
    OBVIOUS
  <2>1. P_SHELL \in ProcId /\ NULL # P_SHELL
    BY ProgramsAreProcesses DEF Programs
  <2>2. /\ ~Asleep /\ Hand = 0 /\ i8042 = <<>> /\ extended = FALSE /\ is_shifted = 0
    BY <2>1 DEF SysInit, Init, Asleep, Hand, ShellReg, P_FREE, P_BLOCKED
  <2>3. kb \in Ring /\ IsEmpty(kb) /\ Queue = RingQueue(kb)
    BY InitHolds, RestFromInv
       DEF SysInit, Init, RestTyped, EmptyRing, IsEmpty, Queue, RingQueue
  <2>4. Queue = <<>>
    BY <2>3, RingLength
  <2> QED  BY <2>2, <2>4 DEF KS!KSInit, Asleep
<1>2. SysInit => PInv /\ BootAlone /\ BootBlank
  <2>1. P_SHELL \in ProcId
    BY ProgramsAreProcesses DEF Programs
  <2> QED
    BY <2>1 DEF SysInit, Init, PInv, AssertionsHold, BootSteps, BootAlone, BootBlank
<1>3. ~TypeAhead /\ RInv /\ [Next]_vars => PInv' /\ BootAlone' /\ BootBlank'
  BY PatientKept, BootAloneKept, BootBlankKept DEF RInv
<1>4. RInv /\ [Next]_vars => [KS!KSNext]_(KS!ksVars)
  <2> SUFFICES ASSUME RInv, [Next]_vars PROVE Abstract
    BY DEF Abstract
  <2>1. CASE KernelStep
    BY <2>1, BootRefines, SyscallRefines, TimerRefines, KeyboardRefines
       DEF KernelStep
  <2>2. CASE dummy_loop \/ Shell
    BY <2>2, UserRefines
  <2>3. CASE KeyTyped
    <3>1. PICK c \in ScanCodes : i8042' = Append(i8042, c)
      BY <2>3 DEF KeyTyped
    <3>2. UNCHANGED <<extended, is_shifted, Queue, Hand, Asleep>>
      BY <2>3 DEF KeyTyped, procVars, keyboardVars, Queue, Hand, Asleep, ShellReg
    <3>3. KS!Press(c)
      BY <3>1, <3>2 DEF KS!Press
    <3> QED  BY <3>3 DEF Abstract, KS!KSNext
  <2>4. CASE (Halted /\ UNCHANGED running) \/ UNCHANGED vars
    <3>1. UNCHANGED <<i8042, extended, is_shifted, kb, procs, current, cpu>>
      BY <2>4 DEF Halted, vars, kernelVars, procVars, keyboardVars
    <3> QED  BY <3>1, UnseenStep DEF Hand, Asleep, ShellReg
  <2> QED  BY <2>1, <2>2, <2>3, <2>4 DEF Next
<1>5. CASE ~TypeAhead
  BY <1>1, <1>2, <1>3, <1>4, <1>5, Invariance, PTL
     DEF Spec, RInv, KeyServiceRefined, KS!KSSpec
<1>6. CASE TypeAhead
  BY <1>6, PTL
<1> QED  BY <1>5, <1>6
=============================================================================
