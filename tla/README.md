# gyozOs: a verification project in TLA+

gyozOs is a small single-processor x86-64 kernel: a boot loader, a kernel with
a process table and a round-robin scheduler, a keyboard driver, a FAT32 driver
over ATA PIO, and four user programs (a shell, two dummies, an idle loop). This
directory holds TLA+ modules translated from that code, TLC configurations that
check them on small instances, and TLAPS proofs that hold for every instance.
Quotations of "the report" are from `src/rapport.odt`.

## Inventory

| Component | Source | State | Operations | Hard part |
|---|---|---|---|---|
| Processes, scheduler | `kernel/process.c` | `procs`, `current` | `init_processes`, `load_process`, `run`, `schedule`, `sys_start`, `sys_stop` | the loop's bounds; slots reused after a stop |
| Interrupts, system calls | `kernel/interrupt_handlers.{c,s,h}` | `reschedule`, IDT, the two PICs | `setupInterrupts`, `setupPIC`, `exception`, one handler per vector | save/restore, what runs after each handler; the order of the PIC's words |
| Keyboard driver | `kernel/shell.c`, `kernel/io.c` | `kb_buffer`, `kb_head`, `kb_tail`, `extended`, `is_shifted`, `keyboard_waiting` | `keyboard_handler`, `kb_buffer_put` | against `getchar`: lost wake-ups, stale waiter, full buffer |
| Virtual memory | `kernel/virtual_memory.c` | `frames_info`, five page tables | `init_virtual_memory`, `map_page`, `assign_physical_page` | who owns a page after starts and stops; indices of four levels |
| Kernel boot | `kernel/kernel.c` | the order of the calls | `kernel` | interrupts before a process exists |
| FAT32 | `kernel/fat32.c` | the disk, `diskBuffer` | allocate, chain, directory entries, read, write, remove | sector writes are not atomic; boundaries |
| ATA, drive set-up, file calls | `kernel/disk.c` | `activeDrive`, `currentCluster`, `file_ind` | `setupDrive`, sector read/write, the calls behind the system calls | polling a device that has its own pace |
| Shell | `userspace/p_shell.c` | line, screen, path, `process0_running`, `process1_running` | `process_main`, `process_cmd` | its flags mirror the kernel's table; five variables for one line |
| Dummies, idle | `userspace/p_*.c` | a counter | print, yield | |
| Boot loader | `bootloader/` | memory | load the kernel's ELF image | whole sectors over neighbouring segments |
| Image builder | `_build/mkbootdisk.c` | the image | boot sector, files, padding | short writes |
| Console, serial, library | `kernel/io.c`, `kernel/lib.c` | devices only | | |

How they interact: a user program enters the kernel by `int n`, hardware by
IRQ 0 and 1. All go through `generic_exception_handler` and `exception()`,
which saves the registers into `current->reg`, calls one handler, and ends in
`run(current)` or `schedule()`. Every gate is an interrupt gate, so handlers
never nest and share state without locks; interleaving happens only between
user instructions. The keyboard handler and `getchar` share the ring and
`keyboard_waiting`. The shell keeps its own idea of which processes run.

`PROJECT.json` lists the hazards of this code at their lines, each with the
properties that cover it.

## Modules

| Module | Models |
|---|---|
| `Userspace` | the programs as labels: which `int n` is raised where and what follows |
| `Keyboard` | scan-code decoder and ring buffer, as operators |
| `VirtualMemory` | frames, flags of page-table entries, the pages `load_process` maps |
| `Kernel` | the kernel's variables and one action per boot call and per handler |
| `System` | `Kernel` with the programs' user instructions and the person at the keyboard; the properties |
| `KeyService` | the abstract keyboard: an ordered queue of characters |
| `Fat32` | the FAT32 driver, the file calls of `disk.c` and the shell's file commands over them, one sector write at a time |
| `FileStore` | the abstract file system: a tree in which every call takes effect at once |
| `Fat32Names` | a file name from the line to the record and back |
| `ShellEditor` | the shell's line, screen, cursor, parser and path, one action per key |
| `Pic` | the two 8259s as `setupPIC` and the shell's first call program them |
| `KeyLine` | `Pic` with the keyboard behind it: codes, the interrupt each raises, the shift count |
| `Ata` | the ATA driver and `setupDrive` against four drives |
| `SectorStore` | the abstract disk: an array of sectors |
| `PageTables` | four levels of page tables, `init_virtual_memory`, `map_page` |
| `PageMap` | the abstract page map |
| `BootImage`, `BootLoader` | `mkbootdisk`, then the loader on the image it made |
| `Startup` | `BootImage`, `BootLoader` and `PageTables` one after the other |
| `MC...` | values for TLC |
| `SystemProofs` | theorems about `System` |
| `Fat32DiskProofs`, `Fat32Proofs` | theorems about `Fat32` |
| `Fat32NamesProofs`, `ShellEditorProofs` | theorems about `Fat32Names`, `ShellEditor` |
| `StartupProofs`, `AtaProofs`, `KeyLineProofs` | theorems about `Startup`, `Ata`, `KeyLine` |

### State and actions

`procs[p]` has the state and the saved registers of entry `p`, `cpu` the live
registers. Of the registers the model keeps `%rax` (results), `%rdi` (the
operand of start and stop), `%rip` and the interrupt flag; the others are saved
and restored alike. A label that is a trap is one `int n`; the whole handler,
with the save, the effect and the return path (`Return`), is one action.
`run(ps, p)` sets `current` and loads `cpu`.

The shell's `if (process0_running)` is compiled without optimisation to a load
into `%eax` and a test. The model keeps the two steps apart because a keyboard
interrupt can come between them, and `keyboard_handler` writes `%rax` of
`keyboard_waiting`. Other uses of `%rax` by the shell's code (the result of its
own `strcmp`, copies of arguments) decide things the model leaves open anyway,
except a copy of the operand of start and stop on its way to `%rdi`, which is
taken to arrive.

`Visit(id, k)` is the closed form of the `k`-th turn of `schedule()`'s loop;
theorem `VisitIsLoop` shows it satisfies the recurrence in the code, so that
`schedule` needs no recursion.

The boot loader's hand-over is `Init`: zeroed statics, interrupts off, the PIC's
mask unknown. `setupDrive` either succeeds or ends in one of its messages.
File-system calls may return any index or halt on a full disk.

### The file system

`System` and `Fat32` meet at the system calls: `System` leaves open what a file
call returns, `Fat32` leaves out the scheduler. That is sound because handlers
run with interrupts off and only the shell makes file calls, so nothing
interleaves with the driver but the power.

`fat[i]` is the i-th copy of the table, `data` the clusters' sectors, each a
sector of text and its directory records. A command is a stack of routines
(`pc`) with the cluster and sector each has come to; a routine reads the disk
and queues its sector writes (`todo`), which reach the disk one by one
(`writeDiskSector`) before the next routine runs. `PowerCut` drops `pc` and
`todo` at any point and starts again in the root directory. `fail` on a full
disk sets `halted` once the writes queued before it are done.

`NextSector` is the walk shared by the search for a record, reading and writing:
next sector, next cluster, or, at the end of the chain, a new cluster. So even
`ls` may allocate (a directory whose last record is in use gets a cluster), as in
the code. The shell searches the whole directory and keeps the last entry whose
first seven characters agree (`Matches`); `Prefix` gives that part of a name. The
place of a record stands for its index. A name is one that the 8.3 conversion
maps to itself, a content is counted in sectors. The person does not type while a
command runs: the index travels in `%rax`, which a key would overwrite.

`FileStore` has a step for `mkdir`, one for a new file, one for a removal. The
shell's `write` over an existing file is a removal and a new file, two steps, so
a power cut between them loses the file; each by itself is all or nothing.

A disk may come from Linux: `Foreign` names empty files that are in the root at
the start, with first cluster 0, and entry 0 of the table holds the media
descriptor.

`Fat32Names` takes one name through `writeFileName`, `readFileName`, the
listing and a second use of the listed name, for every name up to a length.

### Devices

`KeyLine` (with `Pic`) and `Ata` model the driver's code against the device it
drives. The devices are external: what they do with each register write, at any
time. In `Pic` a write is one step, lines are raised in between, and a chip in
the middle of its initialisation takes the next word on the odd port for the next
initialisation word. In `Ata` a drive answers a command some time later; the
driver's waits are guards on the status it polls; a command to a busy or absent
drive is lost. Absent units read as zero.
A code of the keyboard raises IRQ 1 when it gets to the front of `wire`, once.

Both `KeyLine` and `System` leave out keys typed between the loader's `cli`
(`bootentry.S:15`) and the end of `setupInterrupts`. The code does not cope with
them: the first initialisation word (`interrupt_handlers.c:68`) clears the request,
nothing ever reads the code, and a controller that holds an unread one raises no
further request.

These modules discharge what others assume: `Kernel` that after
`setupInterrupts` everything is masked and later only two lines are open;
`Fat32` that sectors are read and written one at a time as asked; `VirtualMemory`
that a call of `map_page` changes one page.

### Shell and boot

`ShellEditor` has an action per branch of `process_main`'s loop. The command
itself is reduced to what it does to line, screen and path: nothing, a message
(which ends its row and has no tab), `clean`, `stop` (which clears a column of the
screen), a `cd` down, a `cd ..`. `dirs` is the list of directories really entered.
What a write beside `screen[]` destroys is not modelled; `OnScreen` says when there
is none. A key is one step, because the person types it when the shell waits for it;
one that comes earlier is written into `%rax` between the load and the store of
`cursor++` or `cmd_ind++` (see the finding below).

`BootLoader` extends `BootImage`, so that the disk the loader reads is one the
builder wrote. A byte is named by its file and place; a program header is one
byte of the scratch page, used only while it is still there (`InPlace`).
`Startup` goes on from the jump: `init_virtual_memory` builds the tables, entry by
entry, and `load_process` opens pages to user code.

## Runs

| Run | Checks | Instance | Result |
|---|---|---|---|
| `typeahead` | `TypeOK`, `ScheduledRunnable`, `NoLostWakeup`, `UserPagesOwned`, `InterruptsNeedProcess`, `ContextIntegrity` | 8 processes, keys `q` and return at any time, start and stop, ring of 2 | holds |
| `patient` | `AssertionsHold` | all commands, keys only while the shell sleeps | holds |
| `keys` | `KeyServiceRefined` | six scan codes (letter, return, shift make and break, prefix, left), ring of 3 | holds |
| `fair` | `RoundRobin`, `KeyWakesShell` | 4 processes, start only, fairness below | holds |
| `assert` | `AssertionsHold` | as `typeahead` | **violated** |
| `fs_cut` | `TypeOK`, `NoSharing`, `CopiesAgree`, `InDirectory`, `FileStoreRefined` | 3 clusters of two sectors, 2 records a sector, two power cuts | holds |
| `fs_whole` | `Parents`, `NoLeak`, `ReadReturnsContent`, `CommandsEnd` | 4 clusters of two sectors, an empty file made elsewhere, no power cut, fairness | holds |
| `names` | `RoundTrip`, `FoundAgain`, `ShownIsStable` | all names up to 9 characters of `A`, `X`, `.`; 5+2 instead of 8+3 | holds |
| `editor` | `TypeOK`, `OnScreen`, `ScreenShowsLine`, `ParsedFaithfully`, `PathShowsDirs` | 2 rows of 8, `path[5]`, every key | holds |
| `keyline` | `OnlyClockAndKeyboard`, `ShiftTracked`, `RequestsServed` | lines 0, 1, 7, 8, 14; masked or open at power-on; both shift keys and a letter; fairness | holds |
| `ata` | `TypeOK`, `SetupOutcome`, `OthersKept`, `SectorStoreRefined`, `Answered` | 1024 machines: a boot disk with or without a partition of its own; each other unit absent, a packet device, or a disk with one of six partition tables; fairness | holds |
| `startup` | `SectorsCounted`, `HeadersKept`, `KernelLoaded`, `IdentityMapped`, `PageMapRefined` | sectors of 4 bytes, six command lines, four kernels; tables of 5 entries, eight user pages | holds |

The finding of `assert`: nothing resets `keyboard_waiting`, so after the first
`getchar` that blocked, every key is written into the shell's saved `%rax` at
once. A key that comes between the load and the test of `process0_running` sends
`stop` for a process that is not running, and the assertion in `sys_stop` halts
the kernel. The same overwriting loses characters typed while the shell works,
which is why `KeyServiceRefined` is claimed for `TypeAhead = FALSE` only.

### Conditions of the properties

Some properties carry a condition because the code does less than one would
expect. Each was found by stating the property without the condition and looking
at TLC's counterexample.

* `OnScreen`, `ScreenShowsLine` (`path = <<>> /\ LineStarts`): typing uses
  `cursor++` (`p_shell.c:92`), not `set_cursor`, and `BUFF_LEN` leaves room for
  `> ` alone. With a path in the prompt a long line on the last row runs past
  `screen[]`; and Up (`p_shell.c:66`), which moves the cursor but not the line,
  can leave a wrapped line's start above the screen, where backspace writes.
* `PathShowsDirs`: `cd` (`p_shell.c:209`) appends to `path[51]` without a bound;
  the model follows the shell while the path fits.
* `RoundTrip` (`FullBase`, `ShortExt`): an eight-character name without extension
  ends the loop of `writeFileName` by its length, not by its terminator, and takes
  its extension from there (`fat32.c:127-136`): `DOCUMENT` is stored with NULs and
  shown as `DOCUMENT.`. Behind an extension of one or two characters, too, the
  record holds NULs where other systems expect blanks.
* `FoundAgain`: a name that is not 8.3 is cut at its first dot or after eight
  characters (`fat32.c:135`): `write A.B.TXT x` makes `A.B.T`, which the shell
  then does not find as `A.B.TXT`.
* The names of the `Fat32` runs differ in their first seven characters, which is all
  that the shell's `strcmp` looks at (`p_shell.c:146`). Otherwise `cd ABCDEFG` enters
  the text file `ABCDEFG.TXT`, although the shell has a message against that
  (`p_shell.c:195`), `mkdir` takes a new name for an old one, and `write` and `rm`
  may remove another entry. With two such names TLC finds `InDirectory` and
  `NoLeak` violated within a few commands and the other invariants kept up to the
  point where the model stops (`InText`), which is what the theorems say (below).
* The clusters of `Fat32` are those of the table. The search for a free cluster
  (`fat32.c:59`) covers every entry of the table's last sector, those behind the
  data area included; on a disk that is otherwise full it hands out a cluster that
  does not exist, and writes behind the partition.
* `CommandsEnd`: an empty file made by Linux has first cluster 0. The first `rm`
  of one frees entry 0 of the table (`fat32.c:299`), a second one follows entry 0
  to itself for ever. The disk of `fs_whole` has one such file.
* `Answered` (`WrongPoll`): `waitdisk` polls the primary channel (`disk.c:17`)
  whatever drive it is called for, although `possibleDrives` has two on the
  secondary one.
* The flush (`disk.c:68`) is sent without a wait; a drive that is still busy with
  the sector ignores it. `Fat32` takes a sector for durable once it is written.
* `OnlyClockAndKeyboard` holds although the slave's vector word goes to the
  master's port (`interrupt_handlers.c:72`): the slave is left with vectors from 0
  and, one word short, unmasked until the shell's first call; the master's mask
  keeps that harmless.
* `ShiftTracked` counts repeats: a held shift key repeats its make code, each
  adds one (`shell.c:29`), its release subtracts one.
* The programs are all linked for the shell's address (`makefile:108`), against
  the comment at `process.c:52`. The models say nothing of addresses inside
  programs; their code happens to be position independent.

What the file-system runs do not claim, because the code does not provide it:
a power cut in `mkdir` leaves a directory without `.` and `..`, which `cd` enters
and only a restart leaves; a power cut, a full disk, or the removal of a
directory with something in it, leaves clusters in use that nothing names
(`Parents` and `NoLeak` carry these conditions). No reachable entry ever names
a free or a shared cluster, cut or not (`NoSharing`).

Bounds. `PROC_NUMBER` is the real 8 in all runs but `fair` (4, enough for the
shell, both dummies and idle; liveness checking pays for every state). Memory
has three pages per slot instead of 64, the smallest size that keeps image,
gap and stack apart. `KB_BUFFER_SIZE` is 2 or 3, so the ring fills and wraps
within a few keys; `I8042_SIZE` is 1 because the driver reads one code per
interrupt and pending codes only delay. `MaxShift` is 1. `FileIndex` has one
index: only "-1 or not" is tested.

In `Fat32`, two copies of a table of two sectors (`FAT_ENTRIES` is 4 instead of
128), so that updates of one sector and of two are both met; two records per
sector, so that a directory outgrows a sector and a cluster after a few commands;
files of three sectors in two-sector clusters, so that a chain has a middle and
an end; few enough clusters that the disk fills up. Runs have no
bound on the number of commands: the disk fills with removed records, which are
never used again.

In the device and shell models sizes are scaled, not structure: a byte register
of `Ata` holds `RADIX` = 2 values, so that a sector number still needs three
registers and part of the fourth; the partition tables have the FAT32 entry
first, last, twice, with a bad boot sector, and not at all, and no two drives need
have the same one, so that a sector of the wrong drive shows. A screen of two rows
scrolls with every command, and a line with its prompt fills a row exactly, as
78 + 2 = 80 does. A name has a base longer than the part `strcmp` compares, as
8 > 7. A page table of five entries has two last-level tables, as 4 MiB does
with 512. Kernels for `startup` have segments that start inside a sector, share
one, or end in bss; the addresses agree with the file offsets modulo the sector
size, as the linker makes them. `MaxLen`, `MaxWire` and `MaxRepeats` only bound the
input.

`CHECK_DEADLOCK FALSE` is set where the program stops: `fail()` in `setupDrive`
and a wait at the wrong channel (`ata`), `usage()` and the loader's endless loop
(`startup`).

Fairness (`FairSpec`): `kernel()` runs on; the shell's first instruction
executes, with everything masked before it; the PIT in mode 2 ticks for ever;
the PIC keeps a pending keyboard IRQ until it is served. User programs get no
fairness of their own, and the person may never type. `Fat32`'s `FairSpec` has
weak fairness of the driver's steps: interrupts are off, the processor goes on.
`Ata`: the same, and a drive ends every command it accepted. `KeyLine`: the
processor goes on, acknowledges and leaves its handlers; no device need ever raise
a line. Ticks have priority over keys, so it also assumes that ticks, 10 ms apart,
leave the processor moments without one pending, and that a key is acknowledged
in one of infinitely many such moments.

## Proofs

Every invariant the runs check is a theorem, for every value of the constants;
so are the action properties and all refinements but one (see below).

### Processes, memory, keyboard

`SystemProofs` begins with what `schedule()` returns for any table and any
`PROC_NUMBER > 3`: `PROC_NUMBER + 1` turns reach every slot but 0. Then it proves
`IInv` inductive:

* `TypeOK`;
* `Control`: in user mode `cpu` holds a context of the running program
  (`GoodReg`: `%rip` in its code, a startable operand where start and stop need
  one), every started entry of the table is such a context (`GoodTable`), only
  the shell ever blocks, idle never does, the PIC has nothing in service, and
  before the first `run` everything is masked;
* `ScheduledRunnable`, `NoLostWakeup`, `InterruptsNeedProcess`.

The strengthening is needed because the trap taken next is decided by saved
registers: without "`%rip` stays in the program's own code" a dummy could call
`getchar` and a second sleeper would break `NoLostWakeup`. One lemma per group
of actions; `ReturnKeeps` covers every handler that ends in `Return`.

For memory it adds `MInv`: user pages lie in slots, and the frames of a slot
are free or owned by its process. Slots are disjoint and above the reserved
hole, which is arithmetic on `LayoutAssumption`.

Three theorems follow from it:

* `ContextsKept`: from `IInv` and `BootAlone` (no process is current before
  `launch_shell`), every action leaves the registers of the other started
  processes alone, up to the character of `keyboard_handler`.
* `AssertionsNeverFail`, under `~TypeAhead`. `PInv` says that the shell's flags
  agree with the table (`FlagsAgree`, with what lies between a flag's load, its
  test and the call) and that no key can be written into the shell's registers
  while they matter (`KeysInTime`). The hypothesis cannot be dropped: run `assert`
  violates the property without it.
* `KeysServed`, the refinement of `KeyService`, under `~TypeAhead`: `RInv` adds
  that the shell's entry is blank until it is launched; each action is a step of
  the queue or none. The ring's contents as a queue, across the wrap, are lemmas
  about `RingQueue`.

### Devices and boot

`StartupProofs`, five theorems for every table size, sector size and command line:

* `MemoryMapped` and `TablesAreFlat`: `TInv` gives every cell of the five tables
  in each phase of `init_virtual_memory`. A page's walk ends in the fourth or
  fifth table (`LeafTable`), at a place no other page shares; then a call of
  `map_page` is a step of `PageMap`.
* `ImageCounted`: `ImageInv`, what is written and what is still in the buffer are
  together the sectors counted.
* `KernelInMemory` and `HeadersStay`: `PlacedInv` says that if sector 1 begins with
  the kernel then all of the file follows, or is on its way in the buffer;
  `LoaderInv` that every segment read so far is in memory as linked (`Loaded`) and
  the one being read is, up to `ptr` (`Reading`). A sector that reaches into the
  segment before puts back the bytes that are there, because both lie in the file
  as they lie in memory; `EarlierKept` is that argument.

`AtaProofs`, four theorems (`TypeOK`, `SetupOutcome`, `OthersKept` and the
refinement of `SectorStore`), for any set of machines, each with its kinds of
drives and the contents of each, from one invariant `AInv`: what the search has passed
over (`Searching`), who asked for which sector and that the drive was told so
(`Asking`), and what the boot record says of the partition found (`Found`).
Underneath is arithmetic: a number below `RADIX`^4, cut into four registers and
put together again, is the number (`DivDiv` and the lemmas after it).
`Searching` shows what the wrong poll comes to: a disk found on the secondary
channel never transfers anything, so that after set-up the active drive is
always the primary slave.

`KeyLineProofs`, two theorems from `KInv`: the master's state after each word of
`setupPIC` and of the shell's call (`Programmed`), a request or a running handler
of the keyboard stands for a code, never both for one (`Requested`), and the shift
makes and breaks still on the wire balance the count against the keys held
(`Balanced`).

### File system

`Fat32DiskProofs`: `TypeOK`, `NoSharing` and `InDirectory`, at every moment of
every command and after any number of power cuts. The invariant `DInv` says that
there are three things the driver does not keep:

* `home`: for each cluster the head of the chain it belongs to, or 0. A link stays
  within one home, no two links meet, a record of a file names a head in use and
  no two records name the same (`TableOK`, `RecordsOK`);
* `rank`: a number that grows along every link, so that chains end;
* `anc`: the directories from the root down to the current one, each listed in the
  one before and, under `KindsApart`, as a directory (`PathOK`). It keeps the current directory reachable: `rm` refuses
  `.` and `..`, and what it finds in the current directory is not above it.

`ShellInDirectory` has `KindsApart` as a hypothesis: names that the shell's
comparison takes for equal are both text files or both directories. Nothing in
the code keeps the person to that, and without it `cd` enters a text file.
The other theorems do without it, but say nothing of what the shell does inside a
text file with content, whose bytes the driver would read as records: there the
model stops (`InText`).

They are quantified inside the invariant, so no step has to name them but the
proofs. `QueueOK` says what each queued sector write will do to them (mark, link,
free, one new record, one removed record, blank sectors of a chain nobody names),
`FramesOK` what each routine on the stack relies on: the chain in the making is
nobody's, and the cluster `removeFATChain` holds has no owner once the first queued
write is done. A power cut drops queue and stack, and what is left of `DInv` still
holds: that is why the order mark, wipe, link, record is right. `Chain` and
`Directories` are sets iterated `LAST_CLUSTER` times; `Iterates` and `Saturated`
show that this is enough (a set that grows in each step runs out of clusters), and
`ChainHome` that a head's chain is its home.

`Fat32Proofs` has three parts.

* `CopiesKept`. `CInv` says that the queue of sector writes is in order (`Ordered`:
  an entry is followed by every copy of its sector before anything else), that the
  copies written so far agree in the sector being written, and that no other sector
  is torn beyond the cuts. What each routine queues is whole (`WholeUpdate`,
  `WholeJoined`, `RoutinesQueue`).
* `WholeFileRead`. `SInv` adds to `DInv` that a chain `Covers` the size of every
  record, on the disk (`SizesOK`) and in the queue (`QueuedOK`), that the file in
  the making has room for what was written so far (`JobOK`), and that a reader's
  buffer is the beginning of the content and its place the next sector (`TopOK`).
  A link behind the end of a chain changes none of the clusters before it.
* `NothingLeaks` and `ParentsKept`. `KInv` holds while no power cut came and the
  disk is not full: every cluster in use is in a chain somebody holds (a record, a
  queued record, the file in the making, `removeFATChain`), or is about to be linked
  or freed (`AllKept`); every directory has its `..`, or it is queued, or the
  routine that adds it is still to run (`AllDotted`). `NothingLeaks` has `KindsApart`
  as a hypothesis, `ParentsKept` has none. `DirectoryRemoved`, the excuse
  `NoLeak` makes, never becomes false again: its record is never used again and
  the directory it lies in stays reachable or leaves such a record itself.

`Fat32NamesProofs`, three theorems for every width of base and extension: `NInv`
follows the conversion byte by byte, with the place where the name stops. `RoundTrip`
covers every 8.3 name, a full base without extension and short extensions
included. A shown name stored again gives the same record.

### Shell

`ShellEditorProofs`, five theorems for every size of screen, line and path:

* `EditorTypes`, `WritesOnScreen` and `LineOnScreen` from `EInv`. `Home`, the place
  where the line begins, is in the third column of a row of the screen or has
  scrolled off; behind it lies the line. One lemma for each thing that happens to
  the screen (`ScrollKeeps`, `PutKeeps`, `MoveKeeps`, `UpKeeps`, `BackspaceKeeps`,
  `DoneKeeps`). `sys_write` is a fold over the message; `StepsExist` gives the
  screens in between.
* `PathNamesDirs`: a path is the join of the directories (`JoinedAppend`), and what
  `cd ..` cuts off is the last one (`SlashCut`).
* `PartsFound`: `WordRank` counts the words that begin up to a place; the parser's
  counter is that number (`Counted`).

### Assumptions

Assumptions, each in the module that declares its constants and evaluated by TLC in
the runs:

* `LayoutAssumption`, `KeyboardAssumption`, `FileIndexAssumption`,
  `SystemAssumption`. The real values satisfy them (slots start at 1 MiB, above
  the I/O hole; eight slots of 256 KiB end at 3 MiB of 4).
* `TablesAssumption`: user pages are pages of memory, not page 0.
* `ImageAssumption`: a command line is a sequence of files and skips, and names at
  least the boot sector.
* `LinkAssumption`: kernels are laid out as `kernel.ld` says: sections ascend from
  `0x40000`, above the scratch page at `0x10000`; addresses and file offsets agree
  modulo the sector; a segment begins in a sector of its own or follows the one
  before it in the file as in memory; the file holds its headers, in the first
  page, and its segments; and `mkbootdisk` fills the image out (1024 sectors) to at
  least the page the loader reads from sector 1, whatever the size of the file.
* `AtaAssumption`: a machine has a kind and contents of its own for each drive, the
  boot drive is a disk, a drive has no more sectors than four registers can name. `AskedAssumption`: the file system asks for sectors behind
  the boot sector of its partition (`fatLBA`, `fstClusterLBA`).
* `PicAssumption`, `LineAssumption`: the keyboard alone drives line 1.
* `Fat32Assumption`: the sizes are positive, cluster numbers lie below the end
  marks. `DotsAssumption`: `.` and `..`, shorter than what is compared, equal no
  other name.
  `ContentsAssumption`: content is a sequence of sectors.
* `NamesAssumption`: the characters compared fit the base (7 of 8).
* `EditorAssumption`: the space is among the keys and the backslash is not, as in the
  driver's table. `MessagesAssumption`: a message ends with a newline and has no tab.

Some operators have the form they have for the provers' sake, who know no powers
and no `RECURSIVE`: `PageTables!Span`, `Pic!Weight` and `Ata!R2` to `R4` list the
powers; `Visit` is a closed form. Induction is done by hand: the theorems of the
library that take an operator as a parameter cannot be used, a least
counterexample can (`AtaProofs!Least`, `Fat32DiskProofs!NoLeast`).

Only model-checked:

* all liveness (`RoundRobin`, `KeyWakesShell`, `RequestsServed`, `Answered`,
  `CommandsEnd`), which the prover does not handle;
* of `Fat32` the refinement of `FileStore`. It needs two inductions the other proofs
  do without: over the levels of the tree, so that a path leads to one node, and
  over a directory's chain, so that behind an unused record all are unused and a
  name that was not found is not there. `fs_cut` checks it with power cuts.

## Not modelled

* Segment descriptors (constants, loaded once) and `alloc_frame`,
  `find_free_frame`, which have no caller.
* `frames_info` is `static` in `virtual_memory.h`, so `process.c` has a copy of
  its own, and what `init_process` adds to a count there reaches no other code.
* Console and serial output; a tab in a printed message.
* The `-p` and `-m` modes of `mkbootdisk`, which the makefile does not use; a file
  it cannot open. `bootentry.S`, which only switches processor modes.
* `boot_waitdisk` (`boot.c:84-91`): it waits for ready and not busy, not for `DRQ`;
  `BootLoader` takes a sector to be there. Program headers without bytes in file and
  memory, which the loader does not tell from segments and which load nothing.
* In `Kernel` a `setupDrive` that waits for ever; `Ata` has it.
* Keys typed before the end of `setupInterrupts`, and, in all modules but `System`,
  keys typed while the shell is busy.
* The timer's rate; a drive that reports an error on read or write, which the
  driver does not look at; sector numbers from 2^28 on.
* Long file names and volume labels on disks made elsewhere; files there that are
  longer than the shell's buffer.
* Vendored headers (`x86-64.h`, `elf.h`, `lib.h`).

## Plan

1. Kernel core, keyboard service, first proofs (done).
2. `Fat32` and `FileStore` (done).
3. `Fat32Names`, `ShellEditor`, `Pic` and `KeyLine`, `Ata`, `PageTables` and the boot
   in `Startup` (done).
4. Proofs for the kernel, the devices, the boot, the file system, its names and the
   line editor (done).
5. Left to do: a proof of the refinement of `FileStore`.
