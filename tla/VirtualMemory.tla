---------------------------- MODULE VirtualMemory ----------------------------
(***************************************************************************)
(* Physical frames and the one page table, shared by the kernel and every  *)
(* process.  Addresses are page numbers (the address divided by PAGE_SIZE);*)
(* the map is the identity, so a page-table entry is its set of flags.     *)
(* The four-level walk of get_page always finds the entry of a page below  *)
(* FRAME_NUMBER: init_virtual_memory installs all five tables first.       *)
(***************************************************************************)
EXTENDS Integers, Userspace

CONSTANTS
  PROC_NUMBER,    \* entries of procs
  FRAME_NUMBER,   \* frames of physical memory
  KERNEL_START,   \* first page of the kernel image
  KERNEL_END,     \* first page after it (the linker's `end`, rounded up)
  IOPHYSMEM,      \* first page of the reserved I/O hole
  EXTPHYSMEM,     \* first page after it
  PROC_START,     \* page of PROC_START_ADDR
  PROC_PAGES,     \* pages of one process slot (PROC_SIZE / PAGE_SIZE)
  ImagePages      \* program -> pages its binary needs

Frame  == 0..(FRAME_NUMBER - 1)
ProcId == 0..(PROC_NUMBER - 1)

ASSUME LayoutAssumption ==
  /\ PROC_NUMBER \in Nat /\ PROC_NUMBER > 3
  /\ FRAME_NUMBER \in Nat
  /\ KERNEL_START \in Nat \ {0} /\ KERNEL_END \in Nat
  /\ IOPHYSMEM \in Nat /\ EXTPHYSMEM \in Nat /\ PROC_START \in Nat
  /\ PROC_PAGES \in Nat \ {0}
  /\ KERNEL_START < KERNEL_END /\ KERNEL_END <= IOPHYSMEM
  /\ IOPHYSMEM < EXTPHYSMEM /\ EXTPHYSMEM <= PROC_START
  /\ PROC_START + PROC_NUMBER * PROC_PAGES <= FRAME_NUMBER
  /\ ImagePages \in [Programs -> Nat \ {0}]
  /\ \A i \in Programs : ImagePages[i] < PROC_PAGES

\* Owners: process ids, and
PO_FREE     == 0
PO_RESERVED == -1
PO_KERNEL   == -2
Owner       == ProcId \cup {PO_FREE, PO_RESERVED, PO_KERNEL}

PTE_P == "P"
PTE_W == "W"
PTE_U == "U"
Flags == {PTE_P, PTE_W, PTE_U}

FrameInfo == [owner: Owner, refcount: Nat]

physical_memory_isreserved(f) == f = 0 \/ (f >= IOPHYSMEM /\ f < EXTPHYSMEM)

\* frames_info after init_framing.
init_framing ==
  [f \in Frame |->
     LET owner == IF physical_memory_isreserved(f) THEN PO_RESERVED
                  ELSE IF f >= KERNEL_START /\ f < KERNEL_END THEN PO_KERNEL
                  ELSE PO_FREE
     IN  [owner |-> owner, refcount |-> IF owner # PO_FREE THEN 1 ELSE 0]]

\* The page table init_virtual_memory builds: page 0 is read-only.
kernel_pagetable ==
  [f \in Frame |-> IF f = 0 THEN {PTE_P} ELSE {PTE_P, PTE_W}]

map_pages(pt, pages, flags) ==
  [f \in Frame |-> IF f \in pages THEN flags ELSE pt[f]]

\* assign_physical_page on each page: a page already counted is left alone,
\* and load_process ignores the -1 this returns.
assign_physical_pages(frames, pages, owner) ==
  [f \in Frame |-> IF f \in pages /\ frames[f].refcount = 0
                   THEN [owner |-> owner, refcount |-> 1]
                   ELSE frames[f]]

\* The pages load_process gives process id running program prog.
user_base(id) == PROC_START + id * PROC_PAGES

\* Mutant: the stack's page is taken `i' rather than `i + 1' pages down.
stack_pages_high(id) == {user_base(id) + PROC_PAGES}

image_pages(id, prog) == user_base(id)..(user_base(id) + ImagePages[prog] - 1)
stack_pages(id) == {user_base(id) + PROC_PAGES - 1}
loaded_pages(id, prog) == image_pages(id, prog) \cup stack_pages(id)

\* The pages of the slot of process id.
slot_pages(id) == user_base(id)..(user_base(id) + PROC_PAGES - 1)
=============================================================================
