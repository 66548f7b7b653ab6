----------------------------- MODULE PageTables -----------------------------
(***************************************************************************)
(* The four levels of page tables: init_virtual_memory lays out five       *)
(* tables and maps all of memory, load_process maps user pages later; the  *)
(* processor walks the tables.  Addresses are page numbers; a table has    *)
(* ENTRIES entries (512), and memory is two last-level tables long.        *)
(***************************************************************************)
EXTENDS Integers, FiniteSets

CONSTANTS
  ENTRIES,       \* entries of a table
  UserPages      \* pages load_process may map

PTE_P == "P"
PTE_W == "W"
PTE_U == "U"
Flags == {PTE_P, PTE_W, PTE_U}
MEM_PAGES == 2 * ENTRIES
Page      == 0..(MEM_PAGES - 1)
Index     == 0..(ENTRIES - 1)
Table     == 0..4

ASSUME TablesAssumption ==
  /\ ENTRIES \in Nat /\ ENTRIES > 1 /\ UserPages \subseteq Page \ {0}

VARIABLES
  vm,        \* "zeroed", "map" or "run"
  mapped,    \* the page the loop has come to
  tables,    \* kernel_pagetables
  failed     \* assert(page != NULL, "C'est NULL")

tvars == <<vm, mapped, tables, failed>>

\* An entry leads to a table, or in the last level to a frame.
Zero  == [to |-> 0, flags |-> {}]
Entry == [to: Page, flags: SUBSET Flags]

TablesInit ==
  /\ vm = "zeroed" /\ mapped = 0 /\ failed = FALSE
  /\ tables = [t \in Table |-> [k \in Index |-> Zero]]

\* Pages that one entry of each level covers: the shifts 39, 30, 21, 12.
Span == <<ENTRIES * ENTRIES * ENTRIES, ENTRIES * ENTRIES, ENTRIES, 1>>

\* Mutant: the mask leaves out the lowest bit.
level_index_even(level, p) ==
  LET k == (p \div Span[level]) % ENTRIES IN IF level = 4 THEN k - (k % 2) ELSE k

\* pml4_index, pdpt_index, pd_index, pt_index for levels 1 to 4.
level_index(level, p) == (p \div Span[level]) % ENTRIES

\* The entries met on the way down, the last one for the page itself.
Entries(p) ==
  LET e1 == tables[0][level_index(1, p)]
      e2 == tables[e1.to][level_index(2, p)]
      e3 == tables[e2.to][level_index(3, p)]
  IN  <<e1, e2, e3, tables[e3.to][level_index(4, p)]>>

\* get_page finds the entry: no caller passes an allocator, so a missing
\* table makes it return NULL.
Found(p) == \A l \in 1..3 : PTE_P \in Entries(p)[l].flags

map_page(p, frame, flags) ==
  /\ failed' = ~Found(p)
  /\ tables' = IF Found(p)
               THEN [tables EXCEPT ![Entries(p)[3].to][level_index(4, p)] =
                       [to |-> frame, flags |-> flags]]
               ELSE tables

\* Mutant: one last-level table only.
install_tables_one ==
  /\ vm = "zeroed" /\ vm' = "map"
  /\ tables' = [tables EXCEPT
       ![0][0] = [to |-> 1, flags |-> Flags], ![1][0] = [to |-> 2, flags |-> Flags],
       ![2][0] = [to |-> 3, flags |-> Flags]]
  /\ UNCHANGED <<mapped, failed>>

\* The upper levels let everything through.
install_tables ==
  /\ vm = "zeroed" /\ vm' = "map"
  /\ tables' = [tables EXCEPT
       ![0][0] = [to |-> 1, flags |-> Flags], ![1][0] = [to |-> 2, flags |-> Flags],
       ![2][0] = [to |-> 3, flags |-> Flags], ![2][1] = [to |-> 4, flags |-> Flags]]
  /\ UNCHANGED <<mapped, failed>>

map_memory ==
  /\ vm = "map" /\ mapped < MEM_PAGES /\ ~failed
  /\ map_page(mapped, mapped, {PTE_P, PTE_W})
  /\ mapped' = mapped + 1
  /\ UNCHANGED vm

\* The null page read-only; then change_pagetable.
map_page0 ==
  /\ vm = "map" /\ mapped = MEM_PAGES /\ ~failed
  /\ map_page(0, 0, {PTE_P})
  /\ vm' = "run"
  /\ UNCHANGED mapped

\* One page of load_process.
load_process_page(p) ==
  /\ vm = "run" /\ ~failed
  /\ map_page(p, p, Flags)
  /\ UNCHANGED <<vm, mapped>>

TablesNext == install_tables \/ map_memory \/ map_page0 \/ \E p \in UserPages : load_process_page(p)

TablesSpec == TablesInit /\ [][TablesNext]_tvars

----------------------------------------------------------------------------
\* What the processor makes of page p: a right needs every level.
MMU(p) ==
  LET e == Entries(p)
  IN  IF \A l \in 1..4 : PTE_P \in e[l].flags
      THEN [to |-> e[4].to, flags |-> e[1].flags \cap e[2].flags \cap e[3].flags \cap e[4].flags]
      ELSE Zero

\* Through four levels, each map_page sets one page and no other: the tables
\* never fold two addresses onto one entry.
Flat == INSTANCE PageMap WITH map <- [p \in Page |-> MMU(p)], Absent <- Zero

PageMapRefined == Flat!Spec

\* What the rest of the kernel takes for granted once paging is on: every
\* page of memory is mapped to itself, the null page read-only, and only
\* pages load_process mapped are open to user code.  And no page on the way
\* there, up to the last before MEM_SIZE, fails the assertion of map_page,
\* "C'est NULL".
IdentityMapped ==
  /\ ~failed
  /\ vm = "run" =>
       /\ \A p \in Page : MMU(p).to = p
       /\ MMU(0).flags = {PTE_P}
       /\ \A p \in Page \ {0} :
            MMU(p).flags = {PTE_P, PTE_W} \/ (p \in UserPages /\ MMU(p).flags = Flags)
=============================================================================
