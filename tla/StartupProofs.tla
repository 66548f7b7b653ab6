---------------------------- MODULE StartupProofs ----------------------------
(***************************************************************************)
(* Proofs about the way from the makefile to user code: mkbootdisk counts  *)
(* the sectors it writes, the loader gets the kernel into memory as it was *)
(* linked, and the page tables map all of memory to itself and act as one  *)
(* flat map; for every sector and table size, every command line and every *)
(* kernel that is laid out as kernel.ld lays it out.                       *)
(***************************************************************************)
EXTENDS Startup, TLAPS

----------------------------------------------------------------------------
\* The page tables.

\* The entries install_tables sets: a path down to the two last tables.
Upper(t) == [to |-> t, flags |-> Flags]

\* What a cell of a table can hold.
Cell == [to: Nat, flags: SUBSET Flags]

\* Which of the two last tables holds the entry of page p, and where.
LeafTable(p) == IF p < ENTRIES THEN 3 ELSE 4
LeafIndex(p) == IF p < ENTRIES THEN p ELSE p - ENTRIES

Leaf(p) == tables[LeafTable(p)][LeafIndex(p)]

Installed ==
  /\ tables[0][0] = Upper(1) /\ tables[1][0] = Upper(2)
  /\ tables[2][0] = Upper(3) /\ tables[2][1] = Upper(4)

\* The invariant behind IdentityMapped: how far the loop has come.
TInv ==
  /\ failed = FALSE /\ vm \in {"zeroed", "map", "run"}
  /\ tables \in [Table -> [Index -> Cell]]
  /\ mapped \in 0..MEM_PAGES
  /\ vm = "zeroed" => /\ mapped = 0
                      /\ tables = [t \in Table |-> [k \in Index |-> Zero]]
  /\ vm # "zeroed" => Installed
  /\ vm = "map" => \A p \in Page :
       Leaf(p) = IF p < mapped THEN [to |-> p, flags |-> {PTE_P, PTE_W}] ELSE Zero
  /\ vm = "run" =>
       /\ Leaf(0) = [to |-> 0, flags |-> {PTE_P}]
       /\ \A p \in Page \ {0} :
            \/ Leaf(p) = [to |-> p, flags |-> {PTE_P, PTE_W}]
            \/ p \in UserPages /\ Leaf(p) = [to |-> p, flags |-> Flags]

\* Memory is so small that only the last two indices of a page differ from
\* zero, and the third only for the second half.
LEMMA Indices ==
  ASSUME NEW p \in Page
  PROVE  /\ level_index(1, p) = 0 /\ level_index(2, p) = 0
         /\ level_index(3, p) = LeafTable(p) - 3
         /\ level_index(4, p) = LeafIndex(p)
         /\ LeafIndex(p) \in Index /\ LeafTable(p) \in Table
<1> DEFINE e == ENTRIES
<1>1. e \in Nat /\ e > 1 /\ p \in 0..(2 * e - 1)
  BY TablesAssumption DEF Page, MEM_PAGES
<1>2. e * e \in Nat /\ p < e * e
  BY <1>1
<1>3. e * e * e \in Nat /\ p < e * e * e
  <2> DEFINE s == e * e
  <2>1. s \in Nat /\ s * e \in Nat /\ s <= s * e
    BY <1>1
  <2> QED  BY <1>1, <1>2, <2>1
<1>4. \A m \in Nat : p < m => p \div m = 0
  <2> SUFFICES ASSUME NEW m \in Nat, p < m PROVE p \div m = 0
    OBVIOUS
  <2> QED  BY <1>1
<1>5. \A k \in 0..(e - 1) : k % e = k
  BY <1>1
<1>6. level_index(1, p) = 0 /\ level_index(2, p) = 0
  <2>1. p \div (e * e * e) = 0 /\ p \div (e * e) = 0
    BY <1>2, <1>3, <1>4
  <2> QED  BY <1>1, <1>5, <2>1 DEF level_index, Span
<1>7. p \div e = LeafTable(p) - 3
  <2>1. CASE p < e
    BY <1>1, <1>4, <2>1 DEF LeafTable
  <2>2. CASE p >= e
    <3>1. PICK k \in 0..(e - 1) : p = e + k
      BY <1>1, <2>2
    <3>2. (e + k) \div e = 1
      BY <1>1
    <3> QED  BY <1>1, <2>2, <3>1, <3>2 DEF LeafTable
  <2> QED  BY <1>1, <2>1, <2>2
<1>8. level_index(3, p) = LeafTable(p) - 3
  BY <1>1, <1>5, <1>7 DEF level_index, Span, LeafTable
<1>9. p % e = LeafIndex(p)
  <2>1. CASE p < e
    BY <1>1, <1>5, <2>1 DEF LeafIndex
  <2>2. CASE p >= e
    <3>1. PICK k \in 0..(e - 1) : p = e + k
      BY <1>1, <2>2
    <3>2. (e + k) % e = k
      BY <1>1
    <3> QED  BY <1>1, <2>2, <3>1, <3>2 DEF LeafIndex
  <2> QED  BY <1>1, <2>1, <2>2
<1>10. level_index(4, p) = LeafIndex(p)
  <2>1. p \div 1 = p
    BY <1>1
  <2> QED  BY <1>9, <2>1 DEF level_index, Span
<1>11. LeafIndex(p) \in Index /\ LeafTable(p) \in Table
  BY <1>1 DEF LeafIndex, LeafTable, Index, Table
<1> QED  BY <1>6, <1>8, <1>10, <1>11

\* Different pages have different last entries.
LEMMA LeafInjective ==
  ASSUME NEW p \in Page, NEW q \in Page,
         LeafTable(p) = LeafTable(q), LeafIndex(p) = LeafIndex(q)
  PROVE  p = q
BY TablesAssumption DEF LeafTable, LeafIndex, Page, MEM_PAGES

\* Once the tables are installed, the walk ends at the page's own entry.
LEMMA Walk ==
  ASSUME Installed, NEW p \in Page
  PROVE  /\ Entries(p) = <<Upper(1), Upper(2), Upper(LeafTable(p)), Leaf(p)>>
         /\ Found(p)
         /\ MMU(p) = IF PTE_P \in Leaf(p).flags
                     THEN [to |-> Leaf(p).to, flags |-> Flags \cap Leaf(p).flags]
                     ELSE Zero
<1>1. Entries(p) = <<Upper(1), Upper(2), Upper(LeafTable(p)), Leaf(p)>>
  <2>1. /\ level_index(1, p) = 0 /\ level_index(2, p) = 0
        /\ level_index(4, p) = LeafIndex(p)
        /\ tables[2][level_index(3, p)] = Upper(LeafTable(p))
    BY Indices DEF Installed, LeafTable
  <2>2. tables[0][0] = Upper(1) /\ tables[1][0] = Upper(2)
    BY DEF Installed
  <2>3. /\ Upper(1).to = 1 /\ Upper(2).to = 2
        /\ Upper(LeafTable(p)).to = LeafTable(p)
    BY DEF Upper
  <2> DEFINE e1 == tables[0][level_index(1, p)]
             e2 == tables[e1.to][level_index(2, p)]
             e3 == tables[e2.to][level_index(3, p)]
             e4 == tables[e3.to][level_index(4, p)]
  <2>4. Entries(p) = <<e1, e2, e3, e4>>
    BY DEF Entries
  <2>5. e1 = Upper(1)
    BY <2>1, <2>2
  <2>6. e2 = Upper(2)
    BY <2>1, <2>2, <2>3, <2>5
  <2>7. e3 = Upper(LeafTable(p))
    BY <2>1, <2>3, <2>6
  <2>8. e4 = Leaf(p)
    BY <2>1, <2>3, <2>7 DEF Leaf
  <2> HIDE DEF e1, e2, e3, e4
  <2> QED  BY <2>4, <2>5, <2>6, <2>7, <2>8
<1>2. Found(p)
  BY <1>1 DEF Found, Upper, Flags
<1>3. MMU(p) = IF PTE_P \in Leaf(p).flags
               THEN [to |-> Leaf(p).to, flags |-> Flags \cap Leaf(p).flags]
               ELSE Zero
  <2> DEFINE en == Entries(p)
  <2>1. /\ en[1].flags = Flags /\ en[2].flags = Flags /\ en[3].flags = Flags
        /\ en[4] = Leaf(p) /\ PTE_P \in Flags
    BY <1>1 DEF Upper, Flags
  <2> HIDE DEF en
  <2>2. (\A l \in 1..4 : PTE_P \in en[l].flags) <=> PTE_P \in Leaf(p).flags
    BY <2>1
  <2>3. en[1].flags \cap en[2].flags \cap en[3].flags \cap en[4].flags
          = Flags \cap Leaf(p).flags
    BY <2>1
  <2> QED  BY <2>1, <2>2, <2>3 DEF MMU, en
<1> QED  BY <1>1, <1>2, <1>3

\* What the processor then makes of a page, as a state predicate, for the
\* states before and after a step.
Seen == \A p \in Page :
  MMU(p) = IF PTE_P \in Leaf(p).flags
           THEN [to |-> Leaf(p).to, flags |-> Flags \cap Leaf(p).flags]
           ELSE Zero

LEMMA WalkSeen == Installed => Seen
BY Walk DEF Seen

\* map_page on installed tables changes the page's own entry and no other.
LEMMA MapPage ==
  ASSUME Installed, tables \in [Table -> [Index -> Cell]],
         NEW p \in Page, NEW fl \in SUBSET Flags, map_page(p, p, fl)
  PROVE  /\ failed' = FALSE /\ Installed'
         /\ tables' \in [Table -> [Index -> Cell]]
         /\ Leaf(p)' = [to |-> p, flags |-> fl]
         /\ \A q \in Page \ {p} : Leaf(q)' = Leaf(q)
<1> DEFINE t == LeafTable(p)
           k == LeafIndex(p)
           en == [to |-> p, flags |-> fl]
<1>1. Found(p) /\ Entries(p)[3].to = t /\ level_index(4, p) = k
      /\ t \in {3, 4} /\ k \in Index /\ en \in Cell
  BY Walk, Indices DEF Upper, Cell, LeafTable, Page
<1>2. failed' = FALSE /\ tables' = [tables EXCEPT ![t][k] = en]
  BY <1>1 DEF map_page
<1> HIDE DEF t, k, en
<1>3. /\ tables' \in [Table -> [Index -> Cell]]
      /\ tables'[0] = tables[0] /\ tables'[1] = tables[1] /\ tables'[2] = tables[2]
      /\ \A u \in Table, j \in Index :
           tables'[u][j] = IF u = t /\ j = k THEN en ELSE tables[u][j]
  BY <1>1, <1>2 DEF Table
<1>4. Installed'
  BY <1>3 DEF Installed
<1>5. Leaf(p)' = en
  BY <1>1, <1>3, Indices DEF Leaf, t, k
<1>6. \A q \in Page \ {p} : Leaf(q)' = Leaf(q)
  BY <1>3, Indices, LeafInjective DEF Leaf, t, k
<1> QED  BY <1>2, <1>3, <1>4, <1>5, <1>6 DEF en

\* The loop over memory, the null page and load_process keep the invariant.
LEMMA TablesKept ==
  ASSUME TInv, [TablesNext]_tvars PROVE TInv'
<1>0. ENTRIES \in Nat /\ ENTRIES > 1 /\ MEM_PAGES = 2 * ENTRIES /\ MEM_PAGES \in Nat
  BY TablesAssumption DEF MEM_PAGES
<1>1. CASE install_tables
  <2>1. /\ vm' = "map" /\ mapped' = 0 /\ failed' = FALSE
        /\ tables = [t \in Table |-> [k \in Index |-> Zero]]
    BY <1>1 DEF install_tables, TInv
  <2>2. Zero \in Cell /\ \A t \in 1..4 : Upper(t) \in Cell
    BY DEF Zero, Cell, Upper
  <2>3. {0, 1} \subseteq Index /\ {0, 1, 2, 3, 4} = Table
    BY <1>0 DEF Index, Table
  <2>4. tables' = [tables EXCEPT ![0][0] = Upper(1), ![1][0] = Upper(2),
                                 ![2][0] = Upper(3), ![2][1] = Upper(4)]
    BY <1>1 DEF install_tables, Upper
  <2>5. /\ tables' \in [Table -> [Index -> Cell]]
        /\ tables'[0][0] = Upper(1) /\ tables'[1][0] = Upper(2)
        /\ tables'[2][0] = Upper(3) /\ tables'[2][1] = Upper(4)
        /\ tables'[3] = tables[3] /\ tables'[4] = tables[4]
    <3>1. tables \in [Table -> [Index -> Cell]]
      BY <2>1, <2>2
    <3> DEFINE T1 == [tables EXCEPT ![0][0] = Upper(1)]
               T2 == [T1 EXCEPT ![1][0] = Upper(2)]
               T3 == [T2 EXCEPT ![2][0] = Upper(3)]
               T4 == [T3 EXCEPT ![2][1] = Upper(4)]
    <3>2. tables' = T4
      BY <2>4
    <3>3. /\ T1 \in [Table -> [Index -> Cell]] /\ T1[0][0] = Upper(1)
          /\ T1[3] = tables[3] /\ T1[4] = tables[4]
      BY <2>2, <2>3, <3>1
    <3> HIDE DEF T1
    <3>4. /\ T2 \in [Table -> [Index -> Cell]] /\ T2[0] = T1[0]
          /\ T2[1][0] = Upper(2) /\ T2[3] = T1[3] /\ T2[4] = T1[4]
      BY <2>2, <2>3, <3>3
    <3> HIDE DEF T2
    <3>5. /\ T3 \in [Table -> [Index -> Cell]] /\ T3[0] = T2[0] /\ T3[1] = T2[1]
          /\ T3[2][0] = Upper(3) /\ T3[3] = T2[3] /\ T3[4] = T2[4]
      BY <2>2, <2>3, <3>4
    <3> HIDE DEF T3
    <3>6. /\ T4 \in [Table -> [Index -> Cell]] /\ T4[0] = T3[0] /\ T4[1] = T3[1]
          /\ T4[2][0] = Upper(3) /\ T4[2][1] = Upper(4)
          /\ T4[3] = T3[3] /\ T4[4] = T3[4]
      BY <2>2, <2>3, <3>5
    <3> HIDE DEF T4
    <3> QED  BY <3>2, <3>3, <3>4, <3>5, <3>6
  <2>6. \A p \in Page : Leaf(p)' = Zero
    BY <2>1, <2>3, <2>5, Indices DEF Leaf, LeafTable
  <2>7. \A p \in Page : ~(p < 0)
    BY <1>0 DEF Page
  <2> QED  BY <1>0, <2>1, <2>5, <2>6, <2>7 DEF TInv, Installed
<1>2. CASE map_memory
  <2> DEFINE fl == {PTE_P, PTE_W}
  <2>1. /\ vm = "map" /\ vm' = "map" /\ mapped < MEM_PAGES /\ mapped' = mapped + 1
        /\ map_page(mapped, mapped, fl) /\ Installed
        /\ tables \in [Table -> [Index -> Cell]] /\ mapped \in 0..MEM_PAGES
    BY <1>2 DEF map_memory, TInv
  <2>2. mapped \in Page /\ mapped' \in 0..MEM_PAGES /\ fl \in SUBSET Flags
    BY <1>0, <2>1 DEF Page, Flags
  <2>3. /\ failed' = FALSE /\ Installed'
        /\ tables' \in [Table -> [Index -> Cell]]
        /\ tables'[LeafTable(mapped)][LeafIndex(mapped)] = [to |-> mapped, flags |-> fl]
        /\ \A q \in Page \ {mapped} : Leaf(q)' = Leaf(q)
    BY <2>1, <2>2, MapPage DEF Leaf
  <2>4. ASSUME NEW p \in Page
        PROVE  Leaf(p)' = IF p < mapped' THEN [to |-> p, flags |-> fl] ELSE Zero
    <3>1. CASE p = mapped
      BY <1>0, <2>1, <2>3, <3>1 DEF Leaf, Page
    <3>2. CASE p # mapped
      <4>1. p < mapped' <=> p < mapped
        BY <1>0, <2>1, <3>2 DEF Page
      <4> QED  BY <2>1, <2>3, <3>2, <4>1 DEF TInv
    <3> QED  BY <3>1, <3>2
  <2> QED  BY <2>1, <2>2, <2>3, <2>4 DEF TInv
<1>3. CASE map_page0
  <2>1. /\ vm = "map" /\ vm' = "run" /\ mapped = MEM_PAGES /\ mapped' = mapped
        /\ map_page(0, 0, {PTE_P}) /\ Installed
        /\ tables \in [Table -> [Index -> Cell]] /\ mapped \in 0..MEM_PAGES
    BY <1>3 DEF map_page0, TInv
  <2>2. 0 \in Page /\ {PTE_P} \in SUBSET Flags
    BY <1>0 DEF Page, Flags
  <2>3. /\ failed' = FALSE /\ Installed'
        /\ tables' \in [Table -> [Index -> Cell]]
        /\ Leaf(0)' = [to |-> 0, flags |-> {PTE_P}]
        /\ \A q \in Page \ {0} : Leaf(q)' = Leaf(q)
    BY <2>1, <2>2, MapPage
  <2>4. \A p \in Page : p < mapped
    BY <1>0, <2>1 DEF Page
  <2>5. \A p \in Page \ {0} : Leaf(p)' = [to |-> p, flags |-> {PTE_P, PTE_W}]
    BY <2>1, <2>3, <2>4 DEF TInv
  <2> QED  BY <2>1, <2>3, <2>5 DEF TInv
<1>4. CASE \E p \in UserPages : load_process_page(p)
  <2>1. PICK p \in UserPages : load_process_page(p)
    BY <1>4
  <2>2. /\ vm = "run" /\ vm' = "run" /\ mapped' = mapped
        /\ map_page(p, p, Flags) /\ Installed
        /\ tables \in [Table -> [Index -> Cell]] /\ mapped \in 0..MEM_PAGES
        /\ p \in Page \ {0} /\ 0 \in Page
    BY <1>0, <2>1, TablesAssumption DEF load_process_page, TInv, Page
  <2>3. /\ failed' = FALSE /\ Installed'
        /\ tables' \in [Table -> [Index -> Cell]]
        /\ Leaf(p)' = [to |-> p, flags |-> Flags]
        /\ \A q \in Page \ {p} : Leaf(q)' = Leaf(q)
    BY <2>2, MapPage
  <2> QED  BY <2>2, <2>3 DEF TInv
<1>5. CASE UNCHANGED tvars
  BY <1>5 DEF TInv, tvars, Installed, Leaf
<1> QED  BY <1>1, <1>2, <1>3, <1>4, <1>5 DEF TablesNext

\* Zeroed tables are where kernel() begins.
LEMMA TablesStart ==
  ASSUME TablesInit PROVE TInv
<1>1. Zero \in Cell /\ MEM_PAGES \in Nat
  BY TablesAssumption DEF Zero, Cell, MEM_PAGES
<1> QED  BY <1>1 DEF TablesInit, TInv

\* Startup runs kernel()'s part on the tables and leaves them alone before.
LEMMA StartupTables == Spec => TablesSpec
<1>1. Init => TablesInit
  BY DEF Init
<1>2. [Next]_vars => [TablesNext]_tvars
  BY DEF Next, vars, kernel_main
<1> QED  BY <1>1, <1>2, PTL DEF Spec, TablesSpec

\* The invariant holds in every reachable state.
LEMMA TablesInvariance == TablesSpec => []TInv
<1>1. TablesInit => TInv
  BY TablesStart
<1>2. TInv /\ [TablesNext]_tvars => TInv'
  BY TablesKept
<1> QED  BY <1>1, <1>2, PTL DEF TablesSpec

\* For every size of a table, the tables init_virtual_memory lays out map
\* each page of memory to itself with the rights it asked for, page zero
\* read-only, and no page up to the last fails the assertion of map_page;
\* load_process opens the pages of its programs and no other.
THEOREM MemoryMapped == Spec => []IdentityMapped
<1>1. TInv => IdentityMapped
  <2> SUFFICES ASSUME TInv PROVE IdentityMapped
    OBVIOUS
  <2>1. CASE vm # "run"
    BY <2>1 DEF IdentityMapped, TInv
  <2>2. CASE vm = "run"
    <3>1. 0 \in Page /\ Installed
      BY <2>2, TablesAssumption DEF Page, MEM_PAGES, TInv
    <3>2. MMU(0) = [to |-> 0, flags |-> {PTE_P}]
      <4>1. Leaf(0) = [to |-> 0, flags |-> {PTE_P}] /\ Flags \cap {PTE_P} = {PTE_P}
        BY <2>2 DEF TInv, Flags
      <4> QED  BY <3>1, <4>1, Walk
    <3>3. ASSUME NEW p \in Page \ {0}
          PROVE  \/ MMU(p) = [to |-> p, flags |-> {PTE_P, PTE_W}]
                 \/ p \in UserPages /\ MMU(p) = [to |-> p, flags |-> Flags]
      <4>1. CASE Leaf(p) = [to |-> p, flags |-> {PTE_P, PTE_W}]
        <5>1. Flags \cap {PTE_P, PTE_W} = {PTE_P, PTE_W}
          BY DEF Flags
        <5> QED  BY <3>1, <4>1, <5>1, Walk
      <4>2. CASE p \in UserPages /\ Leaf(p) = [to |-> p, flags |-> Flags]
        <5>1. Flags \cap Flags = Flags /\ PTE_P \in Flags
          BY DEF Flags
        <5> QED  BY <3>1, <4>2, <5>1, Walk
      <4> QED  BY <2>2, <4>1, <4>2 DEF TInv
    <3> QED  BY <3>2, <3>3 DEF IdentityMapped, TInv
  <2> QED  BY <2>1, <2>2
<1> QED  BY <1>1, TablesInvariance, StartupTables, PTL

\* Zeroed tables map nothing.
LEMMA Blank ==
  ASSUME tables = [t \in Table |-> [k \in Index |-> Zero]], NEW p \in Page
  PROVE  MMU(p) = Zero
<1>1. level_index(1, p) \in Index
  BY Indices, TablesAssumption DEF Index
<1>2. Entries(p)[1] = Zero
  BY <1>1 DEF Entries, Table
<1>3. PTE_P \notin Entries(p)[1].flags
  BY <1>2 DEF Zero
<1> QED  BY <1>3 DEF MMU

\* One map_page call, seen by the processor, changes one page.
LEMMA MapStep ==
  ASSUME TInv, Installed, NEW p \in Page, NEW fl \in SUBSET Flags, PTE_P \in fl,
         map_page(p, p, fl)
  PROVE  Flat!Map(p)
<1>1. /\ Installed' /\ Leaf(p)' = [to |-> p, flags |-> fl]
      /\ \A q \in Page \ {p} : Leaf(q)' = Leaf(q)
  BY MapPage DEF TInv
<1>2. Seen /\ Seen'
  <2>1. Installed' => Seen'
    BY WalkSeen, PTL
  <2> QED  BY <1>1, <2>1, WalkSeen
<1>3. MMU(p)' \in Entry
  <2>1. MMU(p)' = [to |-> p, flags |-> Flags \cap fl]
    BY <1>1, <1>2 DEF Seen
  <2> QED  BY <2>1 DEF Entry
<1>4. \A q \in Page \ {p} : MMU(q)' = MMU(q)
  BY <1>1, <1>2 DEF Seen
<1> QED  BY <1>3, <1>4 DEF Flat!Map

\* Seen through the processor, the four levels are one flat map of which each
\* step changes one page: tables never fold two addresses onto one entry.
THEOREM TablesAreFlat == Spec => PageMapRefined
<1>1. TablesInit => Flat!Init
  <2> SUFFICES ASSUME TablesInit PROVE \A p \in Page : MMU(p) = Zero
    BY DEF Flat!Init
  <2> QED  BY Blank DEF TablesInit
<1>2. TInv /\ [TablesNext]_tvars => [Flat!Next]_([p \in Page |-> MMU(p)])
  <2> SUFFICES ASSUME TInv, [TablesNext]_tvars
               PROVE  Flat!Next \/ UNCHANGED [p \in Page |-> MMU(p)]
    OBVIOUS
  <2>0. {PTE_P, PTE_W} \in SUBSET Flags /\ {PTE_P} \in SUBSET Flags
        /\ PTE_P \in Flags /\ 0 \in Page
    BY TablesAssumption DEF Flags, Page, MEM_PAGES
  <2>1. CASE install_tables
    <3>1. TInv' /\ vm' = "map" /\ vm = "zeroed" /\ mapped' = 0
      BY <2>1, TablesKept DEF install_tables, TInv
    <3>2. \A p \in Page : MMU(p) = Zero
      BY <3>1, Blank DEF TInv
    <3>3. \A p \in Page : MMU(p)' = Zero
      <4>1. Installed' => Seen'
        BY WalkSeen, PTL
      <4>2. \A p \in Page : Leaf(p)' = Zero
        BY <3>1 DEF TInv, Page
      <4> QED  BY <3>1, <4>1, <4>2 DEF Seen, TInv, Zero
    <3> QED  BY <3>2, <3>3
  <2>2. CASE map_memory
    <3>1. mapped \in Page /\ Installed /\ map_page(mapped, mapped, {PTE_P, PTE_W})
      BY <2>2, TablesAssumption DEF map_memory, TInv, Page, MEM_PAGES
    <3> QED  BY <2>0, <3>1, MapStep DEF Flat!Next
  <2>3. CASE map_page0
    <3>1. Installed /\ map_page(0, 0, {PTE_P})
      BY <2>3 DEF map_page0, TInv
    <3> QED  BY <2>0, <3>1, MapStep DEF Flat!Next
  <2>4. CASE \E p \in UserPages : load_process_page(p)
    <3>1. PICK p \in Page : Installed /\ map_page(p, p, Flags)
      BY <2>4, TablesAssumption DEF load_process_page, TInv
    <3> QED  BY <2>0, <3>1, MapStep DEF Flat!Next
  <2>5. CASE UNCHANGED tvars
    BY <2>5 DEF tvars, MMU, Entries
  <2> QED  BY <2>1, <2>2, <2>3, <2>4, <2>5 DEF TablesNext
<1> QED  BY <1>1, <1>2, TablesInvariance, StartupTables, PTL
            DEF TablesSpec, PageMapRefined, Flat!Spec

----------------------------------------------------------------------------
\* The image.

\* The bytes of an image.
Names   == {"zero", "boot", "signature"} \cup STRING
AnyByte == [file: Names, i: Int]

\* The invariant behind SectorsCounted: what is written and what diskwrite
\* still has to write make up the sectors counted and the part of the file
\* that has been read but not counted.
ImageInv ==
  /\ pc \in {"boot", "arg", "pad", "built", "usage"}
  /\ args \in Seq(Argument) /\ nsectors \in Nat /\ pos \in Nat
  /\ out \in Seq(AnyByte) /\ buf \in Seq(AnyByte)
  /\ pc = "pad" => args # <<>>
  /\ pc = "boot" => args # <<>> /\ nsectors = 0 /\ pos = 0 /\ out = <<>> /\ buf = <<>>
  /\ pc # "usage" => Len(out) + Len(buf) = nsectors * SECT + pos

\* A function on 1..n is a sequence of length n.
LEMMA FunctionSeq ==
  ASSUME NEW S, NEW n \in Nat, NEW s \in [1..n -> S]
  PROVE  s \in Seq(S) /\ Len(s) = n
OBVIOUS

\* Sequences add their lengths.
LEMMA Joined ==
  ASSUME NEW S, NEW s \in Seq(S), NEW t \in Seq(S)
  PROVE  s \o t \in Seq(S) /\ Len(s \o t) = Len(s) + Len(t)
OBVIOUS

\* The pieces diskwrite is given have the length they should have.
LEMMA ZeroPiece ==
  ASSUME NEW n \in Nat PROVE Zeros(n) \in Seq(AnyByte) /\ Len(Zeros(n)) = n
<1>1. Byte("zero", 0) \in AnyByte
  BY DEF Byte, AnyByte, Names
<1>2. Zeros(n) \in [1..n -> AnyByte]
  BY <1>1 DEF Zeros
<1> QED  BY <1>2, FunctionSeq

\* The same for a piece of a file.
LEMMA FilePiece ==
  ASSUME NEW f \in Names, NEW from \in Nat, NEW to \in Nat, NEW n \in Nat,
         to = from + n
  PROVE  Bytes(f, from, to) \in Seq(AnyByte) /\ Len(Bytes(f, from, to)) = n
<1>1. to - from = n
  OBVIOUS
<1>2. ASSUME NEW i \in 1..n PROVE [file |-> f, i |-> from + i - 1] \in AnyByte
  BY DEF AnyByte
<1>3. Bytes(f, from, to) = [i \in 1..n |-> [file |-> f, i |-> from + i - 1]]
  BY <1>1 DEF Bytes, Byte
<1>4. Bytes(f, from, to) \in [1..n -> AnyByte]
  BY <1>2, <1>3
<1> QED  BY <1>4, FunctionSeq

\* Padding fills up the last sector of a file.
LEMMA Padded ==
  ASSUME NEW n \in Nat, NEW pad,
         pad = IF n % SECT # 0 THEN SECT - (n % SECT) ELSE 0
  PROVE  /\ pad \in Nat /\ (n + pad) \div SECT \in Nat
         /\ ((n + pad) \div SECT) * SECT = n + pad
<1>1. SECT \in Nat /\ SECT > 2
  BY ImageAssumption
<1> DEFINE q == n \div SECT
           r == n % SECT
<1>2. q \in Nat /\ r \in 0..(SECT - 1) /\ n = SECT * q + r
  BY <1>1
<1> HIDE DEF q, r
<1>3. CASE r = 0
  <2>1. pad = 0 /\ n + pad = SECT * q
    BY <1>1, <1>2, <1>3 DEF r
  <2>2. (SECT * q) \div SECT = q
    BY <1>1, <1>2
  <2> QED  BY <1>1, <1>2, <2>1, <2>2
<1>4. CASE r # 0
  <2>1. pad = SECT - r /\ n + pad = SECT * (q + 1)
    BY <1>1, <1>2, <1>4 DEF r
  <2>2. (SECT * (q + 1)) \div SECT = q + 1
    BY <1>1, <1>2
  <2> QED  BY <1>1, <1>2, <2>1, <2>2
<1> QED  BY <1>3, <1>4

\* Every step of mkbootdisk keeps the count.
LEMMA ImageKept ==
  ASSUME ImageInv, [mkbootdisk]_ivars PROVE ImageInv'
<1>0. /\ SECT \in Nat /\ SECT > 2 /\ CHUNK \in Nat \ {0} /\ CHUNK * SECT \in Nat
      /\ pc \in {"boot", "arg", "pad", "built", "usage"}
      /\ args \in Seq(Argument) /\ nsectors \in Nat /\ pos \in Nat
      /\ out \in Seq(AnyByte) /\ buf \in Seq(AnyByte)
      /\ Len(out) \in Nat /\ Len(buf) \in Nat
      /\ nsectors * SECT \in Nat /\ (nsectors + 1) * SECT = nsectors * SECT + SECT
  BY ImageAssumption DEF ImageInv
<1>a. pc # "usage" => Len(out) + Len(buf) = nsectors * SECT + pos
  BY DEF ImageInv
<1>b. buf = <<>> => Len(buf) = 0
  OBVIOUS
<1>c. args # <<>> => Head(args) \in Argument /\ Tail(args) \in Seq(Argument)
  BY <1>0
<1>d. Zeros(SECT) \in Seq(AnyByte) /\ Len(Zeros(SECT)) = SECT
  BY <1>0, ZeroPiece
<1>1. CASE diskwrite
  <2>1. PICK w \in 1..Len(buf) : /\ out' = out \o SubSeq(buf, 1, w)
                                 /\ buf' = SubSeq(buf, w + 1, Len(buf))
    BY <1>1 DEF diskwrite
  <2>2. UNCHANGED <<pc, args, nsectors, pos>> /\ pc # "boot"
    BY <1>1 DEF diskwrite, ImageInv
  <2>3. /\ SubSeq(buf, 1, w) \in Seq(AnyByte) /\ Len(SubSeq(buf, 1, w)) = w
        /\ buf' \in Seq(AnyByte) /\ Len(buf') = Len(buf) - w
    BY <1>0, <2>1
  <2>4. out' \in Seq(AnyByte) /\ Len(out') = Len(out) + w
    BY <1>0, <2>1, <2>3
  <2>5. Len(out') + Len(buf') = Len(out) + Len(buf)
    BY <1>0, <2>3, <2>4
  <2> QED  BY <1>0, <1>a, <2>2, <2>3, <2>4, <2>5 DEF ImageInv
<1>2. CASE diskwrite_fails
  BY <1>0, <1>2 DEF diskwrite_fails, ImageInv
<1>3. CASE boot_sector
  <2> DEFINE n == Head(args).n
  <2>1. /\ args # <<>> /\ pos = 0 /\ out = <<>> /\ UNCHANGED <<pos, out>>
        /\ Tail(args) \in Seq(Argument) /\ n \in Nat
    BY <1>3, <1>c DEF boot_sector, At, Argument, ImageInv
  <2>2. CASE pc' = "usage" /\ UNCHANGED <<args, nsectors, buf>>
    BY <1>0, <2>1, <2>2 DEF ImageInv
  <2>3. CASE /\ n <= SECT - 2
             /\ buf' = Bytes("boot", 0, n) \o Zeros(SECT - 2 - n)
                         \o Bytes("signature", 0, 2)
             /\ nsectors' = 1 /\ args' = Tail(args) /\ pc' = "arg"
    <3> DEFINE a == Bytes("boot", 0, n)
               b == Zeros(SECT - 2 - n)
               c == Bytes("signature", 0, 2)
    <3> HIDE DEF n
    <3>0. "boot" \in Names /\ "signature" \in Names /\ 2 \in Nat /\ 0 \in Nat
      BY DEF Names
    <3>1. a \in Seq(AnyByte) /\ Len(a) = n
      <4>1. n = 0 + n
        BY <2>1
      <4> QED  BY <2>1, <3>0, <4>1, FilePiece, ZenonT(60)
    <3>2. SECT - 2 - n \in Nat
      BY <1>0, <2>1, <2>3
    <3>3. b \in Seq(AnyByte) /\ Len(b) = SECT - 2 - n
      BY <3>2, ZeroPiece
    <3>4. c \in Seq(AnyByte) /\ Len(c) = 2
      <4>1. 2 = 0 + 2
        OBVIOUS
      <4> QED  BY <3>0, <4>1, FilePiece
    <3> DEFINE ab == a \o b
    <3>5. buf' = ab \o c
      BY <2>3
    <3> HIDE DEF a, b, c
    <3>6. ab \in Seq(AnyByte) /\ Len(ab) = n + (SECT - 2 - n)
      BY <2>1, <3>1, <3>3
    <3> HIDE DEF ab
    <3>7. ab \o c \in Seq(AnyByte) /\ Len(ab \o c) = Len(ab) + Len(c)
      BY <3>4, <3>6, Joined
    <3>8. buf' \in Seq(AnyByte) /\ Len(buf') = SECT
      BY <1>0, <2>1, <3>4, <3>5, <3>6, <3>7
    <3>9. Len(out') = 0 /\ pos' = 0 /\ nsectors' * SECT = SECT
      BY <1>0, <2>1, <2>3
    <3> QED  BY <1>0, <2>1, <2>3, <3>8, <3>9 DEF ImageInv
  <2> QED  BY <1>3, <2>2, <2>3 DEF boot_sector
<1>4. CASE skip_sectors
  <2>1. /\ pc = "arg" /\ Len(buf) = 0 /\ args # <<>> /\ UNCHANGED <<pos, out>>
    BY <1>4, <1>b DEF skip_sectors, At
  <2>2. CASE pc' = "usage" /\ UNCHANGED <<args, nsectors, buf>>
    BY <1>0, <2>1, <2>2 DEF ImageInv
  <2>3. CASE /\ buf' = Zeros(SECT) /\ nsectors' = nsectors + 1
             /\ UNCHANGED <<pc, args>>
    BY <1>0, <1>a, <1>d, <2>1, <2>3 DEF ImageInv
  <2>4. CASE args' = Tail(args) /\ UNCHANGED <<pc, nsectors, buf>>
    BY <1>0, <1>a, <1>c, <2>1, <2>4 DEF ImageInv
  <2> QED  BY <1>4, <2>2, <2>3, <2>4 DEF skip_sectors
<1>5. CASE read_file
  <2> DEFINE a == Head(args)
             n == IF a.n - pos < CHUNK * SECT THEN a.n - pos ELSE CHUNK * SECT
  <2>1. /\ pc = "arg" /\ Len(buf) = 0 /\ args # <<>> /\ UNCHANGED <<args, nsectors, out>>
    BY <1>5, <1>b DEF read_file, At
  <2>2. a.name \in Names /\ a.n \in Nat
    BY <1>c, <2>1 DEF Argument, Names
  <2>3. \/ n > 0 /\ buf' = Bytes(a.name, pos, pos + n) /\ pos' = pos + n /\ UNCHANGED pc
        \/ pc' = "pad" /\ UNCHANGED <<buf, pos>>
    BY <1>5 DEF read_file
  <2> HIDE DEF a
  <2>4. n \in Int
    BY <1>0, <2>2
  <2> HIDE DEF n
  <2>5. CASE n > 0 /\ buf' = Bytes(a.name, pos, pos + n) /\ pos' = pos + n /\ UNCHANGED pc
    <3>1. n \in Nat /\ pos + n \in Nat
      BY <1>0, <2>4, <2>5
    <3>2. /\ Bytes(a.name, pos, pos + n) \in Seq(AnyByte)
          /\ Len(Bytes(a.name, pos, pos + n)) = n
      <4> DEFINE f  == a.name
                 to == pos + n
      <4>1. f \in Names /\ pos \in Nat /\ n \in Nat /\ to \in Nat /\ to = pos + n
        BY <1>0, <2>2, <3>1
      <4> HIDE DEF f, to
      <4>2. Bytes(f, pos, to) \in Seq(AnyByte) /\ Len(Bytes(f, pos, to)) = n
        BY <4>1, FilePiece
      <4> QED  BY <4>2 DEF f, to
    <3>3. buf' \in Seq(AnyByte) /\ Len(buf') = n
      BY <2>5, <3>1, <3>2
    <3> QED  BY <1>0, <1>a, <2>1, <2>4, <2>5, <3>1, <3>3, SMTT(60) DEF ImageInv
  <2>6. CASE pc' = "pad" /\ UNCHANGED <<buf, pos>>
    BY <1>0, <1>a, <2>1, <2>6 DEF ImageInv
  <2> QED  BY <2>3, <2>5, <2>6
<1>6. CASE pad_file
  <2> DEFINE pad == IF pos % SECT # 0 THEN SECT - (pos % SECT) ELSE 0
             k == (pos + pad) \div SECT
  <2>1. /\ pc = "pad" /\ Len(buf) = 0 /\ buf' = Zeros(pad) /\ nsectors' = nsectors + k
        /\ pos' = 0 /\ args' = Tail(args) /\ pc' = "arg" /\ out' = out
    BY <1>6, <1>b DEF pad_file, At
  <2>2. pad \in Nat /\ k \in Nat /\ k * SECT = pos + pad
    BY <1>0, Padded
  <2> HIDE DEF pad, k
  <2>3. (nsectors + k) * SECT = nsectors * SECT + k * SECT
    BY <1>0, <2>2
  <2>4. Zeros(pad) \in Seq(AnyByte) /\ Len(Zeros(pad)) = pad
    BY <2>2, ZeroPiece
  <2>5. args # <<>>
    BY <2>1 DEF ImageInv
  <2>6. Len(out') + Len(buf') = nsectors' * SECT + pos'
    BY <1>0, <1>a, <2>1, <2>2, <2>3, <2>4
  <2> QED  BY <1>0, <1>c, <2>1, <2>2, <2>4, <2>5, <2>6 DEF ImageInv
<1>7. CASE fill_out
  <2>1. /\ pc = "arg" /\ Len(buf) = 0 /\ UNCHANGED <<args, pos, out>>
    BY <1>7, <1>b DEF fill_out, At
  <2>2. CASE buf' = Zeros(SECT) /\ nsectors' = nsectors + 1 /\ UNCHANGED pc
    BY <1>0, <1>a, <1>d, <2>1, <2>2 DEF ImageInv
  <2>3. CASE pc' = "built" /\ UNCHANGED <<buf, nsectors>>
    BY <1>0, <1>a, <2>1, <2>3 DEF ImageInv
  <2> QED  BY <1>7, <2>2, <2>3 DEF fill_out
<1>8. CASE UNCHANGED ivars
  BY <1>8 DEF ivars, ImageInv
<1> QED  BY <1>1, <1>2, <1>3, <1>4, <1>5, <1>6, <1>7, <1>8 DEF mkbootdisk

\* mkbootdisk counts the sectors it writes, for every sector size, command
\* line and file size, and however short the writes come.
THEOREM ImageCounted == Spec => []SectorsCounted
<1>1. Init => ImageInv
  BY ImageAssumption DEF Init, ImageInit, ImageInv
<1>2. ImageInv /\ [Next]_vars => ImageInv'
  <2>1. [Next]_vars => [mkbootdisk]_ivars
    BY DEF Next, vars, Loader, boot, boot_readsect, clear_bss, bad_magic,
           load_segment, kernel_entry, kernel_main
  <2> QED  BY <2>1, ImageKept
<1>3. ImageInv => SectorsCounted
  BY ImageAssumption DEF ImageInv, SectorsCounted, At
<1> QED  BY <1>1, <1>2, <1>3, PTL DEF Spec

----------------------------------------------------------------------------
\* The kernel in the image.

\* The image with what diskwrite has still to write.
Total    == Len(out) + Len(buf)
Piece(i) == IF i <= Len(out) THEN out[i] ELSE buf[i - Len(out)]

IsKernel(a) == a.kind = "file" /\ a.name = "kernel"
Enough(n)   == \A k \in Kernels : Holds(n, k)
InFile(n)   == \A j \in 0..(n - 1) : Piece(SECT + 1 + j) = Byte("kernel", j)

\* All of the kernel's file, from sector 1 on.
Complete == \E n \in 0..(Total - SECT) : Enough(n) /\ InFile(n)

\* As much of it as has been read.
Underway ==
  /\ pc \in {"arg", "pad"} /\ nsectors = 1 /\ args # <<>> /\ IsKernel(Head(args))
  /\ pos <= Head(args).n /\ InFile(pos)
  /\ pc = "pad" => pos = Head(args).n

\* Where the magic number is, the kernel is.
PlacedInv ==
  /\ \A i \in DOMAIN args : IsKernel(args[i]) => Enough(args[i].n)
  /\ pc \notin {"boot", "usage"} => nsectors >= 1
  /\ pc = "built" => buf = <<>> /\ nsectors >= FILL
  /\ pc # "usage" /\ Total > SECT /\ Piece(SECT + 1) = Byte("kernel", 0)
       => Complete \/ Underway

\* What the loader reads: the page with the headers, then the segments.
Seg(i) == IF i = 0 THEN HeaderPage ELSE kernel[i]

\* The byte of the image that belongs at address a of s.
Origin(s, a) == out[SECT + 1 + s.off + (a - s.va)]

Loaded(s) ==
  \A a \in s.va..(End(s) - 1) :
    mem[a] = IF a < s.va + s.filesz THEN Origin(s, a) ELSE Byte("zero", 0)

\* A segment on its way into memory.
Reading(s) ==
  /\ ptr \in Nat /\ src_sect \in Nat /\ Low(s) <= ptr
  /\ end_ptr = s.va + s.filesz /\ mem_end = s.va + s.memsz
  /\ src_sect * SECT + s.va = ptr + SECT + s.off
  /\ \A a \in s.va..(s.va + s.filesz - 1) : a < ptr => mem[a] = Origin(s, a)

\* The invariant behind KernelLoaded and HeadersKept: what has been read
\* stays in memory, the page with the headers too.
LoaderInv ==
  /\ kernel \in Kernels /\ ph \in 0..Len(kernel)
  /\ lpc \in {"off", "read", "next", "spin", "kernel"}
  /\ lpc = "off" => ph = 0
  /\ lpc # "off" => pc = "built"
  /\ ph > 0 \/ lpc = "kernel" => out[SECT + 1] = Byte("kernel", 0)
  /\ lpc = "kernel" => ph = Len(kernel)
  /\ lpc = "read" => Reading(Seg(ph))
  /\ \A i \in 0..(ph - 1) : Loaded(Seg(i))
  /\ lpc \in {"next", "spin", "kernel"} => Loaded(Seg(ph))

\* The elements of two sequences joined.
LEMMA JoinedElements ==
  ASSUME NEW S, NEW s \in Seq(S), NEW t \in Seq(S)
  PROVE  /\ Len(s \o t) = Len(s) + Len(t)
         /\ \A i \in 1..Len(s) : (s \o t)[i] = s[i]
         /\ \A i \in 1..Len(t) : (s \o t)[Len(s) + i] = t[i]
OBVIOUS

\* A write moves bytes from the buffer to the image.
LEMMA WriteMoves ==
  ASSUME ImageInv, diskwrite
  PROVE  Total' = Total /\ \A i \in 1..Total : Piece(i)' = Piece(i)
<1>0. out \in Seq(AnyByte) /\ buf \in Seq(AnyByte) /\ Len(out) \in Nat /\ Len(buf) \in Nat
  BY DEF ImageInv
<1>1. PICK w \in 1..Len(buf) : /\ out' = out \o SubSeq(buf, 1, w)
                               /\ buf' = SubSeq(buf, w + 1, Len(buf))
  BY DEF diskwrite
<1> DEFINE a == SubSeq(buf, 1, w)
           b == SubSeq(buf, w + 1, Len(buf))
<1>2. /\ a \in Seq(AnyByte) /\ Len(a) = w /\ \A i \in 1..w : a[i] = buf[i]
      /\ b \in Seq(AnyByte) /\ Len(b) = Len(buf) - w
      /\ \A i \in 1..(Len(buf) - w) : b[i] = buf[w + i]
  BY <1>0
<1>3. out' = out \o a /\ buf' = b
  BY <1>1
<1> HIDE DEF a, b
<1>4. /\ Len(out') = Len(out) + w
      /\ \A i \in 1..Len(out) : out'[i] = out[i]
      /\ \A i \in 1..w : out'[Len(out) + i] = a[i]
  <2>1. /\ Len(out \o a) = Len(out) + Len(a)
        /\ \A i \in 1..Len(out) : (out \o a)[i] = out[i]
        /\ \A i \in 1..Len(a) : (out \o a)[Len(out) + i] = a[i]
    <3>1. out \in Seq(AnyByte) /\ a \in Seq(AnyByte)
      BY <1>0, <1>2
    <3> QED  BY ONLY <3>1, JoinedElements
  <2> QED  BY ONLY <1>2, <1>3, <2>1
<1>5. Total' = Total
  <2>1. Len(buf') = Len(buf) - w
    BY <1>2, <1>3
  <2> QED  BY <1>0, <1>4, <2>1 DEF Total
<1>6. ASSUME NEW i \in 1..Total PROVE Piece(i)' = Piece(i)
  <2>1. CASE i <= Len(out)
    BY <1>0, <1>4, <2>1 DEF Piece
  <2>2. CASE i > Len(out) /\ i <= Len(out) + w
    <3>1. i - Len(out) \in 1..w /\ Len(out) + (i - Len(out)) = i
      BY <1>0, <2>2
    <3>2. out'[i] = buf[i - Len(out)]
      BY <1>2, <1>4, <3>1
    <3> QED  BY <1>0, <1>4, <2>2, <3>2 DEF Piece
  <2>3. CASE i > Len(out) + w
    <3>1. i - (Len(out) + w) \in 1..(Len(buf) - w) /\ w + (i - (Len(out) + w)) = i - Len(out)
      BY <1>0, <2>3 DEF Total
    <3>2. buf'[i - Len(out')] = buf[i - Len(out)]
      BY <1>2, <1>3, <1>4, <3>1, ZenonT(60)
    <3> QED  BY <1>0, <1>4, <2>3, <3>2 DEF Piece
  <2> QED  BY <1>0, <2>1, <2>2, <2>3
<1> QED  BY <1>5, <1>6

\* A new buffer comes behind all that is there.
LEMMA BufferBehind ==
  ASSUME ImageInv, buf = <<>>, out' = out, NEW b \in Seq(AnyByte), buf' = b
  PROVE  /\ Total = Len(out) /\ Total' = Total + Len(b)
         /\ \A i \in 1..Total : Piece(i)' = Piece(i)
         /\ \A i \in (Total + 1)..(Total + Len(b)) : Piece(i)' = b[i - Total]
<1>1. Len(out) \in Nat /\ Len(buf) = 0 /\ Len(b) \in Nat
  BY DEF ImageInv
<1>2. Total = Len(out) /\ Total' = Total + Len(b)
  BY <1>1 DEF Total
<1>3. \A i \in 1..Total : Piece(i)' = Piece(i)
  BY <1>1, <1>2 DEF Piece
<1>4. \A i \in (Total + 1)..(Total + Len(b)) : Piece(i)' = b[i - Total]
  BY <1>1, <1>2 DEF Piece
<1> QED  BY <1>2, <1>3, <1>4

\* What is in the image stays there.
LEMMA FileKept ==
  ASSUME NEW n \in Nat, SECT \in Nat, Total \in Nat, SECT + n <= Total, InFile(n),
         \A i \in 1..Total : Piece(i)' = Piece(i)
  PROVE  InFile(n)'
<1> SUFFICES ASSUME NEW j \in 0..(n - 1) PROVE Piece(SECT + 1 + j)' = Byte("kernel", j)
  BY DEF InFile
<1>1. SECT + 1 + j \in 1..Total
  OBVIOUS
<1> QED  BY <1>1 DEF InFile

\* mkbootdisk keeps the kernel where its magic number is.
LEMMA PlacedKept ==
  ASSUME ImageInv, ImageInv', PlacedInv, [mkbootdisk]_ivars PROVE PlacedInv'
<1>0. /\ SECT \in Nat /\ SECT > 2 /\ CHUNK \in Nat \ {0} /\ CHUNK * SECT \in Nat \ {0}
      /\ FILL \in Nat /\ args \in Seq(Argument) /\ nsectors \in Nat /\ pos \in Nat
      /\ out \in Seq(AnyByte) /\ buf \in Seq(AnyByte)
      /\ Total \in Nat /\ Total' \in Nat /\ buf' \in Seq(AnyByte)
  BY ImageAssumption DEF ImageInv, Total
<1>a. /\ pc # "usage" => Total = nsectors * SECT + pos
      /\ pc' # "usage" => Total' = nsectors' * SECT + pos'
  BY DEF ImageInv, Total
<1>b. args # <<>> => /\ Head(args) \in Argument
                     /\ IsKernel(Head(args)) => Enough(Head(args).n)
                     /\ \A i \in DOMAIN Tail(args) : IsKernel(Tail(args)[i]) => Enough(Tail(args)[i].n)
  <2> SUFFICES ASSUME args # <<>>
               PROVE  /\ Head(args) \in Argument
                      /\ IsKernel(Head(args)) => Enough(Head(args).n)
                      /\ \A i \in DOMAIN Tail(args) : IsKernel(Tail(args)[i]) => Enough(Tail(args)[i].n)
    OBVIOUS
  <2>1. Head(args) = args[1] /\ 1 \in DOMAIN args /\ args[1] \in Argument
    BY <1>0
  <2>2. \A i \in DOMAIN Tail(args) : i + 1 \in DOMAIN args /\ Tail(args)[i] = args[i + 1]
    BY <1>0
  <2> QED  BY <2>1, <2>2 DEF PlacedInv
\* Complete stays, as long as nothing is lost.
<1>c. ASSUME Complete, Total <= Total', \A i \in 1..Total : Piece(i)' = Piece(i)
      PROVE  Complete'
  <2>1. PICK n \in 0..(Total - SECT) : Enough(n) /\ InFile(n)
    BY <1>c DEF Complete
  <2>2. InFile(n)'
    BY <1>0, <1>c, <2>1, FileKept
  <2>3. n \in 0..(Total' - SECT)
    <3>1. SECT \in Nat /\ Total \in Nat /\ Total' \in Nat /\ Total <= Total'
      BY <1>0, <1>c
    <3>2. n \in Nat /\ n <= Total - SECT
      BY <3>1
    <3>3. \A m \in Nat : Total <= m => n \in 0..(m - SECT)
      BY <3>1, <3>2
    <3> QED  BY <3>1, <3>3, Zenon
  <2> QED  BY <2>1, <2>2, <2>3 DEF Complete
<1>d. Byte("zero", 0) # Byte("kernel", 0)
  BY DEF Byte
<1>e. ASSUME NEW i \in 1..SECT PROVE Zeros(SECT)[i] = Byte("zero", 0)
  BY <1>e, <1>0 DEF Zeros
<1>1. CASE diskwrite
  <2>1. Total' = Total /\ \A i \in 1..Total : Piece(i)' = Piece(i)
    BY <1>1, WriteMoves
  <2>2. UNCHANGED <<pc, args, nsectors, pos>> /\ buf # <<>>
    BY <1>1 DEF diskwrite
  <2>3. pc # "built"
    BY <2>2 DEF PlacedInv
  <2>4. ASSUME pc' # "usage", Total' > SECT, Piece(SECT + 1)' = Byte("kernel", 0)
        PROVE  Complete' \/ Underway'
    <3>1. Complete \/ Underway
      BY <1>0, <2>1, <2>2, <2>4 DEF PlacedInv
    <3>2. ASSUME Underway PROVE Underway'
      <4>1. nsectors = 1 /\ pc # "usage" /\ InFile(pos) /\ SECT + pos <= Total
        BY <1>0, <1>a, <3>2 DEF Underway
      <4>2. \A n \in Nat : n = pos => InFile(n)'
        BY <1>0, <2>1, <4>1, FileKept
      <4>3. InFile(pos)'
        BY <1>0, <2>2, <4>2 DEF InFile
      <4> QED  BY <2>2, <3>2, <4>3 DEF Underway, IsKernel
    <3> QED  BY <1>0, <1>c, <2>1, <3>1, <3>2
  <2> QED  BY <2>2, <2>3, <2>4 DEF PlacedInv, IsKernel, Enough
<1>2. CASE diskwrite_fails
  BY <1>2 DEF diskwrite_fails, PlacedInv, IsKernel, Enough
<1>f. ASSUME pc \notin {"boot", "usage"} PROVE Total >= SECT /\ (Total = SECT => nsectors = 1 /\ pos = 0)
  <2>1. nsectors \in Nat /\ nsectors >= 1 /\ Total = nsectors * SECT + pos
    BY <1>0, <1>a, <1>f DEF PlacedInv
  <2>2. nsectors * SECT = SECT + (nsectors - 1) * SECT /\ (nsectors - 1) * SECT \in Nat
    BY <1>0, <2>1
  <2>3. nsectors # 1 => (nsectors - 1) * SECT >= SECT
    <3>1. ASSUME NEW m \in Nat, m >= 1 PROVE m * SECT >= SECT
      <4>1. m * SECT = SECT + (m - 1) * SECT /\ (m - 1) * SECT \in Nat
        BY <1>0, <3>1
      <4> QED  BY <1>0, <4>1
    <3>2. nsectors # 1 => nsectors - 1 \in Nat /\ nsectors - 1 >= 1
      BY <2>1
    <3> QED  BY <3>1, <3>2
  <2> DEFINE x == (nsectors - 1) * SECT
  <2>4. /\ Total = SECT + x + pos /\ x \in Nat /\ (nsectors # 1 => x >= SECT)
    BY <2>1, <2>2, <2>3
  <2> HIDE DEF x
  <2> QED  BY <1>0, <2>4
\* Zeros do not look like a kernel.
<1>g. ASSUME buf = <<>>, out' = out, NEW n \in Nat, buf' = Zeros(n), ~Underway,
             pc \notin {"boot", "usage"}, Total' > SECT, Piece(SECT + 1)' = Byte("kernel", 0)
      PROVE  Complete'
  <2> DEFINE b == Zeros(n)
  <2>0. b \in Seq(AnyByte) /\ Len(b) = n /\ \A i \in 1..n : b[i] = Byte("zero", 0)
    BY ZeroPiece DEF Zeros
  <2>1. buf' = b
    BY <1>g
  <2> HIDE DEF b
  <2>2. /\ Total' = Total + Len(b) /\ \A i \in 1..Total : Piece(i)' = Piece(i)
        /\ \A i \in (Total + 1)..(Total + Len(b)) : Piece(i)' = b[i - Total]
    BY <1>g, <2>0, <2>1, BufferBehind
  <2>3. Total >= SECT /\ Total <= Total'
    BY <1>0, <1>f, <1>g, <2>0, <2>2
  <2>4. Total # SECT
    <3> SUFFICES ASSUME Total = SECT PROVE FALSE
      OBVIOUS
    <3>1. SECT + 1 \in (Total + 1)..(Total + Len(b)) /\ (SECT + 1) - Total = 1 /\ 1 \in 1..n
      BY <1>0, <1>g, <2>0, <2>2
    <3>2. Piece(SECT + 1)' = b[(SECT + 1) - Total]
      BY <2>2, <3>1, Zenon
    <3>3. b[(SECT + 1) - Total] = Byte("zero", 0)
      BY <2>0, <3>1
    <3> QED  BY <1>d, <1>g, <3>2, <3>3
  <2>5. SECT + 1 \in 1..Total /\ Total > SECT
    BY <1>0, <2>3, <2>4
  <2>6. Complete
    BY <1>g, <2>2, <2>5 DEF PlacedInv
  <2> QED  BY <1>c, <2>2, <2>3, <2>6
<1>3. CASE boot_sector
  <2>1. pc = "boot" /\ buf = <<>> /\ args # <<>> /\ pos = 0 /\ pos' = 0
    BY <1>3 DEF boot_sector, At, ImageInv
  <2>2. CASE pc' = "usage" /\ UNCHANGED args
    BY <2>2 DEF PlacedInv, IsKernel, Enough
  <2>3. CASE nsectors' = 1 /\ args' = Tail(args) /\ pc' = "arg"
    <3>1. Total' = SECT
      BY <1>0, <1>a, <2>1, <2>3
    <3>2. ~(Total' > SECT)
      BY <1>0, <3>1
    <3> QED  BY <1>b, <2>1, <2>3, <3>2 DEF PlacedInv, IsKernel, Enough
  <2> QED  BY <1>3, <2>2, <2>3 DEF boot_sector
<1>4. CASE skip_sectors
  <2>1. /\ pc = "arg" /\ buf = <<>> /\ args # <<>> /\ Head(args).kind = "skip" /\ out' = out
        /\ nsectors >= 1 /\ ~Underway
    BY <1>4 DEF skip_sectors, At, PlacedInv, Underway, IsKernel
  <2>2. CASE pc' = "usage" /\ UNCHANGED args
    BY <2>2 DEF PlacedInv, IsKernel, Enough
  <2>3. CASE /\ buf' = Zeros(SECT) /\ nsectors' = nsectors + 1 /\ UNCHANGED <<pc, args>>
    <3>1. Total' > SECT /\ Piece(SECT + 1)' = Byte("kernel", 0) => Complete'
      BY <1>0, <1>g, <2>1, <2>3
    <3>2. nsectors' >= 1
      BY <1>0, <2>3
    <3> QED  BY <2>1, <2>3, <3>1, <3>2 DEF PlacedInv, IsKernel, Enough
  <2>4. CASE args' = Tail(args) /\ UNCHANGED <<pc, nsectors, buf>>
    <3>1. buf' = Zeros(0) /\ 0 \in Nat
      BY <2>1, <2>4 DEF Zeros
    <3>2. Total' > SECT /\ Piece(SECT + 1)' = Byte("kernel", 0) => Complete'
      BY <1>g, <2>1, <3>1
    <3> QED  BY <1>b, <2>1, <2>4, <3>2 DEF PlacedInv, IsKernel, Enough
  <2> QED  BY <1>4, <2>2, <2>3, <2>4 DEF skip_sectors
<1>7. CASE fill_out
  <2>1. /\ pc = "arg" /\ buf = <<>> /\ args = <<>> /\ out' = out /\ UNCHANGED args
        /\ nsectors >= 1 /\ ~Underway
    BY <1>7 DEF fill_out, At, PlacedInv, Underway
  <2>2. CASE buf' = Zeros(SECT) /\ nsectors' = nsectors + 1 /\ UNCHANGED pc
    <3>1. Total' > SECT /\ Piece(SECT + 1)' = Byte("kernel", 0) => Complete'
      BY <1>0, <1>g, <2>1, <2>2
    <3>2. nsectors' >= 1
      BY <1>0, <2>2
    <3> QED  BY <2>1, <2>2, <3>1, <3>2 DEF PlacedInv, IsKernel, Enough
  <2>3. CASE nsectors >= FILL /\ pc' = "built" /\ UNCHANGED <<buf, nsectors>>
    <3>1. buf' = Zeros(0) /\ 0 \in Nat
      BY <2>1, <2>3 DEF Zeros
    <3>2. Total' > SECT /\ Piece(SECT + 1)' = Byte("kernel", 0) => Complete'
      BY <1>g, <2>1, <3>1
    <3> QED  BY <2>1, <2>3, <3>2 DEF PlacedInv, IsKernel, Enough
  <2> QED  BY <1>7, <2>2, <2>3 DEF fill_out
<1>8. CASE UNCHANGED ivars
  BY <1>8 DEF ivars, PlacedInv, IsKernel, Enough, Total, Piece, Complete, Underway, InFile
<1>5. CASE read_file
  <2> DEFINE a == Head(args)
             n == IF a.n - pos < CHUNK * SECT THEN a.n - pos ELSE CHUNK * SECT
  <2>1. /\ pc = "arg" /\ buf = <<>> /\ args # <<>> /\ UNCHANGED <<args, nsectors, out>>
        /\ a.kind = "file" /\ nsectors >= 1
        /\ \/ n > 0 /\ buf' = Bytes(a.name, pos, pos + n) /\ pos' = pos + n /\ UNCHANGED pc
           \/ n = 0 /\ pc' = "pad" /\ UNCHANGED <<buf, pos>>
    BY <1>5 DEF read_file, At, PlacedInv
  <2>2. a.name \in Names /\ a.n \in Nat /\ (IsKernel(a) <=> a.name = "kernel")
    BY <1>b, <2>1 DEF Argument, Names, IsKernel
  <2> HIDE DEF a
  <2>3. n \in Int /\ n <= a.n - pos /\ (n = 0 => pos = a.n)
    BY <1>0, <2>2
  <2> HIDE DEF n
  <2>4. CASE n > 0 /\ buf' = Bytes(a.name, pos, pos + n) /\ pos' = pos + n /\ UNCHANGED pc
    <3> DEFINE b == Bytes(a.name, pos, pos + n)
    <3>1. n \in Nat /\ pos + n \in Nat /\ (pos + n) - pos = n
      BY <1>0, <2>3, <2>4
    <3>2. b \in Seq(AnyByte) /\ Len(b) = n
      <4> DEFINE f  == a.name
                 to == pos + n
      <4>1. f \in Names /\ pos \in Nat /\ n \in Nat /\ to \in Nat /\ to = pos + n
        BY <1>0, <2>2, <3>1
      <4> HIDE DEF f, to
      <4>2. Bytes(f, pos, to) \in Seq(AnyByte) /\ Len(Bytes(f, pos, to)) = n
        BY <4>1, FilePiece
      <4> QED  BY <4>2 DEF f, to
    <3>3. \A i \in 1..n : b[i] = Byte(a.name, pos + i - 1)
      BY <3>1 DEF Bytes
    <3>4. buf' = b
      BY <2>4
    <3> HIDE DEF b
    <3>5. /\ Total' = Total + n /\ \A i \in 1..Total : Piece(i)' = Piece(i)
          /\ \A i \in (Total + 1)..(Total + n) : Piece(i)' = b[i - Total]
      BY <2>1, <3>2, <3>4, BufferBehind
    <3>6. Total >= SECT /\ (Total = SECT => nsectors = 1 /\ pos = 0) /\ Total <= Total'
      BY <1>0, <1>f, <2>1, <3>1, <3>5
    <3>7. ASSUME nsectors = 1, pos <= a.n, InFile(pos), a.name = "kernel" PROVE Underway'
      <4>1. Total = SECT + pos
        BY <1>0, <1>a, <2>1, <3>7
      <4>2. ASSUME NEW j \in 0..(pos + n - 1) PROVE Piece(SECT + 1 + j)' = Byte("kernel", j)
        <5>1. CASE j < pos
          <6>1. SECT + 1 + j \in 1..Total /\ j \in 0..(pos - 1)
            BY <1>0, <3>1, <4>1, <5>1
          <6>2. Piece(SECT + 1 + j)' = Piece(SECT + 1 + j)
            BY <3>5, <6>1, Zenon
          <6> QED  BY <3>7, <6>1, <6>2 DEF InFile
        <5>2. CASE j >= pos
          <6>1. /\ SECT + 1 + j \in (Total + 1)..(Total + n)
                /\ (SECT + 1 + j) - Total \in 1..n
                /\ pos + ((SECT + 1 + j) - Total) - 1 = j
            BY <1>0, <3>1, <4>1, <5>2
          <6>2. Piece(SECT + 1 + j)' = b[(SECT + 1 + j) - Total]
            BY <3>5, <6>1, Zenon
          <6>3. b[(SECT + 1 + j) - Total] = Byte(a.name, pos + ((SECT + 1 + j) - Total) - 1)
            BY <3>3, <6>1, Zenon
          <6> QED  BY <3>7, <6>1, <6>2, <6>3
        <5> QED  BY <1>0, <3>1, <5>1, <5>2
      <4>3. \A j \in 0..(pos' - 1) : Piece(SECT + 1 + j)' = Byte("kernel", j)
        <5>1. pos' - 1 = pos + n - 1
          BY <1>0, <2>4, <3>1
        <5> QED  BY <4>2, <5>1
      <4>4. InFile(pos)'
        BY <4>3, Zenon DEF InFile
      <4>5. Head(args') = a /\ pos' <= a.n
        BY <1>0, <2>1, <2>2, <2>3, <2>4 DEF a
      <4> QED  BY <2>1, <2>2, <2>4, <3>7, <4>4, <4>5 DEF Underway, IsKernel
    <3>8. ASSUME Piece(SECT + 1)' = Byte("kernel", 0) PROVE Complete' \/ Underway'
      <4>1. CASE Total = SECT
        <5>1. SECT + 1 \in (Total + 1)..(Total + n) /\ (SECT + 1) - Total = 1 /\ 1 \in 1..n
              /\ pos + 1 - 1 = 0
          BY <1>0, <2>4, <3>1, <3>6, <4>1
        <5>2. Piece(SECT + 1)' = b[(SECT + 1) - Total]
          BY <3>5, <5>1, Zenon
        <5>3. b[1] = Byte(a.name, 0)
          BY <3>3, <5>1
        <5>4. a.name = "kernel"
          BY <3>8, <5>1, <5>2, <5>3 DEF Byte
        <5>5. InFile(pos) /\ pos <= a.n /\ nsectors = 1
          BY <1>0, <2>2, <3>6, <4>1 DEF InFile
        <5> QED  BY <3>7, <5>4, <5>5
      <4>2. CASE Total > SECT
        <5>1. SECT + 1 \in 1..Total
          BY <1>0, <4>2
        <5>2. Piece(SECT + 1)' = Piece(SECT + 1)
          BY <3>5, <5>1, Zenon
        <5>3. Complete \/ Underway
          BY <2>1, <3>8, <4>2, <5>2 DEF PlacedInv
        <5>4. Underway => Underway'
          BY <2>2, <3>7 DEF Underway, a
        <5> QED  BY <1>c, <3>5, <3>6, <5>3, <5>4
      <4> QED  BY <1>0, <3>6, <4>1, <4>2
    <3> QED  BY <2>1, <2>4, <3>8 DEF PlacedInv, IsKernel, Enough
  <2>5. CASE n = 0 /\ pc' = "pad" /\ UNCHANGED <<buf, pos>>
    <3>1. Total' = Total /\ \A i \in 1..Total : Piece(i)' = Piece(i)
      BY <2>1, <2>5 DEF Total, Piece
    <3>2. ASSUME Underway PROVE Underway'
      <4>1. InFile(pos)'
        BY <2>1, <2>5, <3>2 DEF Underway, InFile, Piece
      <4>2. Head(args') = a /\ pos' = a.n
        BY <2>1, <2>3, <2>5 DEF a
      <4> QED  BY <1>0, <2>1, <2>5, <3>2, <4>1, <4>2 DEF Underway, IsKernel
    <3>3. Total' > SECT /\ Piece(SECT + 1)' = Byte("kernel", 0) => Complete \/ Underway
      BY <2>1, <2>5 DEF PlacedInv, Total, Piece
    <3>4. Total' > SECT /\ Piece(SECT + 1)' = Byte("kernel", 0) => Complete' \/ Underway'
      BY <1>0, <1>c, <3>1, <3>2, <3>3
    <3> QED  BY <2>1, <2>5, <3>4 DEF PlacedInv, IsKernel, Enough
  <2> QED  BY <2>1, <2>4, <2>5
<1>6. CASE pad_file
  <2> DEFINE pad == IF pos % SECT # 0 THEN SECT - (pos % SECT) ELSE 0
             k == (pos + pad) \div SECT
  <2>1. /\ pc = "pad" /\ buf = <<>> /\ buf' = Zeros(pad) /\ nsectors' = nsectors + k
        /\ args' = Tail(args) /\ pc' = "arg" /\ out' = out /\ nsectors >= 1
    BY <1>6 DEF pad_file, At, PlacedInv
  <2>2. pad \in Nat /\ k \in Nat
    BY <1>0, Padded
  <2> HIDE DEF pad, k
  <2>3. args # <<>> /\ nsectors' >= 1
    BY <1>0, <2>1, <2>2 DEF ImageInv
  <2>4. ASSUME Underway PROVE Complete'
    <3>1. /\ nsectors = 1 /\ InFile(pos) /\ pos = Head(args).n /\ IsKernel(Head(args))
      BY <2>1, <2>4 DEF Underway
    <3>2. Enough(pos) /\ Total = SECT + pos
      BY <1>0, <1>a, <1>b, <2>1, <2>3, <3>1
    <3>3. Complete
      <4>1. pos \in 0..(Total - SECT)
        BY <1>0, <3>2
      <4> QED  BY <3>1, <3>2, <4>1 DEF Complete
    <3> DEFINE b == Zeros(pad)
    <3>4. b \in Seq(AnyByte) /\ Len(b) = pad /\ buf' = b
      BY <2>1, <2>2, ZeroPiece
    <3> HIDE DEF b
    <3>5. Total' = Total + pad /\ \A i \in 1..Total : Piece(i)' = Piece(i)
      BY <2>1, <3>4, BufferBehind
    <3>6. Total <= Total'
      BY <1>0, <2>2, <3>5
    <3> QED  BY <1>c, <3>3, <3>5, <3>6
  <2>5. Total' > SECT /\ Piece(SECT + 1)' = Byte("kernel", 0) => Complete'
    BY <1>g, <2>1, <2>2, <2>4
  <2> QED  BY <1>b, <2>1, <2>3, <2>5 DEF PlacedInv, IsKernel, Enough
<1> QED  BY <1>1, <1>2, <1>3, <1>4, <1>5, <1>6, <1>7, <1>8 DEF mkbootdisk

----------------------------------------------------------------------------
\* The loader.

\* What is known of a segment, and of those before it.
LEMMA SegFacts ==
  ASSUME kernel \in Kernels, NEW i \in 0..Len(kernel)
  PROVE  /\ Seg(i) \in Segment /\ Seg(i).filesz <= Seg(i).memsz /\ End(Seg(i)) <= MEMORY
         /\ Seg(i).va % SECT = Seg(i).off % SECT
         /\ \A j \in 0..(i - 1) : Behind(Seg(i), Seg(j))
<1>0. /\ SECT \in Nat /\ SECT > 2 /\ ELFHDR \in Nat /\ PAGESIZE \in Nat
      /\ ELFHDR % SECT = 0 /\ End(HeaderPage) <= MEMORY /\ Linked(kernel)
  BY ImageAssumption, LinkAssumption
<1>1. CASE i = 0
  <2>1. /\ HeaderPage \in Segment /\ HeaderPage.filesz <= HeaderPage.memsz
        /\ HeaderPage.va % SECT = HeaderPage.off % SECT
    BY <1>0 DEF HeaderPage, Segment
  <2>2. Seg(i) = HeaderPage /\ 0..(i - 1) = {}
    BY <1>1 DEF Seg
  <2> QED  BY <1>0, <2>1, <2>2
<1>2. CASE i # 0
  <2>1. kernel \in Seq(Segment) /\ Len(kernel) \in Nat /\ i \in DOMAIN kernel /\ Seg(i) = kernel[i]
    BY <1>0, <1>2 DEF Linked, Seg
  <2>2. /\ kernel[i] \in Segment /\ kernel[i].filesz <= kernel[i].memsz
        /\ End(kernel[i]) <= MEMORY /\ kernel[i].va % SECT = kernel[i].off % SECT
        /\ End(HeaderPage) <= Low(kernel[i])
        /\ \A j \in 1..(i - 1) : Behind(kernel[i], kernel[j])
    BY <1>0, <2>1 DEF Linked
  <2>3. ASSUME NEW j \in 0..(i - 1) PROVE Behind(Seg(i), Seg(j))
    <3>1. CASE j = 0
      <4>1. Seg(j) = HeaderPage
        BY <3>1 DEF Seg
      <4> QED  BY <2>1, <2>2, <4>1 DEF Behind
    <3>2. CASE j # 0
      <4>1. j \in 1..(i - 1) /\ Seg(j) = kernel[j]
        BY <3>2 DEF Seg
      <4> QED  BY <2>1, <2>2, <4>1
    <3> QED  BY <3>1, <3>2
  <2> QED  BY <2>1, <2>2, <2>3
<1> QED  BY <1>1, <1>2

\* Rounding an address down.
LEMMA Rounded ==
  ASSUME NEW s \in Segment
  PROVE  /\ s.va \in Nat /\ s.off \in Nat /\ s.filesz \in Nat /\ s.memsz \in Nat
         /\ Low(s) \in Nat /\ Low(s) <= s.va /\ End(s) = s.va + s.memsz
         /\ s.va = Low(s) + (s.va % SECT) /\ s.off = (s.off \div SECT) * SECT + (s.off % SECT)
         /\ s.off \div SECT \in Nat
<1>0. SECT \in Nat /\ SECT > 0 /\ s.va \in Nat /\ s.off \in Nat /\ s.filesz \in Nat /\ s.memsz \in Nat
  BY ImageAssumption DEF Segment
<1> DEFINE v == s.va
           f == s.off
<1>1. v \in Nat /\ f \in Nat
  BY <1>0
<1> HIDE DEF v, f
<1>2. /\ v % SECT \in Nat /\ v % SECT <= v /\ f \div SECT \in Nat /\ f % SECT \in Nat
      /\ f = SECT * (f \div SECT) + (f % SECT)
  <2>1. v = SECT * (v \div SECT) + (v % SECT) /\ v \div SECT \in Nat /\ v % SECT \in Nat
    BY <1>0, <1>1
  <2>2. SECT * (v \div SECT) \in Nat
    BY <1>0, <2>1
  <2> QED  BY <1>0, <1>1, <2>1, <2>2
<1>3. f = (f \div SECT) * SECT + (f % SECT)
  BY <1>0, <1>2
<1>4. Low(s) = v - (v % SECT) /\ End(s) = v + s.memsz
  BY DEF Low, End, v
<1>5. Low(s) \in Nat /\ Low(s) <= v /\ v = Low(s) + (v % SECT)
  BY <1>1, <1>2, <1>4
<1> QED  BY <1>0, <1>2, <1>3, <1>4, <1>5 DEF v, f

\* Where boot_readseg begins.
LEMMA ReadsegBegins ==
  ASSUME NEW s \in Segment, s.va % SECT = s.off % SECT,
         boot_readseg(s.va, src_sector(s.off), s.filesz, s.memsz)
  PROVE  Reading(s)'
<1>0. SECT \in Nat /\ SECT > 0
  BY ImageAssumption
<1>1. /\ s.va \in Nat /\ s.off \in Nat /\ s.filesz \in Nat /\ s.memsz \in Nat
      /\ Low(s) \in Nat /\ Low(s) <= s.va
      /\ s.va = Low(s) + (s.va % SECT) /\ s.off = (s.off \div SECT) * SECT + (s.off % SECT)
      /\ s.off \div SECT \in Nat /\ s.off % SECT \in Nat
  BY <1>0, Rounded
<1>2. /\ ptr' = Low(s) /\ src_sect' = (s.off \div SECT) + 1
      /\ end_ptr' = s.va + s.filesz /\ mem_end' = s.va + s.memsz
  BY DEF boot_readseg, src_sector, Low
<1>3. src_sect' * SECT = (s.off \div SECT) * SECT + SECT /\ (s.off \div SECT) * SECT \in Nat
  <2>1. \A q \in Nat : (q + 1) * SECT = q * SECT + SECT /\ q * SECT \in Nat
    BY <1>0
  <2> QED  BY <1>1, <1>2, <2>1, Zenon
<1>4. src_sect' * SECT + s.va = ptr' + SECT + s.off
  <2>0. Low(s) + (s.va % SECT) = Low(s) + (s.off % SECT)
    OBVIOUS
  <2>a. s.va = Low(s) + (s.off % SECT)
    BY <1>1, <2>0, Zenon
  <2> DEFINE x == (s.off \div SECT) * SECT
             y == src_sect' * SECT
             r == s.off % SECT
             v == s.va
  <2>1. x \in Nat /\ y = x + SECT /\ r \in Nat
    BY <1>1, <1>3, Zenon
  <2>b. s.off = x + r
    BY <1>1, Zenon
  <2>c. v = Low(s) + r
    BY <2>a, Zenon
  <2> HIDE DEF x, y, r, v
  <2>2. y + v = Low(s) + SECT + (x + r)
    BY <1>0, <1>1, <2>1, <2>c
  <2>3. src_sect' * SECT + s.va = Low(s) + SECT + (x + r)
    BY <2>2 DEF y, v
  <2> QED  BY <1>2, <2>b, <2>3
<1>5. ASSUME NEW a \in s.va..(s.va + s.filesz - 1) PROVE ~(a < ptr')
  BY <1>1, <1>2
<1> QED  BY <1>1, <1>2, <1>4, <1>5 DEF Reading

\* A sector is read: what it writes is what belongs there, and nothing below.
LEMMA SectorRead ==
  ASSUME NEW s \in Segment, s.filesz <= s.memsz, End(s) <= MEMORY, Reading(s), boot_readsect
  PROVE  /\ Reading(s)' /\ ptr \in Nat /\ Low(s) <= ptr
         /\ \A a \in Address : /\ a < ptr => mem'[a] = mem[a]
                               /\ mem'[a] = mem[a] \/ mem'[a] = Origin(s, a)
<1>0. /\ SECT \in Nat /\ SECT > 0 /\ MEMORY \in Nat
      /\ s.va \in Nat /\ s.off \in Nat /\ s.filesz \in Nat /\ s.memsz \in Nat
      /\ Low(s) \in Nat /\ Low(s) <= s.va /\ End(s) = s.va + s.memsz
  BY ImageAssumption, LinkAssumption, Rounded
<1>1. /\ ptr \in Nat /\ src_sect \in Nat /\ Low(s) <= ptr
      /\ end_ptr = s.va + s.filesz /\ mem_end = s.va + s.memsz
      /\ src_sect * SECT + s.va = ptr + SECT + s.off
      /\ \A a \in s.va..(s.va + s.filesz - 1) : a < ptr => mem[a] = Origin(s, a)
  BY DEF Reading
<1>2. /\ mem' = [a \in Address |-> IF a \in ptr..(ptr + SECT - 1)
                                   THEN out[src_sect * SECT + (a - ptr) + 1] ELSE mem[a]]
      /\ ptr' = ptr + SECT /\ src_sect' = src_sect + 1
      /\ UNCHANGED <<out, end_ptr, mem_end>>
  BY DEF boot_readsect, ivars
<1> DEFINE x == src_sect * SECT
<1>3. x \in Nat /\ src_sect' * SECT = x + SECT /\ x + s.va = ptr + SECT + s.off
  BY <1>0, <1>1, <1>2
<1>4. \A a \in Address : mem'[a] = IF a \in ptr..(ptr + SECT - 1)
                                   THEN out[x + (a - ptr) + 1] ELSE mem[a]
  BY <1>2
<1> HIDE DEF x
<1>5. ASSUME NEW a \in Address, a \in ptr..(ptr + SECT - 1) PROVE mem'[a] = Origin(s, a)
  <2>1. x + (a - ptr) + 1 = SECT + 1 + s.off + (a - s.va)
    BY <1>0, <1>1, <1>3, <1>5
  <2> QED  BY <1>4, <1>5, <2>1 DEF Origin
<1>6. ASSUME NEW a \in Address, a \notin ptr..(ptr + SECT - 1) PROVE mem'[a] = mem[a]
  BY <1>4, <1>6
<1>7. ASSUME NEW a \in Address, a < ptr PROVE mem'[a] = mem[a]
  <2>1. a \notin ptr..(ptr + SECT - 1)
    BY <1>0, <1>1, <1>7 DEF Address
  <2> QED  BY <1>6, <2>1
<1>8. ASSUME NEW a \in s.va..(s.va + s.filesz - 1), a < ptr + SECT
      PROVE  mem'[a] = Origin(s, a)
  <2>1. a \in Address
    BY <1>0 DEF Address
  <2>2. CASE a < ptr
    BY <1>1, <1>7, <2>1, <2>2
  <2>3. CASE a >= ptr
    <3>1. a \in ptr..(ptr + SECT - 1)
      BY <1>0, <1>1, <1>8, <2>3
    <3> QED  BY <1>5, <2>1, <3>1
  <2> QED  BY <1>0, <1>1, <2>2, <2>3
<1>9. Reading(s)'
  <2>1. /\ ptr' \in Nat /\ src_sect' \in Nat /\ Low(s) <= ptr'
        /\ end_ptr' = s.va + s.filesz /\ mem_end' = s.va + s.memsz
    BY <1>0, <1>1, <1>2
  <2>2. src_sect' * SECT + s.va = ptr' + SECT + s.off
    <3>1. ptr \in Nat /\ ptr' = ptr + SECT
      BY <1>1, <1>2
    <3>2. (x + SECT) + s.va = ptr' + SECT + s.off
      BY <1>0, <1>3, <3>1
    <3> QED  BY <1>3, <3>2
  <2>3. \A a \in s.va..(s.va + s.filesz - 1) : a < ptr' => mem'[a] = Origin(s, a)'
    BY <1>2, <1>8 DEF Origin
  <2> QED  BY <2>1, <2>2, <2>3 DEF Reading
<1> QED  BY <1>1, <1>5, <1>6, <1>7, <1>9

\* What is loaded stays loaded while a segment behind it is read.
LEMMA EarlierKept ==
  ASSUME NEW s \in Segment, NEW t \in Segment, Behind(t, s), End(s) <= MEMORY,
         s.filesz <= s.memsz, t.filesz <= t.memsz, End(t) <= MEMORY,
         Loaded(s), Reading(t), boot_readsect
  PROVE  Loaded(s)'
<1>0. /\ MEMORY \in Nat /\ SECT \in Nat
      /\ s.va \in Nat /\ s.off \in Nat /\ s.filesz \in Nat /\ s.memsz \in Nat
      /\ t.va \in Nat /\ t.off \in Nat /\ End(s) = s.va + s.memsz /\ Low(t) \in Nat
  BY ImageAssumption, LinkAssumption, Rounded
<1>1. /\ ptr \in Nat /\ Low(t) <= ptr /\ out' = out
      /\ \A a \in Address : /\ a < ptr => mem'[a] = mem[a]
                            /\ mem'[a] = mem[a] \/ mem'[a] = Origin(t, a)
  BY SectorRead DEF boot_readsect, ivars
<1>2. ASSUME NEW a \in s.va..(End(s) - 1) PROVE mem'[a] = mem[a]
  <2>1. a \in Address
    BY <1>0 DEF Address
  <2>2. CASE End(s) <= Low(t)
    <3>1. a < ptr
      BY <1>0, <1>1, <2>2
    <3> QED  BY <1>1, <2>1, <3>1
  <2>3. CASE s.memsz = s.filesz /\ t.va - s.va = t.off - s.off
    <3>1. mem[a] = Origin(s, a)
      BY <1>0, <2>3 DEF Loaded
    <3>2. SECT + 1 + s.off + (a - s.va) = SECT + 1 + t.off + (a - t.va)
      BY <1>0, <2>3
    <3>3. Origin(s, a) = Origin(t, a)
      BY <3>2 DEF Origin
    <3> QED  BY <1>1, <2>1, <3>1, <3>3
  <2> QED  BY <2>2, <2>3 DEF Behind
<1> QED  BY <1>1, <1>2 DEF Loaded, Origin

\* The bss is cleared, and the segment is loaded.
LEMMA BssCleared ==
  ASSUME NEW s \in Segment, s.filesz <= s.memsz, End(s) <= MEMORY, Reading(s), clear_bss
  PROVE  Loaded(s)' /\ \A a \in Address : a < s.va => mem'[a] = mem[a]
<1>0. /\ MEMORY \in Nat /\ s.va \in Nat /\ s.filesz \in Nat /\ s.memsz \in Nat
      /\ End(s) = s.va + s.memsz
  BY LinkAssumption, Rounded
<1>1. /\ ptr \in Nat /\ end_ptr = s.va + s.filesz /\ mem_end = s.va + s.memsz
      /\ \A a \in s.va..(s.va + s.filesz - 1) : a < ptr => mem[a] = Origin(s, a)
  BY DEF Reading
<1>2. /\ ptr >= end_ptr /\ out' = out
      /\ \A a \in Address : mem'[a] = IF a \in end_ptr..(mem_end - 1) THEN Byte("zero", 0) ELSE mem[a]
  BY DEF clear_bss, ivars
<1>3. ASSUME NEW a \in s.va..(End(s) - 1)
      PROVE  mem'[a] = IF a < s.va + s.filesz THEN Origin(s, a) ELSE Byte("zero", 0)
  <2>1. a \in Address
    BY <1>0 DEF Address
  <2>2. CASE a < s.va + s.filesz
    <3>1. a \notin end_ptr..(mem_end - 1) /\ a \in s.va..(s.va + s.filesz - 1) /\ a < ptr
      BY <1>0, <1>1, <1>2, <2>2
    <3> QED  BY <1>1, <1>2, <2>1, <2>2, <3>1
  <2>3. CASE ~(a < s.va + s.filesz)
    <3>1. a \in end_ptr..(mem_end - 1)
      BY <1>0, <1>1, <2>3
    <3> QED  BY <1>2, <2>1, <2>3, <3>1
  <2> QED  BY <2>2, <2>3
<1>4. ASSUME NEW a \in Address, a < s.va PROVE mem'[a] = mem[a]
  <2>1. a \notin end_ptr..(mem_end - 1)
    BY <1>0, <1>1, <1>4 DEF Address
  <2> QED  BY <1>2, <2>1
<1>5. Loaded(s)'
  BY <1>2, <1>3 DEF Loaded, Origin
<1> QED  BY <1>4, <1>5

\* The loader has seen the magic number only if the image has it.
LEMMA MagicSeen ==
  ASSUME LoaderInv, lpc = "next", InPlace(0) PROVE out[SECT + 1] = Byte("kernel", 0)
<1>1. /\ SECT \in Nat /\ ELFHDR \in Nat /\ PAGESIZE \in Nat \ {0}
  BY ImageAssumption, LinkAssumption
<1>2. Loaded(HeaderPage)
  <2>1. Seg(0) = HeaderPage
    BY DEF Seg
  <2>2. ph = 0 \/ 0 \in 0..(ph - 1)
    BY LinkAssumption DEF LoaderInv, Linked
  <2> QED  BY <2>1, <2>2 DEF LoaderInv
<1>3. /\ HeaderPage.va = ELFHDR /\ HeaderPage.off = 0 /\ HeaderPage.filesz = PAGESIZE
      /\ End(HeaderPage) = ELFHDR + PAGESIZE
  BY DEF HeaderPage, End
<1>4. ELFHDR \in ELFHDR..((ELFHDR + PAGESIZE) - 1) /\ ELFHDR < ELFHDR + PAGESIZE
  BY <1>1
<1>5. mem[ELFHDR] = out[SECT + 1 + 0 + (ELFHDR - ELFHDR)]
  <2>1. \A a \in ELFHDR..((ELFHDR + PAGESIZE) - 1) :
          mem[a] = IF a < ELFHDR + PAGESIZE THEN Origin(HeaderPage, a) ELSE Byte("zero", 0)
    BY <1>2, <1>3 DEF Loaded
  <2>2. mem[ELFHDR] = Origin(HeaderPage, ELFHDR)
    BY <1>4, <2>1
  <2> QED  BY <1>3, <2>2 DEF Origin
<1>6. SECT + 1 + 0 + (ELFHDR - ELFHDR) = SECT + 1 /\ ELFHDR + 0 = ELFHDR
  BY <1>1
<1> QED  BY <1>5, <1>6 DEF InPlace

\* Every step of the loader keeps its invariant.
LEMMA LoaderKeeps ==
  ASSUME LoaderInv, Loader PROVE LoaderInv'
<1>0. /\ kernel \in Kernels /\ ph \in 0..Len(kernel) /\ Len(kernel) \in Nat
      /\ UNCHANGED <<ivars, kernel>>
  BY LinkAssumption DEF LoaderInv, Linked, Loader, boot, boot_readsect, clear_bss, bad_magic,
                        load_segment, kernel_entry
<1>1. out' = out /\ pc' = pc /\ \A i : Seg(i)' = Seg(i)
  BY <1>0 DEF ivars, Seg
<1>2. \A i \in 0..Len(kernel) :
        /\ Seg(i) \in Segment /\ Seg(i).filesz <= Seg(i).memsz /\ End(Seg(i)) <= MEMORY
        /\ Seg(i).va % SECT = Seg(i).off % SECT
        /\ \A j \in 0..(i - 1) : Behind(Seg(i), Seg(j))
  BY <1>0, SegFacts
<1> DEFINE Kept(i) == Loaded(Seg(i))'
<1>3. ASSUME NEW i, NEW w, w = Seg(i), Loaded(w)' PROVE Kept(i)
  BY <1>1, <1>3 DEF Loaded
<1>4. ASSUME mem' = mem, NEW i, Loaded(Seg(i)) PROVE Kept(i)
  BY <1>1, <1>4 DEF Loaded, Origin
<1> HIDE DEF Kept
<1>5. PICK s : s = Seg(ph)
  OBVIOUS
<1>6. /\ s \in Segment /\ s.filesz <= s.memsz /\ End(s) <= MEMORY
      /\ s.va % SECT = s.off % SECT
      /\ \A j \in 0..(ph - 1) : Behind(s, Seg(j))
  BY <1>0, <1>2, <1>5
<1>7. CASE boot
  <2>1. lpc = "off" /\ lpc' = "read" /\ ph = 0 /\ ph' = 0 /\ pc = "built" /\ mem' = mem
        /\ boot_readseg(ELFHDR, 1, PAGESIZE, PAGESIZE)
    BY <1>7 DEF boot, boot_readseg, LoaderInv
  <2>2. s = HeaderPage /\ Seg(ph)' = HeaderPage
    BY <1>1, <1>5, <2>1 DEF Seg
  <2>3. src_sector(0) = 1
    BY ImageAssumption DEF src_sector
  <2>4. boot_readseg(s.va, src_sector(s.off), s.filesz, s.memsz)
    BY <2>1, <2>2, <2>3 DEF HeaderPage
  <2>5. Reading(s)'
    BY <1>6, <2>4, ReadsegBegins
  <2>6. Reading(Seg(ph))'
    BY <2>2, <2>5 DEF Reading, Origin
  <2> QED  BY <1>0, <1>1, <2>1, <2>6 DEF LoaderInv
<1>8. CASE boot_readsect
  <2>1. lpc = "read" /\ lpc' = "read" /\ ph' = ph /\ Seg(ph)' = s /\ Reading(s)
    BY <1>0, <1>5, <1>8 DEF boot_readsect, LoaderInv, Seg
  <2>2. Reading(Seg(ph))'
    <3>1. Reading(s)'
      BY <1>6, <1>8, <2>1, SectorRead
    <3> QED  BY <2>1, <3>1 DEF Reading, Origin
  <2>3. ASSUME NEW i \in 0..(ph - 1) PROVE Kept(i)
    <3>1. PICK w : w = Seg(i)
      OBVIOUS
    <3>2. /\ w \in Segment /\ w.filesz <= w.memsz /\ End(w) <= MEMORY /\ Behind(s, w)
          /\ Loaded(w)
      <4>1. i \in 0..Len(kernel)
        BY <1>0
      <4> QED  BY <1>2, <1>6, <3>1, <4>1 DEF LoaderInv
    <3>3. Loaded(w)'
      BY <1>6, <1>8, <2>1, <3>2, EarlierKept
    <3> QED  BY <1>3, <3>1, <3>3
  <2> QED  BY <1>0, <1>1, <2>1, <2>2, <2>3 DEF LoaderInv, Kept
<1>9. CASE clear_bss
  <2>1. lpc = "read" /\ lpc' = "next" /\ ph' = ph /\ Seg(ph)' = s /\ Reading(s)
    BY <1>0, <1>5, <1>9 DEF clear_bss, LoaderInv, Seg
  <2>2. Loaded(s)' /\ \A a \in Address : a < s.va => mem'[a] = mem[a]
    BY <1>6, <1>9, <2>1, BssCleared
  <2>3. Loaded(Seg(ph))'
    BY <2>1, <2>2 DEF Loaded
  <2>4. ASSUME NEW i \in 0..(ph - 1) PROVE Kept(i)
    <3>1. PICK w : w = Seg(i)
      OBVIOUS
    <3>2. /\ w \in Segment /\ End(w) <= MEMORY /\ Behind(s, w) /\ Loaded(w)
      <4>1. i \in 0..Len(kernel)
        BY <1>0
      <4> QED  BY <1>2, <1>6, <3>1, <4>1 DEF LoaderInv
    <3>3. End(w) <= s.va /\ w.va \in Nat /\ End(w) \in Nat /\ s.va \in Nat
      <4>1. /\ w.va \in Nat /\ w.memsz \in Nat /\ End(w) = w.va + w.memsz
            /\ s.va \in Nat /\ Low(s) \in Nat /\ Low(s) <= s.va
        BY <1>6, <3>2, Rounded
      <4> QED  BY <3>2, <4>1 DEF Behind
    <3>4. ASSUME NEW a \in w.va..(End(w) - 1) PROVE mem'[a] = mem[a]
      <4>1. a \in Address /\ a < s.va
        BY <3>2, <3>3, LinkAssumption DEF Address
      <4> QED  BY <2>2, <4>1
    <3>5. Loaded(w)'
      BY <1>1, <3>2, <3>4 DEF Loaded, Origin
    <3> QED  BY <1>3, <3>1, <3>5
  <2> QED  BY <1>0, <1>1, <2>1, <2>3, <2>4 DEF LoaderInv, Kept
<1>10. CASE bad_magic
  <2>1. lpc = "next" /\ lpc' = "spin" /\ ph' = ph /\ ph = 0 /\ mem' = mem
    BY <1>10 DEF bad_magic
  <2>2. Loaded(Seg(ph))'
    <3>1. Loaded(Seg(0))
      BY <2>1 DEF LoaderInv
    <3>2. Kept(0)
      BY <1>4, <2>1, <3>1
    <3> QED  BY <2>1, <3>2 DEF Kept, Loaded, Seg
  <2> QED  BY <1>0, <1>1, <2>1, <2>2 DEF LoaderInv
<1>11. CASE load_segment
  <2>1. lpc = "next" /\ lpc' = "read" /\ ph < Len(kernel) /\ ph' = ph + 1 /\ mem' = mem /\ InPlace(0)
    BY <1>11 DEF load_segment, boot_readseg
  <2>2. PICK n, v : n = ph + 1 /\ v = kernel[n]
    OBVIOUS
  <2>3. n \in 1..Len(kernel) /\ Seg(n) = v /\ Seg(ph)' = v
    BY <1>0, <2>1, <2>2 DEF Seg
  <2>4. v \in Segment /\ v.va % SECT = v.off % SECT
    BY <1>0, <1>2, <2>3
  <2>5. boot_readseg(v.va, src_sector(v.off), v.filesz, v.memsz)
    BY <1>11, <2>2 DEF load_segment
  <2>6. Reading(v)'
    BY <2>4, <2>5, ReadsegBegins
  <2>7. Reading(Seg(ph))'
    BY <2>3, <2>6 DEF Reading, Origin
  <2>8. ASSUME NEW i \in 0..(ph' - 1) PROVE Kept(i)
    <3>1. i \in 0..(ph - 1) \/ i = ph
      BY <1>0, <2>1, <2>8
    <3>2. Loaded(Seg(i))
      BY <2>1, <3>1 DEF LoaderInv
    <3> QED  BY <1>4, <2>1, <3>2
  <2>9. out[SECT + 1] = Byte("kernel", 0) /\ ph' \in 0..Len(kernel)
    BY <1>0, <2>1, MagicSeen
  <2> QED  BY <1>0, <1>1, <2>1, <2>7, <2>8, <2>9 DEF LoaderInv, Kept
<1>12. CASE kernel_entry
  <2>1. /\ lpc = "next" /\ lpc' = "kernel" /\ ph = Len(kernel) /\ ph' = ph /\ mem' = mem
        /\ InPlace(0)
    BY <1>12 DEF kernel_entry
  <2>2. ASSUME NEW i \in 0..ph PROVE Kept(i)
    <3>1. i \in 0..(ph - 1) \/ i = ph
      BY <1>0
    <3>2. Loaded(Seg(i))
      BY <2>1, <3>1 DEF LoaderInv
    <3> QED  BY <1>4, <2>1, <3>2
  <2>3. Loaded(Seg(ph))'
    <3>1. PICK n : n = ph
      OBVIOUS
    <3>2. Kept(n)
      BY <1>0, <2>2, <3>1
    <3> QED  BY <2>1, <3>1, <3>2 DEF Kept, Loaded, Seg
  <2>4. out[SECT + 1] = Byte("kernel", 0)
    BY <2>1, MagicSeen
  <2> QED  BY <1>0, <1>1, <2>1, <2>2, <2>3, <2>4 DEF LoaderInv, Kept
<1> QED  BY <1>7, <1>8, <1>9, <1>10, <1>11, <1>12 DEF Loader

\* The image is not touched once it is built.
LEMMA ImageStays ==
  ASSUME PlacedInv, pc = "built" PROVE ~mkbootdisk
BY DEF PlacedInv, mkbootdisk, diskwrite, diskwrite_fails, boot_sector, skip_sectors,
       read_file, pad_file, fill_out, At

\* The invariants together.
LEMMA LoaderInvariance == Spec => [](ImageInv /\ PlacedInv /\ LoaderInv)
<1>1. Init => ImageInv /\ PlacedInv /\ LoaderInv
  <2> SUFFICES ASSUME Init PROVE ImageInv /\ PlacedInv /\ LoaderInv
    OBVIOUS
  <2>1. ImageInv
    BY ImageAssumption DEF Init, ImageInit, ImageInv
  <2>2. /\ args \in ArgLists /\ pc = "boot" /\ Len(out) = 0 /\ Len(buf) = 0
        /\ SECT \in Nat /\ SECT > 2
    BY ImageAssumption DEF Init, ImageInit
  <2>3. ~(Total > SECT)
    BY <2>2 DEF Total
  <2>4. \A i \in DOMAIN args : IsKernel(args[i]) => Enough(args[i].n)
    BY <2>2, LinkAssumption DEF IsKernel, Enough
  <2>5. PlacedInv
    BY <2>2, <2>3, <2>4 DEF PlacedInv
  <2>6. kernel \in Kernels /\ lpc = "off" /\ ph = 0
    BY DEF Init, LoaderInit
  <2>7. Len(kernel) \in Nat
    BY <2>6, LinkAssumption DEF Linked
  <2>8. LoaderInv
    BY <2>6, <2>7 DEF LoaderInv
  <2> QED  BY <2>1, <2>5, <2>8
<1>2. (ImageInv /\ PlacedInv /\ LoaderInv) /\ [Next]_vars => (ImageInv /\ PlacedInv /\ LoaderInv)'
  <2> SUFFICES ASSUME ImageInv, PlacedInv, LoaderInv, [Next]_vars
               PROVE  ImageInv' /\ PlacedInv' /\ LoaderInv'
    OBVIOUS
  <2>1. [mkbootdisk]_ivars
    BY DEF Next, vars, Loader, boot, boot_readsect, clear_bss, bad_magic,
           load_segment, kernel_entry, kernel_main
  <2>2. ImageInv' /\ PlacedInv'
    BY <2>1, ImageKept, PlacedKept
  <2>3. ASSUME mkbootdisk, UNCHANGED lvars PROVE LoaderInv'
    <3>1. lpc = "off"
      BY <2>3, ImageStays DEF LoaderInv
    <3>2. lpc = "off" /\ lpc' = "off" /\ ph = 0 /\ ph' = 0 /\ kernel' = kernel
      BY <2>3, <3>1 DEF LoaderInv, lvars
    <3> QED  BY <3>2 DEF LoaderInv
  <2>4. ASSUME Loader PROVE LoaderInv'
    BY <2>4, LoaderKeeps
  <2>5. ASSUME UNCHANGED <<ivars, lvars>> PROVE LoaderInv'
    BY <2>5 DEF ivars, lvars, LoaderInv, Reading, Loaded, Origin, Seg
  <2>6. LoaderInv'
    BY <2>3, <2>4, <2>5 DEF Next, vars, kernel_main
  <2> QED  BY <2>2, <2>6
<1> QED  BY <1>1, <1>2, PTL DEF Spec

\* What the loader has taken for a kernel is one, in full.
LEMMA KernelThere ==
  ASSUME ImageInv, PlacedInv, LoaderInv, pc = "built", out[SECT + 1] = Byte("kernel", 0)
  PROVE  \E n \in Nat : Holds(n, kernel) /\ \A j \in 0..(n - 1) : out[SECT + 1 + j] = Byte("kernel", j)
<1>0. /\ SECT \in Nat /\ SECT > 2 /\ FILL \in Nat /\ PAGESIZE \in Nat \ {0}
      /\ SECT + PAGESIZE <= FILL * SECT /\ nsectors \in Nat /\ nsectors >= FILL /\ pos \in Nat
      /\ buf = <<>> /\ Len(buf) = 0 /\ Len(out) \in Nat /\ Len(out) + Len(buf) = nsectors * SECT + pos
  BY ImageAssumption, LinkAssumption DEF ImageInv, PlacedInv
<1>1. FILL * SECT <= nsectors * SECT
  <2>1. \A m \in Nat : FILL * SECT <= (FILL + m) * SECT
    <3> TAKE m \in Nat
    <3>1. (FILL + m) * SECT = FILL * SECT + m * SECT /\ m * SECT \in Nat /\ FILL * SECT \in Nat
      BY <1>0
    <3> QED  BY <3>1
  <2>2. nsectors - FILL \in Nat /\ FILL + (nsectors - FILL) = nsectors
    BY <1>0
  <2> QED  BY <2>1, <2>2
<1>2. Total = Len(out) /\ Total \in Nat /\ Total > SECT
  <2> DEFINE x == nsectors * SECT
             y == FILL * SECT
  <2>1. x \in Nat /\ y \in Nat /\ y <= x /\ SECT + PAGESIZE <= y /\ Len(out) + Len(buf) = x + pos
    BY <1>0, <1>1
  <2> HIDE DEF x, y
  <2> QED  BY <1>0, <2>1 DEF Total
<1>3. \A i \in 1..Total : Piece(i) = out[i]
  BY <1>2 DEF Piece
<1>4. SECT + 1 \in 1..Total
  BY <1>0, <1>2
<1>5. Complete
  BY <1>2, <1>3, <1>4 DEF PlacedInv, Underway
<1>6. PICK n \in 0..(Total - SECT) : Enough(n) /\ InFile(n)
  BY <1>5 DEF Complete
<1>7. ASSUME NEW j \in 0..(n - 1) PROVE out[SECT + 1 + j] = Byte("kernel", j)
  <2>1. SECT + 1 + j \in 1..Total
    BY <1>0, <1>2, <1>6
  <2>2. Piece(SECT + 1 + j) = Byte("kernel", j)
    BY <1>6 DEF InFile
  <2> QED  BY <1>3, <2>1, <2>2
<1>8. n \in Nat /\ Holds(n, kernel)
  BY <1>6 DEF Enough, LoaderInv
<1> QED  BY <1>7, <1>8

\* For every kernel that is linked as kernel.ld has it and every command
\* line, when the kernel starts all its segments are in memory, byte by byte.
THEOREM KernelInMemory == Spec => []KernelLoaded
<1>1. ImageInv /\ PlacedInv /\ LoaderInv => KernelLoaded
  <2> SUFFICES ASSUME ImageInv, PlacedInv, LoaderInv, lpc = "kernel",
                      NEW i \in DOMAIN kernel, NEW k \in 0..(kernel[i].memsz - 1)
               PROVE  mem[kernel[i].va + k] = IF k < kernel[i].filesz
                                              THEN Byte("kernel", kernel[i].off + k)
                                              ELSE Byte("zero", 0)
    BY DEF KernelLoaded
  <2>1. kernel \in Kernels /\ pc = "built" /\ out[SECT + 1] = Byte("kernel", 0) /\ ph = Len(kernel)
    BY DEF LoaderInv
  <2>2. PICK n \in Nat : Holds(n, kernel) /\ \A j \in 0..(n - 1) : out[SECT + 1 + j] = Byte("kernel", j)
    BY <2>1, KernelThere
  <2>3. kernel \in Seq(Segment) /\ Len(kernel) \in Nat /\ i \in 1..Len(kernel) /\ kernel[i] \in Segment
    BY <2>1, LinkAssumption DEF Linked
  <2>4. Seg(i) = kernel[i] /\ Loaded(kernel[i])
    <3>1. Seg(i) = kernel[i]
      BY <2>3 DEF Seg
    <3>2. i \in 0..(ph - 1) \/ i = ph
      BY <2>1, <2>3
    <3> QED  BY <3>1, <3>2 DEF LoaderInv
  <2> DEFINE s == kernel[i]
  <2>5. /\ s.va \in Nat /\ s.off \in Nat /\ s.filesz \in Nat /\ s.memsz \in Nat
        /\ End(s) = s.va + s.memsz
    BY <2>3, Rounded
  <2>6. s.off + s.filesz <= n
    BY <2>2 DEF Holds
  <2>7. Loaded(s) /\ k \in 0..(s.memsz - 1)
    BY <2>4
  <2> HIDE DEF s
  <2>8. s.va + k \in s.va..(End(s) - 1) /\ (s.va + k < s.va + s.filesz <=> k < s.filesz)
    BY <2>5, <2>7
  <2>9. mem[s.va + k] = IF k < s.filesz THEN Origin(s, s.va + k) ELSE Byte("zero", 0)
    BY <2>7, <2>8 DEF Loaded
  <2>10. ASSUME k < s.filesz PROVE Origin(s, s.va + k) = Byte("kernel", s.off + k)
    <3>1. SECT + 1 + s.off + ((s.va + k) - s.va) = SECT + 1 + (s.off + k)
      BY <2>5, <2>7, ImageAssumption
    <3>2. s.off + k \in 0..(n - 1)
      BY <2>2, <2>5, <2>6, <2>7, <2>10
    <3> QED  BY <2>2, <3>1, <3>2 DEF Origin
  <2>11. mem[s.va + k] = IF k < s.filesz THEN Byte("kernel", s.off + k) ELSE Byte("zero", 0)
    BY <2>9, <2>10
  <2> QED  BY <2>11 DEF s
<1> QED  BY <1>1, LoaderInvariance, PTL

\* No segment is loaded over the program headers the loader has still to
\* come to, wherever the segments lie above the page with the headers.
THEOREM HeadersStay == Spec => []HeadersKept
<1>1. ImageInv /\ PlacedInv /\ LoaderInv => HeadersKept
  <2> SUFFICES ASSUME ImageInv, PlacedInv, LoaderInv,
                      (lpc = "next" /\ InPlace(0)) \/ (lpc = "read" /\ ph > 0),
                      NEW i \in ph..(Len(kernel) - 1)
               PROVE  InPlace(PHOFF + i)
    BY DEF HeadersKept
  <2>1. kernel \in Kernels /\ pc = "built" /\ out[SECT + 1] = Byte("kernel", 0)
    BY MagicSeen DEF LoaderInv
  <2>2. PICK n \in Nat : Holds(n, kernel) /\ \A j \in 0..(n - 1) : out[SECT + 1 + j] = Byte("kernel", j)
    BY <2>1, KernelThere
  <2>3. /\ Len(kernel) \in Nat /\ PHOFF + Len(kernel) <= PAGESIZE /\ ph \in Nat
        /\ PHOFF + Len(kernel) <= n
        /\ SECT \in Nat /\ ELFHDR \in Nat /\ PAGESIZE \in Nat /\ PHOFF \in Nat
    BY <2>1, <2>2, ImageAssumption, LinkAssumption DEF Linked, Holds, LoaderInv
  <2>4. Loaded(HeaderPage)
    <3>1. Seg(0) = HeaderPage
      BY DEF Seg
    <3>2. ph = 0 \/ 0 \in 0..(ph - 1)
      BY <2>3
    <3>3. Loaded(Seg(0))
      BY <3>2 DEF LoaderInv
    <3> QED  BY <3>1, <3>3
  <2> DEFINE a == ELFHDR + (PHOFF + i)
  <2>5. /\ a \in ELFHDR..((ELFHDR + PAGESIZE) - 1) /\ a < ELFHDR + PAGESIZE
        /\ SECT + 1 + 0 + (a - ELFHDR) = SECT + 1 + (PHOFF + i) /\ PHOFF + i \in 0..(n - 1)
    BY <2>2, <2>3
  <2> HIDE DEF a
  <2>6. /\ HeaderPage.va = ELFHDR /\ HeaderPage.off = 0 /\ HeaderPage.filesz = PAGESIZE
        /\ End(HeaderPage) = ELFHDR + PAGESIZE
    BY DEF HeaderPage, End
  <2>7. mem[a] = Origin(HeaderPage, a)
    BY <2>4, <2>5, <2>6 DEF Loaded
  <2>8. mem[a] = out[SECT + 1 + 0 + (a - ELFHDR)]
    BY <2>6, <2>7 DEF Origin
  <2>9. mem[a] = Byte("kernel", PHOFF + i)
    BY <2>2, <2>5, <2>8
  <2> QED  BY <2>9 DEF InPlace, a
<1> QED  BY <1>1, LoaderInvariance, PTL
=============================================================================
