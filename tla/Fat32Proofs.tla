----------------------------- MODULE Fat32Proofs -----------------------------
(***************************************************************************)
(* Proofs about module Fat32, for any disk, any commands and any number of *)
(* power cuts.                                                             *)
(*                                                                         *)
(* The copies of the allocation table: the driver never leaves two sectors *)
(* of them different for one cut.                                          *)
(*                                                                         *)
(* What is read of a file is what its directory entry promises.  A file is *)
(* read to its size, along its chain; that the chain is long enough is     *)
(* kept by every step since the file was written.  nextCluster, which      *)
(* readFile shares with the routines that write, allocates a cluster only  *)
(* behind the last sector of the file.                                     *)
(*                                                                         *)
(* As long as the power stays on, nothing leaks and `..' of every          *)
(* directory leads back to where it is listed.                             *)
(***************************************************************************)
EXTENDS Fat32DiskProofs

----------------------------------------------------------------------------
\* Queues of sector writes.

\* The copy a write to the table goes to, and whether it is the last one.
Stage(t) == IF t.w = "entry" THEN 1 ELSE t.copy
Last(t)  == t.w = "sector" \/ Stage(t) = nbFats

KnownWrite(t) == t.w \in {"entry", "copy", "sector"} /\ (t.w = "copy" => t.copy \in 2..nbFats)

\* u may come right behind t: the next copy of the same sector, or, after the
\* last one, something new.
MayFollow(t, u) ==
  /\ ~Last(t) => u = CopyEntry(t.cluster, Stage(t) + 1)
  /\ Last(t)  => u.w # "copy"

\* A queue that ends with a whole update of the table, if with any.
Ordered(q) ==
  /\ IsSeq(q)
  /\ \A i \in 1..Len(q) : KnownWrite(q[i])
  /\ \A i \in 1..(Len(q) - 1) : MayFollow(q[i], q[i + 1])
  /\ q # <<>> => Last(q[Len(q)])

\* One that begins with a whole update, too.
Whole(q) == Ordered(q) /\ (q # <<>> => q[1].w # "copy")

----------------------------------------------------------------------------
\* The inductive invariant.

Updating == todo # <<>> /\ Head(todo).w = "copy"

\* fat is a table of copies and entries.
Table == fat = [i \in Copy |-> [c \in Entries |-> fat[i][c]]]

\* In the middle of an update the copies written so far are the same, and no
\* sector but the one being written is torn beyond the power cuts.
CInv ==
  /\ Table
  /\ cuts \in Nat
  /\ Ordered(todo)
  /\ Updating =>
       LET t == Head(todo)
       IN  /\ \A j \in 1..(t.copy - 1), d \in Cluster :
                SameFatSector(d, t.cluster) => fat[j][d] = fat[1][d]
           /\ Cardinality(TornSectors \ {t.cluster \div FAT_ENTRIES}) <= cuts
  /\ ~Updating => Cardinality(TornSectors) <= cuts

----------------------------------------------------------------------------
\* Lemmas about queues.

\* Whole queues joined are a whole queue.
LEMMA WholeJoined ==
  ASSUME NEW s, NEW t, Whole(s), Whole(t) PROVE Whole(s \o t)
<1>1. /\ IsSeq(s) /\ IsSeq(t)
      /\ \A i \in 1..Len(s) : KnownWrite(s[i])
      /\ \A i \in 1..Len(t) : KnownWrite(t[i])
      /\ \A i \in 1..(Len(s) - 1) : MayFollow(s[i], s[i + 1])
      /\ \A i \in 1..(Len(t) - 1) : MayFollow(t[i], t[i + 1])
      /\ s # <<>> => Last(s[Len(s)]) /\ s[1].w # "copy"
      /\ t # <<>> => Last(t[Len(t)]) /\ t[1].w # "copy"
  BY DEF Whole, Ordered
<1> DEFINE q == s \o t
<1>2. /\ IsSeq(q) /\ Len(s) \in Nat /\ Len(t) \in Nat /\ Len(q) = Len(s) + Len(t)
      /\ \A i \in 1..Len(s) : q[i] = s[i]
      /\ \A i \in 1..Len(t) : q[Len(s) + i] = t[i]
  BY <1>1, JoinedElements
<1>3. (s # <<>> <=> Len(s) > 0) /\ (t # <<>> <=> Len(t) > 0)
  BY <1>1 DEF IsSeq
<1> HIDE DEF q
<1>4. (q # <<>> <=> Len(q) > 0)
  BY <1>2 DEF IsSeq
<1>5. ASSUME NEW i \in 1..Len(q), i > Len(s)
      PROVE  i - Len(s) \in 1..Len(t) /\ q[i] = t[i - Len(s)]
  <2>1. i - Len(s) \in 1..Len(t) /\ Len(s) + (i - Len(s)) = i
    BY <1>2, <1>5
  <2> QED  BY <1>2, <2>1
<1>6. ASSUME NEW i \in 1..Len(q) PROVE KnownWrite(q[i])
  <2>1. CASE i <= Len(s)
    BY <1>1, <1>2, <2>1
  <2>2. CASE i > Len(s)
    BY <1>1, <1>5, <2>2
  <2> QED  BY <1>2, <2>1, <2>2
<1>7. ASSUME NEW i \in 1..(Len(q) - 1) PROVE MayFollow(q[i], q[i + 1])
  <2>1. CASE i < Len(s)
    <3>1. i \in 1..(Len(s) - 1) /\ i \in 1..Len(s) /\ i + 1 \in 1..Len(s)
      BY <1>2, <2>1
    <3> QED  BY <1>1, <1>2, <3>1
  <2>2. CASE i = Len(s)
    <3>1. Len(s) > 0 /\ Len(t) > 0 /\ Len(s) \in 1..Len(s) /\ 1 \in 1..Len(t)
      BY <1>2, <2>2
    <3>2. q[i] = s[Len(s)] /\ q[i + 1] = t[1]
      BY <1>2, <2>2, <3>1
    <3> QED  BY <1>1, <1>3, <3>1, <3>2 DEF MayFollow
  <2>3. CASE i > Len(s)
    <3>1. /\ i \in 1..Len(q) /\ i + 1 \in 1..Len(q) /\ i + 1 > Len(s)
          /\ (i + 1) - Len(s) = (i - Len(s)) + 1 /\ i - Len(s) \in 1..(Len(t) - 1)
      BY <1>2, <2>3
    <3>2. q[i] = t[i - Len(s)] /\ q[i + 1] = t[(i - Len(s)) + 1]
      <4>1. q[i] = t[i - Len(s)]
        BY <1>5, <2>3, <3>1
      <4>2. q[i + 1] = t[(i + 1) - Len(s)]
        BY <1>5, <3>1
      <4> QED  BY <3>1, <4>1, <4>2
    <3> QED  BY <1>1, <3>1, <3>2
  <2> QED  BY <1>2, <2>1, <2>2, <2>3
<1>8. ASSUME q # <<>> PROVE Last(q[Len(q)]) /\ q[1].w # "copy"
  <2>1. Len(q) > 0 /\ 1 \in 1..Len(q) /\ Len(q) \in 1..Len(q)
    BY <1>2, <1>4, <1>8
  <2>2. Last(q[Len(q)])
    <3>1. CASE Len(t) > 0
      <4>1. Len(q) > Len(s) /\ Len(q) - Len(s) = Len(t)
        BY <1>2, <3>1
      <4> QED  BY <1>1, <1>3, <1>5, <2>1, <3>1, <4>1
    <3>2. CASE Len(t) = 0
      <4>1. Len(q) = Len(s) /\ Len(s) \in 1..Len(s) /\ Len(s) > 0
        BY <1>2, <2>1, <3>2
      <4> QED  BY <1>1, <1>2, <1>3, <4>1
    <3> QED  BY <1>2, <3>1, <3>2
  <2>3. q[1].w # "copy"
    <3>1. CASE Len(s) > 0
      <4>1. 1 \in 1..Len(s)
        BY <1>2, <3>1
      <4> QED  BY <1>1, <1>2, <1>3, <3>1, <4>1
    <3>2. CASE Len(s) = 0
      <4>1. 1 > Len(s) /\ 1 - Len(s) = 1 /\ Len(t) > 0
        BY <1>2, <2>1, <3>2
      <4> QED  BY <1>1, <1>3, <1>5, <2>1, <4>1
    <3> QED  BY <1>2, <3>1, <3>2
  <2> QED  BY <2>2, <2>3
<1> QED  BY <1>2, <1>6, <1>7, <1>8 DEF q, Whole, Ordered

\* Nothing to write.
LEMMA WholeEmpty == Whole(<<>>)
<1>1. <<>> \in Seq({}) /\ Len(<<>>) = 0
  OBVIOUS
<1>2. IsSeq(<<>>)
  <2>1. \A S : \A q \in Seq(S) : IsSeq(q)
    BY SeqOfElements
  <2> QED  BY ONLY <1>1, <2>1, Zenon
<1>3. \A i \in 1..Len(<<>>) : FALSE
  BY <1>1
<1>4. \A i \in 1..(Len(<<>>) - 1) : FALSE
  BY <1>1
<1> QED  BY <1>2, <1>3, <1>4 DEF Whole, Ordered

\* An update of the table writes every copy, in turn.
LEMMA WholeUpdate ==
  ASSUME NEW c, NEW v PROVE Whole(updateEveryFat(c, v)) /\ updateEveryFat(c, v) # <<>>
<1>0. nbFats \in Nat \ {0}
  BY Fat32Assumption
<1> DEFINE B == {CopyEntry(c, i + 1) : i \in 1..(nbFats - 1)}
<1>1. PICK a : a = <<SetEntry(c, v)>> /\ IsSeq(a) /\ Len(a) = 1 /\ a[1] = SetEntry(c, v)
  <2>1. PICK a : a = <<SetEntry(c, v)>>
    OBVIOUS
  <2>2. a \in Seq({SetEntry(c, v)}) /\ Len(a) = 1 /\ a[1] = SetEntry(c, v)
    BY <2>1
  <2> QED  BY <2>1, <2>2, SeqOfElements
<1>2. PICK b : /\ b = [i \in 1..(nbFats - 1) |-> CopyEntry(c, i + 1)]
               /\ IsSeq(b) /\ Len(b) = nbFats - 1
               /\ \A i \in 1..(nbFats - 1) : b[i] = CopyEntry(c, i + 1)
  <2>1. PICK b : b = [i \in 1..(nbFats - 1) |-> CopyEntry(c, i + 1)]
    OBVIOUS
  <2>2. b \in [1..(nbFats - 1) -> B] /\ nbFats - 1 \in Nat
        /\ \A i \in 1..(nbFats - 1) : b[i] = CopyEntry(c, i + 1)
    BY <1>0, <2>1
  <2> HIDE DEF B
  <2>3. b \in Seq(B) /\ Len(b) = nbFats - 1
    BY <2>2, FunctionSeq
  <2> QED  BY <2>1, <2>2, <2>3, SeqOfElements
<1>3. PICK q : /\ q = a \o b
               /\ IsSeq(q) /\ Len(q) = nbFats /\ q[1] = SetEntry(c, v)
               /\ \A i \in 1..(nbFats - 1) : q[1 + i] = CopyEntry(c, i + 1)
  <2>1. PICK q : q = a \o b
    OBVIOUS
  <2>2. /\ IsSeq(q) /\ Len(q) = Len(a) + Len(b)
        /\ \A i \in 1..Len(a) : q[i] = a[i]
        /\ \A i \in 1..Len(b) : q[Len(a) + i] = b[i]
    <3>1. IsSeq(a) /\ IsSeq(b)
      BY <1>1, <1>2
    <3>2. /\ IsSeq(a \o b) /\ Len(a \o b) = Len(a) + Len(b)
          /\ \A i \in 1..Len(a) : (a \o b)[i] = a[i]
          /\ \A i \in 1..Len(b) : (a \o b)[Len(a) + i] = b[i]
      BY ONLY <3>1, JoinedElements
    <3> QED  BY ONLY <2>1, <3>2
  <2>3. Len(q) = nbFats
    BY <1>0, <1>1, <1>2, <2>2
  <2>4. q[1] = SetEntry(c, v)
    BY <1>1, <2>2
  <2>5. \A i \in 1..(nbFats - 1) : q[1 + i] = CopyEntry(c, i + 1)
    <3> TAKE i \in 1..(nbFats - 1)
    <3>1. q[Len(a) + i] = b[i] /\ b[i] = CopyEntry(c, i + 1)
      BY <1>2, <2>2
    <3> QED  BY ONLY <1>1, <3>1
  <2> QED  BY <2>1, <2>2, <2>3, <2>4, <2>5
<1>4. updateEveryFat(c, v) = q
  BY <1>1, <1>2, <1>3 DEF updateEveryFat
<1>5. ASSUME NEW i \in 2..nbFats PROVE q[i] = CopyEntry(c, i)
  <2>1. i - 1 \in 1..(nbFats - 1) /\ 1 + (i - 1) = i /\ (i - 1) + 1 = i
    BY <1>0
  <2> QED  BY <1>3, <2>1
<1>6. /\ SetEntry(c, v).w = "entry" /\ SetEntry(c, v).cluster = c
      /\ \A i : CopyEntry(c, i).w = "copy" /\ CopyEntry(c, i).copy = i /\ CopyEntry(c, i).cluster = c
  BY DEF SetEntry, CopyEntry
<1>7. ASSUME NEW i \in 1..nbFats
      PROVE  KnownWrite(q[i]) /\ Stage(q[i]) = i /\ q[i].cluster = c /\ q[i].w # "sector"
  <2>1. CASE i = 1
    BY <1>3, <1>6, <2>1 DEF KnownWrite, Stage
  <2>2. CASE i # 1
    <3>1. i \in 2..nbFats
      BY <1>0, <2>2
    <3> QED  BY <1>5, <1>6, <3>1 DEF KnownWrite, Stage
  <2> QED  BY <2>1, <2>2
<1>8. ASSUME NEW i \in 1..(nbFats - 1) PROVE MayFollow(q[i], q[i + 1])
  <2>1. i \in 1..nbFats /\ i + 1 \in 2..nbFats /\ i # nbFats
    BY <1>0
  <2>2. q[i + 1] = CopyEntry(c, i + 1) /\ Stage(q[i]) = i /\ q[i].cluster = c /\ q[i].w # "sector"
    BY <1>5, <1>7, <2>1
  <2> QED  BY <2>1, <2>2 DEF MayFollow, Last
<1>9. Last(q[nbFats]) /\ q[1].w # "copy" /\ q # <<>>
  <2>1. nbFats \in 1..nbFats
    BY <1>0
  <2>2. Len(<<>>) = 0
    OBVIOUS
  <2> QED  BY <1>0, <1>3, <1>6, <1>7, <2>1, <2>2 DEF Last
<1> QED  BY <1>3, <1>4, <1>7, <1>8, <1>9 DEF Whole, Ordered

\* Sectors of clusters are written one by one.
LEMMA WholeSectors ==
  ASSUME NEW n \in Nat, NEW S, NEW q \in [1..n -> S], \A x \in S : x.w = "sector"
  PROVE  Whole(q)
<1>1. IsSeq(q) /\ Len(q) = n /\ \A i \in 1..n : q[i].w = "sector"
  BY FunctionSeq, SeqOfElements
<1>2. \A i \in 1..n : KnownWrite(q[i]) /\ Last(q[i]) /\ q[i].w # "copy"
  BY <1>1 DEF KnownWrite, Last
<1>3. \A i \in 1..(n - 1) : i \in 1..n /\ i + 1 \in 1..n
  OBVIOUS
<1>4. \A i \in 1..(n - 1) : MayFollow(q[i], q[i + 1])
  BY <1>2, <1>3 DEF MayFollow
<1>5. q # <<>> => n \in 1..n /\ 1 \in 1..n
  BY <1>1 DEF IsSeq
<1> QED  BY <1>1, <1>2, <1>4, <1>5 DEF Whole, Ordered

\* One sector.
LEMMA WholeSector == ASSUME NEW c, NEW s, NEW x PROVE Whole(<<SetSector(c, s, x)>>)
<1>1. SetSector(c, s, x).w = "sector"
  BY DEF SetSector
<1> DEFINE y == SetSector(c, s, x)
<1> HIDE DEF y
<1>2. <<y>> \in [1..1 -> {y}] /\ 1 \in Nat
  OBVIOUS
<1>3. \A z \in {y} : z.w = "sector"
  BY <1>1 DEF y
<1>4. Whole(<<y>>)
  BY <1>2, <1>3, WholeSectors
<1> QED  BY <1>4 DEF y

\* A new cluster: marked, wiped, linked.
LEMMA WholeAllocation == ASSUME NEW l PROVE Whole(allocateFreeCluster(l))
<1> DEFINE W == {SetSector(FirstFree, i - 1, ZeroSector) : i \in 1..sectorPerCluster}
<1>1. Whole(Wipe(FirstFree))
  <2>1. Wipe(FirstFree) \in [1..sectorPerCluster -> W] /\ sectorPerCluster \in Nat
    BY Fat32Assumption DEF Wipe
  <2>2. \A x \in W : x.w = "sector"
    BY DEF SetSector
  <2> HIDE DEF W
  <2> QED  BY <2>1, <2>2, WholeSectors
<1>2. Whole(updateEveryFat(FirstFree, END_CLUSTER))
  BY WholeUpdate
<1>3. Whole(IF l # 0 THEN updateEveryFat(l, FirstFree) ELSE <<>>)
  BY WholeUpdate, WholeEmpty
<1>4. Whole(updateEveryFat(FirstFree, END_CLUSTER) \o Wipe(FirstFree))
  BY <1>1, <1>2, WholeJoined
<1> QED  BY <1>3, <1>4, WholeJoined DEF allocateFreeCluster

----------------------------------------------------------------------------
\* What the routines queue.

LEMMA WholeNextSector == ASSUME NEW ws, Whole(ws), NextSector(ws) PROVE Whole(todo')
<1>1. todo' = ws \/ todo' = ws \o allocateFreeCluster(Top.cluster)
  BY DEF NextSector
<1>2. Whole(ws \o allocateFreeCluster(Top.cluster))
  BY WholeAllocation, WholeJoined
<1> QED  BY <1>1, <1>2

LEMMA WholeNewChain == ASSUME NEW rs, NewChain(rs), todo = <<>> PROVE Whole(todo')
<1>1. todo' = allocateFreeCluster(0) \/ todo' = <<>>
  BY DEF NewChain
<1> QED  BY <1>1, WholeAllocation, WholeEmpty

\* Every routine runs with nothing queued, leaves the disk alone and queues
\* whole updates.
Queues == todo = <<>> /\ fat' = fat /\ cuts' = cuts /\ Whole(todo')

LEMMA RoutinesQueue ==
  ASSUME Command \/ Driver, ~writeDiskSector PROVE Queues
<1>1. \A r : Running(r) => todo = <<>>
  BY DEF Running
<1>2. \A c, n, x : process_cmd(c, n, x) => todo = <<>> /\ todo' = todo /\ fat' = fat /\ cuts' = cuts
  BY DEF process_cmd, disk
<1>3. CASE Command
  BY <1>2, <1>3, WholeEmpty DEF Command, Queues
<1>4. CASE list_files
  BY <1>1, <1>4, WholeEmpty, WholeNextSector DEF list_files, Queues, disk
<1>5. CASE removeFATChain
  BY <1>1, <1>5, WholeUpdate DEF removeFATChain, Queues, disk
<1>6. ASSUME NEW r, addFileToDirectory(r) PROVE Queues
  BY <1>1, <1>6, WholeEmpty, WholeNextSector, WholeSector, SMTT(60) DEF addFileToDirectory, Queues, disk
<1>7. ASSUME NEW r, removeEntryFromDirectory(r) PROVE Queues
  BY <1>1, <1>7, WholeEmpty, WholeSector DEF removeEntryFromDirectory, Queues, disk
<1>8. CASE mkdir
  <2>1. todo = <<>> /\ fat' = fat /\ cuts' = cuts
    BY <1>1, <1>8 DEF mkdir, disk
  <2>2. \/ todo' = todo
        \/ NewChain(<<Frame("add", currentCluster), Frame(".", FirstFree), Frame("..", FirstFree)>>)
    BY <1>8 DEF mkdir
  <2> QED  BY <2>1, <2>2, WholeEmpty, WholeNewChain DEF Queues
<1>9. CASE change_directory
  BY <1>1, <1>9, WholeEmpty DEF change_directory, Queues, disk
<1>10. CASE writeFile
  <2>1. todo = <<>> /\ fat' = fat /\ cuts' = cuts
    BY <1>1, <1>10 DEF writeFile, disk
  <2>2. NewChain(<<Frame("content", FirstFree), Frame("add", currentCluster)>>)
    BY <1>10 DEF writeFile
  <2> QED  BY <2>1, <2>2, WholeNewChain DEF Queues
<1>11. CASE write_content
  BY <1>1, <1>11, WholeEmpty, WholeNextSector, WholeSector DEF write_content, Queues, disk
<1>12. CASE read_file
  BY <1>1, <1>12, WholeEmpty DEF read_file, Queues, disk
<1>13. CASE readFile
  BY <1>1, <1>13, WholeEmpty, WholeNextSector DEF readFile, Queues, disk
<1> QED
  BY <1>3, <1>4, <1>5, <1>6, <1>7, <1>8, <1>9, <1>10, <1>11, <1>12, <1>13 DEF Driver

----------------------------------------------------------------------------
\* The table.

\* The sectors of the table are finitely many, and so are the torn ones.
LEMMA TornFinite == IsFiniteSet(TornSectors)
<1>1. IsFiniteSet(Cluster)
  BY Fat32Assumption, FS_Interval DEF Cluster
<1>2. IsFiniteSet(FatSectors)
  <2>1. FatSectors \subseteq 0..LAST_CLUSTER
    BY Fat32Assumption DEF FatSectors, Cluster
  <2>2. IsFiniteSet(0..LAST_CLUSTER)
    BY Fat32Assumption, FS_Interval
  <2> QED  BY <2>1, <2>2, FS_Subset
<1> QED  BY <1>2, FS_Subset DEF TornSectors

\* A smaller set of torn sectors has no more of them.
LEMMA Fewer ==
  ASSUME NEW S, NEW T, S \subseteq T, IsFiniteSet(T), NEW n \in Nat, Cardinality(T) <= n
  PROVE  Cardinality(S) <= n
<1>1. IsFiniteSet(S) /\ Cardinality(S) <= Cardinality(T)
  BY FS_Subset
<1>2. Cardinality(S) \in Nat /\ Cardinality(T) \in Nat
  BY <1>1, FS_CardinalityType
<1> QED  BY <1>1, <1>2

\* What is left in the queue is in order when its head has been written.
LEMMA RestOrdered ==
  ASSUME NEW q, Ordered(q), q # <<>>
  PROVE  /\ Ordered(Tail(q)) /\ KnownWrite(Head(q))
         /\ Last(Head(q)) => Tail(q) = <<>> \/ Head(Tail(q)).w # "copy"
         /\ ~Last(Head(q)) =>
              /\ Tail(q) # <<>>
              /\ Head(Tail(q)) = CopyEntry(Head(q).cluster, Stage(Head(q)) + 1)
<1>1. /\ IsSeq(q) /\ \A i \in 1..Len(q) : KnownWrite(q[i])
      /\ \A i \in 1..(Len(q) - 1) : MayFollow(q[i], q[i + 1])
      /\ Last(q[Len(q)])
  BY DEF Ordered
<1> DEFINE S == {q[i] : i \in DOMAIN q}
<1>2. q \in Seq(S)
  BY <1>1 DEF IsSeq
<1> HIDE DEF S
<1>3. PICK r : r = Tail(q)
  OBVIOUS
<1>4. /\ Len(q) \in Nat /\ Len(q) > 0 /\ Head(q) = q[1]
      /\ r \in Seq(S) /\ Len(r) = Len(q) - 1
      /\ \A i \in 1..Len(r) : r[i] = q[i + 1]
  BY <1>2, <1>3
<1>5. IsSeq(r)
  BY <1>4, SeqOfElements
<1>6. \A i \in 1..Len(r) : KnownWrite(r[i])
  <2> TAKE i \in 1..Len(r)
  <2>1. i + 1 \in 1..Len(q)
    BY <1>4
  <2> QED  BY <1>1, <1>4, <2>1
<1>7. \A i \in 1..(Len(r) - 1) : MayFollow(r[i], r[i + 1])
  <2> TAKE i \in 1..(Len(r) - 1)
  <2>1. i \in 1..Len(r) /\ i + 1 \in 1..Len(r) /\ i + 1 \in 1..(Len(q) - 1)
    BY <1>4
  <2>2. r[i] = q[i + 1] /\ r[i + 1] = q[(i + 1) + 1]
    BY <1>4, <2>1
  <2> QED  BY <1>1, <2>1, <2>2
<1>8. r # <<>> <=> Len(r) > 0
  BY <1>4
<1>9. r # <<>> => Last(r[Len(r)])
  <2> HAVE r # <<>>
  <2>1. Len(r) \in 1..Len(r) /\ Len(r) + 1 = Len(q)
    BY <1>4, <1>8
  <2> QED  BY <1>1, <1>4, <2>1
<1>10. Ordered(r)
  BY <1>5, <1>6, <1>7, <1>9 DEF Ordered
<1>11. KnownWrite(q[1])
  <2>1. 1 \in 1..Len(q)
    BY <1>4
  <2> QED  BY <1>1, <2>1
<1>12. r # <<>> => MayFollow(q[1], r[1]) /\ Head(r) = r[1]
  <2> HAVE r # <<>>
  <2>1. 1 \in 1..(Len(q) - 1) /\ 1 \in 1..Len(r)
    BY <1>4, <1>8
  <2>2. r[1] = q[1 + 1]
    BY <1>4, <2>1
  <2> QED  BY <1>1, <1>4, <2>1, <2>2
<1>13. r = <<>> => Last(q[1])
  <2> HAVE r = <<>>
  <2>1. Len(q) = 1
    BY <1>4, <1>8
  <2> QED  BY <1>1, <2>1
<1>14. Last(q[1]) => r = <<>> \/ Head(r).w # "copy"
  BY <1>12 DEF MayFollow
<1>15. ~Last(q[1]) => r # <<>> /\ Head(r) = CopyEntry(q[1].cluster, Stage(q[1]) + 1)
  BY <1>12, <1>13 DEF MayFollow
<1> QED  BY <1>3, <1>4, <1>10, <1>11, <1>14, <1>15

----------------------------------------------------------------------------
\* The steps.

\* A sector is torn when a copy of it differs from the first.
LEMMA TornMeans ==
  ASSUME NEW k
  PROVE  k \in TornSectors <=>
           \E c \in Cluster, i \in Copy : c \div FAT_ENTRIES = k /\ fat[i][c] # fat[1][c]
BY DEF TornSectors, FatSectors

LEMMA TornMeansNext ==
  ASSUME NEW k
  PROVE  k \in TornSectors' <=>
           \E c \in Cluster, i \in Copy : c \div FAT_ENTRIES = k /\ fat'[i][c] # fat'[1][c]
BY DEF TornSectors, FatSectors

\* Steps that leave the table alone and begin whole updates.
LEMMA QueueKeeps == ASSUME CInv, Queues PROVE CInv'
<1>1. /\ fat' = fat /\ cuts' = cuts /\ Ordered(todo)' /\ ~Updating
      /\ todo' # <<>> => todo'[1].w # "copy"
  BY DEF Queues, Updating, Whole
<1>2. todo' # <<>> => Head(todo') = todo'[1]
  OBVIOUS
<1>3. ~Updating'
  BY <1>1, <1>2 DEF Updating
<1>4. TornSectors' = TornSectors
  BY <1>1 DEF TornSectors
<1> QED  BY <1>1, <1>3, <1>4 DEF CInv, Table

\* A write to one copy changes only entries of one sector of the table.
LEMMA EntryWritten ==
  ASSUME Table, NEW c0, NEW v, fat' = [fat EXCEPT ![1][c0] = v]
  PROVE  /\ Table'
         /\ \A i \in Copy, c \in Entries : i # 1 \/ c # c0 => fat'[i][c] = fat[i][c]
<1>1. 1 \in Copy
  BY Fat32Assumption DEF Copy
<1>2. fat' = [i \in Copy |-> IF i = 1 THEN [c \in Entries |-> IF c = c0 THEN v ELSE fat[i][c]]
                             ELSE fat[i]]
  BY <1>1 DEF Table
<1>3. \A i \in Copy : fat[i] = [c \in Entries |-> fat[i][c]]
  BY DEF Table
<1>4. \A i \in Copy : fat'[i] = [c \in Entries |-> fat'[i][c]]
  <2> TAKE i \in Copy
  <2>1. CASE i = 1
    <3>1. fat'[i] = [c \in Entries |-> IF c = c0 THEN v ELSE fat[i][c]]
      BY <1>2, <2>1
    <3> QED  BY <3>1
  <2>2. CASE i # 1
    <3>1. fat'[i] = fat[i]
      BY <1>2, <2>2
    <3> QED  BY <1>3, <3>1
  <2> QED  BY <2>1, <2>2
<1>5. Table'
  BY <1>2, <1>4 DEF Table
<1> QED  BY <1>2, <1>5

LEMMA CopyWritten ==
  ASSUME Table, NEW c0, NEW n \in Copy,
         fat' = [fat EXCEPT ![n] = [c \in Entries |-> IF SameFatSector(c, c0)
                                                      THEN fat[1][c] ELSE @[c]]]
  PROVE  /\ Table'
         /\ \A i \in Copy, c \in Entries :
              /\ i # n => fat'[i][c] = fat[i][c]
              /\ ~SameFatSector(c, c0) => fat'[i][c] = fat[i][c]
              /\ i = n /\ SameFatSector(c, c0) => fat'[i][c] = fat[1][c]
<1> HIDE DEF SameFatSector
<1>2. fat' = [i \in Copy |-> IF i = n THEN [c \in Entries |-> IF SameFatSector(c, c0)
                                                    THEN fat[1][c] ELSE fat[n][c]]
                             ELSE fat[i]]
  BY DEF Table
<1>3. \A i \in Copy : fat[i] = [c \in Entries |-> fat[i][c]]
  BY DEF Table
<1>4. \A i \in Copy : fat'[i] = [c \in Entries |-> fat'[i][c]]
  <2> TAKE i \in Copy
  <2>1. CASE i = n
    <3>1. fat'[i] = [c \in Entries |-> IF SameFatSector(c, c0) THEN fat[1][c] ELSE fat[n][c]]
      BY <1>2, <2>1
    <3> QED  BY <3>1
  <2>2. CASE i # n
    <3>1. fat'[i] = fat[i]
      BY <1>2, <2>2
    <3> QED  BY <1>3, <3>1
  <2> QED  BY <2>1, <2>2
<1>5. Table'
  BY <1>2, <1>4 DEF Table
<1> QED  BY <1>2, <1>5

\* One sector reaches the disk.
LEMMA WriteKeeps == ASSUME CInv, writeDiskSector PROVE CInv'
<1>1. PICK t : t = Head(todo)
  OBVIOUS
<1>2. /\ todo # <<>> /\ todo' = Tail(todo) /\ cuts' = cuts
  BY DEF writeDiskSector
<1>3. /\ Table /\ cuts \in Nat /\ Ordered(todo)
      /\ t.w = "copy" =>
           /\ \A j \in 1..(t.copy - 1), d \in Cluster :
                SameFatSector(d, t.cluster) => fat[j][d] = fat[1][d]
           /\ Cardinality(TornSectors \ {t.cluster \div FAT_ENTRIES}) <= cuts
      /\ t.w # "copy" => Cardinality(TornSectors) <= cuts
  BY <1>1, <1>2 DEF CInv, Updating
<1>4. /\ Ordered(todo') /\ KnownWrite(t)
      /\ Last(t) => todo' = <<>> \/ Head(todo').w # "copy"
      /\ ~Last(t) => todo' # <<>> /\ Head(todo') = CopyEntry(t.cluster, Stage(t) + 1)
  BY <1>1, <1>2, <1>3, RestOrdered
<1>5. Last(t) => ~Updating'
  BY <1>4 DEF Updating
<1>6. ~Last(t) => /\ Updating' /\ Head(todo').cluster = t.cluster
                  /\ Head(todo').copy = Stage(t) + 1
  BY <1>4 DEF Updating, CopyEntry
<1>7. PICK k : k = t.cluster \div FAT_ENTRIES
  OBVIOUS
<1>8. nbFats \in Nat \ {0} /\ Copy = 1..nbFats /\ 1 \in Copy /\ Cluster \subseteq Entries
  BY Fat32Assumption DEF Copy, Cluster, Entries
<1>9. IsFiniteSet(TornSectors) /\ IsFiniteSet(TornSectors \ {k})
  BY TornFinite, FS_Subset
\* It is enough to follow one sector of the table.
<1>10. ASSUME Table',
              TornSectors' \ {k} \subseteq TornSectors,
              t.w # "sector" =>
                \A j \in 1..Stage(t), d \in Cluster : d \div FAT_ENTRIES = k => fat'[j][d] = fat'[1][d],
              t.w = "sector" => TornSectors' = TornSectors
       PROVE  CInv'
  <2>1. Cardinality(TornSectors' \ {k}) <= cuts
    <3>1. CASE t.w = "copy"
      <4>1. TornSectors' \ {k} \subseteq TornSectors \ {k}
        BY <1>10
      <4>2. Cardinality(TornSectors \ {k}) <= cuts
        BY <1>3, <1>7, <3>1
      <4> QED  BY <1>3, <1>9, <4>1, <4>2, Fewer
    <3>2. CASE t.w # "copy"
      BY <1>3, <1>9, <1>10, <3>2, Fewer
    <3> QED  BY <3>1, <3>2
  <2>2. CASE ~Last(t)
    <3>1. t.w # "sector" /\ (Stage(t) + 1) - 1 = Stage(t)
      BY <1>4, <2>2 DEF Last, KnownWrite, Stage
    <3>2. \A j \in 1..(Head(todo').copy - 1), d \in Cluster :
            SameFatSector(d, Head(todo').cluster) => fat'[j][d] = fat'[1][d]
      <4>1. Head(todo').copy - 1 = Stage(t) /\ Head(todo').cluster = t.cluster
        BY <1>6, <2>2, <3>1
      <4> QED  BY <1>7, <1>10, <3>1, <4>1 DEF SameFatSector
    <3>3. Cardinality(TornSectors' \ {Head(todo').cluster \div FAT_ENTRIES}) <= cuts
      BY <1>6, <1>7, <2>1, <2>2
    <3> QED  BY <1>2, <1>3, <1>4, <1>6, <1>10, <2>2, <3>2, <3>3 DEF CInv
  <2>3. CASE Last(t)
    <3>1. Cardinality(TornSectors') <= cuts
      <4>1. CASE t.w = "sector"
        BY <1>3, <1>10, <4>1
      <4>2. CASE t.w # "sector"
        <5>1. Stage(t) = nbFats
          BY <2>3, <4>2 DEF Last
        <5>2. k \notin TornSectors'
          BY <1>8, <1>10, <4>2, <5>1, TornMeansNext
        <5>3. TornSectors' \ {k} = TornSectors'
          BY <5>2
        <5> QED  BY <2>1, <5>3
      <4> QED  BY <4>1, <4>2
    <3> QED  BY <1>2, <1>3, <1>4, <1>5, <1>10, <2>3, <3>1 DEF CInv
  <2> QED  BY <2>2, <2>3
<1>11. CASE t.w = "sector"
  <2>1. fat' = fat
    BY <1>1, <1>11 DEF writeDiskSector
  <2>2. Table' /\ TornSectors' = TornSectors
    BY <1>3, <2>1 DEF Table, TornSectors
  <2> QED  BY <1>10, <1>11, <2>2
<1>12. CASE t.w = "entry"
  <2>1. fat' = [fat EXCEPT ![1][t.cluster] = t.val]
    BY <1>1, <1>12 DEF writeDiskSector
  <2>2. /\ Table'
        /\ \A i \in Copy, c \in Entries : i # 1 \/ c # t.cluster => fat'[i][c] = fat[i][c]
    <3>1. PICK c0, v : c0 = t.cluster /\ v = t.val
      OBVIOUS
    <3>2. Table /\ fat' = [fat EXCEPT ![1][c0] = v]
      BY <1>3, <2>1, <3>1
    <3>3. /\ Table'
          /\ \A i \in Copy, c \in Entries : i # 1 \/ c # c0 => fat'[i][c] = fat[i][c]
      BY ONLY <3>2, EntryWritten, ZenonT(60)
    <3> QED  BY ONLY <3>1, <3>3
  <2>3. TornSectors' \ {k} \subseteq TornSectors
    <3> SUFFICES ASSUME NEW m \in TornSectors', m # k PROVE m \in TornSectors
      OBVIOUS
    <3>1. PICK c \in Cluster, i \in Copy : c \div FAT_ENTRIES = m /\ fat'[i][c] # fat'[1][c]
      BY TornMeansNext
    <3>2. c # t.cluster /\ c \in Entries
      BY <1>7, <1>8, <3>1
    <3>3. fat'[i][c] = fat[i][c] /\ fat'[1][c] = fat[1][c]
      BY <1>8, <2>2, <3>2
    <3> QED  BY <3>1, <3>3, TornMeans
  <2>4. \A j \in 1..Stage(t), d \in Cluster : d \div FAT_ENTRIES = k => fat'[j][d] = fat'[1][d]
    BY <1>12 DEF Stage
  <2> QED  BY <1>10, <1>12, <2>2, <2>3, <2>4
<1>13. CASE t.w = "copy"
  <2>1. fat' = [fat EXCEPT ![t.copy] = [c \in Entries |-> IF SameFatSector(c, t.cluster)
                                                           THEN fat[1][c] ELSE @[c]]]
    BY <1>1, <1>13 DEF writeDiskSector
  <2>2. t.copy \in 2..nbFats /\ t.copy \in Copy /\ t.copy # 1 /\ Stage(t) = t.copy
    BY <1>4, <1>8, <1>13 DEF KnownWrite, Stage
  <2>3. /\ Table'
        /\ \A i \in Copy, c \in Entries :
              /\ i # t.copy => fat'[i][c] = fat[i][c]
              /\ ~SameFatSector(c, t.cluster) => fat'[i][c] = fat[i][c]
              /\ i = t.copy /\ SameFatSector(c, t.cluster) => fat'[i][c] = fat[1][c]
    BY <1>3, <2>1, <2>2, CopyWritten
  <2>4. TornSectors' \ {k} \subseteq TornSectors
    <3> SUFFICES ASSUME NEW m \in TornSectors', m # k PROVE m \in TornSectors
      OBVIOUS
    <3>1. PICK c \in Cluster, i \in Copy : c \div FAT_ENTRIES = m /\ fat'[i][c] # fat'[1][c]
      BY TornMeansNext
    <3>2. ~SameFatSector(c, t.cluster) /\ c \in Entries
      BY <1>7, <1>8, <3>1 DEF SameFatSector
    <3>3. fat'[i][c] = fat[i][c] /\ fat'[1][c] = fat[1][c]
      BY <1>8, <2>3, <3>2
    <3> QED  BY <3>1, <3>3, TornMeans
  <2>5. ASSUME NEW j \in 1..Stage(t), NEW d \in Cluster, d \div FAT_ENTRIES = k
        PROVE  fat'[j][d] = fat'[1][d]
    <3>1. SameFatSector(d, t.cluster) /\ d \in Entries /\ j \in Copy
      BY <1>7, <1>8, <2>2, <2>5 DEF SameFatSector
    <3>2. fat'[1][d] = fat[1][d]
      BY <1>8, <2>2, <2>3, <3>1
    <3>3. CASE j = t.copy
      BY <2>3, <3>1, <3>2, <3>3
    <3>4. CASE j # t.copy
      <4>1. j \in 1..(t.copy - 1)
        BY <2>2, <3>4
      <4>2. fat[j][d] = fat[1][d]
        BY <1>3, <1>13, <3>1, <4>1
      <4>3. fat'[j][d] = fat[j][d]
        BY <2>3, <3>1, <3>4
      <4> QED  BY <3>2, <4>2, <4>3
    <3> QED  BY <3>3, <3>4
  <2> QED  BY <1>10, <1>13, <2>3, <2>4, <2>5
<1> QED  BY <1>4, <1>11, <1>12, <1>13 DEF KnownWrite

\* The power goes: the sector being written stays torn, and the cut counts
\* for it.
LEMMA CutKeeps == ASSUME CInv, PowerCut PROVE CInv'
<1>1. fat' = fat /\ cuts' = cuts + 1 /\ todo' = <<>>
  BY DEF PowerCut, disk
<1>2. Ordered(todo') /\ ~Updating'
  BY <1>1, WholeEmpty DEF Whole, Updating
<1>3. Table' /\ cuts' \in Nat /\ cuts \in Nat /\ TornSectors' = TornSectors
  BY <1>1 DEF CInv, Table, TornSectors
<1>4. Cardinality(TornSectors) <= cuts + 1
  <2>1. IsFiniteSet(TornSectors) /\ Cardinality(TornSectors) \in Nat
    BY TornFinite, FS_CardinalityType
  <2>2. CASE ~Updating
    BY <1>3, <2>1, <2>2 DEF CInv
  <2>3. CASE Updating
    <3>1. PICK k : k = Head(todo).cluster \div FAT_ENTRIES
      OBVIOUS
    <3>2. Cardinality(TornSectors \ {k}) <= cuts
      BY <2>3, <3>1 DEF CInv
    <3> QED  BY <1>3, <2>1, <3>2, FS_RemoveElement
  <2> QED  BY <2>2, <2>3
<1> QED  BY <1>1, <1>2, <1>3, <1>4 DEF CInv

LEMMA CopiesInit == Init => CInv
<1> SUFFICES ASSUME Init PROVE CInv
  OBVIOUS
<1>1. todo = <<>> /\ cuts = 0
  BY DEF Init
<1>2. PICK f : f = [c \in Entries |-> CASE c = 0 -> MEDIA [] c \in {1, ROOT} -> END_CLUSTER
                                       [] OTHER -> FREE]
  OBVIOUS
<1>3. fat = [i \in Copy |-> f]
  BY <1>2 DEF Init
<1>4. f = [c \in Entries |-> f[c]]
  BY <1>2
<1>5. Table
  BY <1>3, <1>4 DEF Table
<1>6. 1 \in Copy
  BY Fat32Assumption DEF Copy
<1>7. TornSectors = {}
  BY <1>3, <1>6 DEF TornSectors
<1>8. Cardinality(TornSectors) = 0
  BY <1>7, FS_EmptySet
<1> QED  BY <1>1, <1>5, <1>8, WholeEmpty DEF CInv, Updating, Whole

\* The inductive invariant holds always.
THEOREM CopiesInvariance == Spec => []CInv
<1>1. CInv /\ [Next]_vars => CInv'
  <2> SUFFICES ASSUME CInv, [Next]_vars PROVE CInv'
    OBVIOUS
  <2>1. CASE writeDiskSector
    BY <2>1, WriteKeeps
  <2>2. CASE (Command \/ Driver) /\ ~writeDiskSector
    BY <2>2, QueueKeeps, RoutinesQueue
  <2>3. CASE PowerCut
    BY <2>3, CutKeeps
  <2>4. CASE UNCHANGED vars
    <3>1. fat' = fat /\ todo' = todo /\ cuts' = cuts
      BY <2>4 DEF vars, disk
    <3> QED  BY <3>1, ZenonT(60) DEF CInv, Table, TornSectors, Updating
  <2> QED  BY <2>1, <2>2, <2>3, <2>4 DEF Next, Stopped
<1> QED  BY <1>1, CopiesInit, PTL DEF Spec

\* The copies of the allocation table are the same between two updates, and a
\* power cut leaves at most one sector of them different: updateEveryFat
\* writes every copy before anything else, wherever the power goes.
THEOREM CopiesKept == Spec => []CopiesAgree
<1>1. CInv => CopiesAgree
  <2> SUFFICES ASSUME CInv PROVE CopiesAgree
    OBVIOUS
  <2>1. IsFiniteSet(TornSectors) /\ Cardinality(TornSectors) \in Nat /\ cuts \in Nat
    BY TornFinite, FS_CardinalityType DEF CInv
  <2>2. CASE ~Updating
    BY <2>1, <2>2 DEF CInv, CopiesAgree
  <2>3. CASE Updating
    <3>1. PICK k : k = Head(todo).cluster \div FAT_ENTRIES
      OBVIOUS
    <3>2. Cardinality(TornSectors \ {k}) <= cuts /\ todo # <<>>
      BY <2>3, <3>1 DEF CInv, Updating
    <3>3. Cardinality(TornSectors \ {k}) =
            IF k \in TornSectors THEN Cardinality(TornSectors) - 1 ELSE Cardinality(TornSectors)
      BY <2>1, FS_RemoveElement
    <3>4. Cardinality(TornSectors) <= cuts + 1
      BY ONLY <2>1, <3>2, <3>3
    <3> QED  BY <3>2, <3>4 DEF CopiesAgree
  <2> QED  BY <2>2, <2>3
<1> QED  BY <1>1, CopiesInvariance, PTL

----------------------------------------------------------------------------
\* The k-th cluster of a chain.

NthOf(f, h, k) ==
  LET g[n \in Nat] == IF n = 0 THEN h ELSE IF g[n - 1] \in Cluster THEN f[g[n - 1]] ELSE 0
  IN  g[k]

NthGrows(g, f, h) ==
  g = [n \in Nat |-> IF n = 0 THEN h ELSE IF g[n - 1] \in Cluster THEN f[g[n - 1]] ELSE 0]

Iterated(a, T, s, G) == a \in [Nat -> T] /\ a[0] = s /\ \A n \in Nat : a[n + 1] = G[a[n]]

LEMMA IteratedOnce ==
  ASSUME NEW T, NEW s \in T, NEW G \in [T -> T]
  PROVE  \E a : Iterated(a, T, s, G)
<1>1. \E f \in [Nat -> T] : f[0] = s /\ \A n \in Nat : f[n + 1] = G[f[n]]
  BY Iterates
<1> QED  BY <1>1 DEF Iterated

LEMMA NthIsNthOf == \A h, k : Nth(h, k) = NthOf(Links, h, k)
BY DEF Nth, NthOf, Links

LEMMA NthStep ==
  ASSUME NEW f \in [Entries -> FatValue], NEW h \in FatValue
  PROVE  /\ NthOf(f, h, 0) = h
         /\ \A n \in Nat : NthOf(f, h, n + 1) =
              IF NthOf(f, h, n) \in Cluster THEN f[NthOf(f, h, n)] ELSE 0
<1> DEFINE G == [c \in FatValue |-> IF c \in Cluster THEN f[c] ELSE 0]
<1>1. G \in [FatValue -> FatValue]
  BY Numbers
<1>2. PICK a \in [Nat -> FatValue] : a[0] = h /\ \A n \in Nat : a[n + 1] = G[a[n]]
  <2> DEFINE T == FatValue
  <2>1. G \in [T -> T] /\ h \in T
    BY <1>1
  <2> HIDE DEF T, G
  <2>2. \E a : Iterated(a, T, h, G)
    BY ONLY <2>1, IteratedOnce, Zenon
  <2> QED  BY <2>2 DEF T, Iterated
<1>3. NthGrows(a, f, h)
  <2>1. ASSUME NEW n \in Nat, n # 0
        PROVE  a[n] = IF a[n - 1] \in Cluster THEN f[a[n - 1]] ELSE 0
    <3>1. n - 1 \in Nat /\ (n - 1) + 1 = n
      BY <2>1
    <3>2. a[n] = G[a[n - 1]] /\ a[n - 1] \in FatValue
      BY <1>2, <3>1
    <3> QED  BY <3>2
  <2>2. \A n \in Nat :
          a[n] = IF n = 0 THEN h ELSE IF a[n - 1] \in Cluster THEN f[a[n - 1]] ELSE 0
    BY <2>1, <1>2
  <2>3. a = [n \in Nat |-> a[n]]
    BY <1>2
  <2> QED  BY <2>2, <2>3 DEF NthGrows
<1> DEFINE g == CHOOSE k : NthGrows(k, f, h)
<1>4. NthGrows(g, f, h)
  BY <1>3
<1>5. \A k : NthOf(f, h, k) = g[k]
  BY Zenon DEF NthOf, NthGrows
<1> HIDE DEF g
<1>6. \A n \in Nat : g[n] = IF n = 0 THEN h ELSE IF g[n - 1] \in Cluster THEN f[g[n - 1]] ELSE 0
  BY <1>4 DEF NthGrows
<1>7. ASSUME NEW n \in Nat PROVE g[n + 1] = IF g[n] \in Cluster THEN f[g[n]] ELSE 0
  <2>1. n + 1 \in Nat /\ n + 1 # 0 /\ (n + 1) - 1 = n
    OBVIOUS
  <2> QED  BY <1>6, <2>1
<1>8. g[0] = h
  BY <1>6
<1> QED  BY <1>5, <1>7, <1>8

\* A chain that has a k-th cluster has all those before it.
LEMMA NthBefore ==
  ASSUME NEW f \in [Entries -> FatValue], NEW h \in FatValue, NEW k \in Nat,
         NthOf(f, h, k) \in Cluster, NEW i \in 0..k
  PROVE  /\ NthOf(f, h, i) \in Cluster
         /\ i < k => f[NthOf(f, h, i)] = NthOf(f, h, i + 1)
<1> DEFINE Bad == {n \in Nat : n <= k /\ NthOf(f, h, k - n) \notin Cluster}
<1>1. ASSUME NEW m \in Bad PROVE \E n \in Bad : n < m
  <2>1. m \in Nat /\ m <= k /\ NthOf(f, h, k - m) \notin Cluster
    OBVIOUS
  <2>2. m # 0
    <3> SUFFICES ASSUME m = 0 PROVE FALSE
      OBVIOUS
    <3>1. k - m = k
      OBVIOUS
    <3> QED  BY <2>1, <3>1
  <2>3. k - m \in Nat /\ m - 1 \in Nat /\ m - 1 <= k /\ m - 1 < m /\ k - (m - 1) = (k - m) + 1
    BY <2>1, <2>2
  <2>4. NthOf(f, h, (k - m) + 1) = 0
    BY <2>1, <2>3, NthStep
  <2>5. NthOf(f, h, k - (m - 1)) \notin Cluster
    BY <2>3, <2>4, Numbers
  <2> QED  BY <2>3, <2>5
<1>2. Bad \in SUBSET Nat
  OBVIOUS
<1> HIDE DEF Bad
<1>3. Bad = {}
  BY <1>1, <1>2, NoLeast
<1>4. k - i \in Nat /\ k - i <= k /\ k - (k - i) = i /\ i \in Nat
  OBVIOUS
<1>5. NthOf(f, h, i) \in Cluster
  BY <1>3, <1>4 DEF Bad
<1>6. NthOf(f, h, i + 1) = f[NthOf(f, h, i)]
  BY <1>4, <1>5, NthStep
<1> QED  BY <1>5, <1>6

\* A chain stays as far as it goes, if none of its links changes.
LEMMA NthKept ==
  ASSUME NEW f \in [Entries -> FatValue], NEW g \in [Entries -> FatValue], NEW h \in FatValue,
         NEW k \in Nat, NthOf(f, h, k) \in Cluster,
         \A i \in 0..k : i < k => g[NthOf(f, h, i)] = f[NthOf(f, h, i)]
  PROVE  NthOf(g, h, k) = NthOf(f, h, k)
<1> DEFINE Bad == {n \in 0..k : NthOf(g, h, n) # NthOf(f, h, n)}
<1>1. ASSUME NEW m \in Bad PROVE \E n \in Bad : n < m
  <2>1. m \in Nat /\ m <= k /\ NthOf(g, h, m) # NthOf(f, h, m)
    OBVIOUS
  <2>2. m # 0
    <3>1. NthOf(f, h, 0) = h /\ NthOf(g, h, 0) = h
      BY NthStep
    <3> QED  BY <2>1, <3>1
  <2>3. m - 1 \in Nat /\ m - 1 \in 0..k /\ m - 1 < k /\ m - 1 < m /\ (m - 1) + 1 = m
    BY <2>1, <2>2
  <2>4. NthOf(f, h, m - 1) \in Cluster
    BY <2>3, NthBefore
  <2>5. NthOf(f, h, m) = f[NthOf(f, h, m - 1)] /\ g[NthOf(f, h, m - 1)] = f[NthOf(f, h, m - 1)]
    <3>1. NthOf(f, h, (m - 1) + 1) = f[NthOf(f, h, m - 1)]
      BY <2>3, <2>4, NthStep
    <3> QED  BY <2>3, <3>1
  <2>6. NthOf(g, h, m - 1) # NthOf(f, h, m - 1)
    <3> SUFFICES ASSUME NthOf(g, h, m - 1) = NthOf(f, h, m - 1) PROVE FALSE
      OBVIOUS
    <3>1. NthOf(g, h, (m - 1) + 1) = g[NthOf(g, h, m - 1)]
      BY <2>3, <2>4, NthStep
    <3> QED  BY <3>1, <2>1, <2>3, <2>5
  <2> QED  BY <2>3, <2>6
<1>2. Bad \in SUBSET Nat
  OBVIOUS
<1> HIDE DEF Bad
<1>3. Bad = {}
  BY <1>1, <1>2, NoLeast
<1>4. k \in 0..k
  OBVIOUS
<1> QED  BY <1>3, <1>4 DEF Bad

\* The clusters of a chain are those of its home.
LEMMA NthHome ==
  ASSUME NEW f, NEW home, NEW rank, TableOK(f, home, rank), NEW h \in Cluster, home[h] = h,
         NEW k \in Nat, NthOf(f, h, k) \in Cluster
  PROVE  home[NthOf(f, h, k)] = h
<1>0. f \in [Entries -> FatValue] /\ h \in FatValue
  BY Numbers DEF TableOK
<1> DEFINE Bad == {n \in 0..k : home[NthOf(f, h, n)] # h}
<1>1. ASSUME NEW m \in Bad PROVE \E n \in Bad : n < m
  <2>1. m \in Nat /\ m <= k /\ home[NthOf(f, h, m)] # h
    OBVIOUS
  <2>2. m # 0
    BY <2>1, <1>0, NthStep
  <2>3. m - 1 \in Nat /\ m - 1 \in 0..k /\ m - 1 < k /\ m - 1 < m /\ (m - 1) + 1 = m /\ m \in 0..k
    BY <2>1, <2>2
  <2>4. NthOf(f, h, m - 1) \in Cluster /\ NthOf(f, h, m) \in Cluster
        /\ f[NthOf(f, h, m - 1)] = NthOf(f, h, (m - 1) + 1)
    BY <2>3, <1>0, NthBefore
  <2>5. home[NthOf(f, h, m)] = home[NthOf(f, h, m - 1)]
    BY <2>3, <2>4 DEF TableOK
  <2> QED  BY <2>1, <2>3, <2>5
<1>2. Bad \in SUBSET Nat
  OBVIOUS
<1> HIDE DEF Bad
<1>3. Bad = {}
  BY <1>1, <1>2, NoLeast
<1>4. k \in 0..k
  OBVIOUS
<1> QED  BY <1>3, <1>4 DEF Bad

----------------------------------------------------------------------------
\* Chains long enough.

\* The chain of h has room for z sectors.
Covers(f, h, z) == \A k \in Nat : k * sectorPerCluster < z => NthOf(f, h, k) \in Cluster

\* Every file has room for its content.
SizesOK(f, r) ==
  \A x \in Place : r[x].name \in Names => Covers(f, r[x].cluster, r[x].size)

\* So has every file whose record is about to be written.
Carries(f, v) ==
  \A p \in Pos : v.recs[p].name \in Names => Covers(f, v.recs[p].cluster, v.recs[p].size)

QueuedOK(f, q) == \A i \in DOMAIN q : q[i].w = "sector" => Carries(f, q[i].val)

JobOK(p, j) ==
  \A i \in DOMAIN p : /\ p[i].r = "writeFile" => j.buffer = j.content
                      /\ p[i].r = "read" => j.buffer = <<>>
                      /\ p[i].r = "mkdir" => j.content = <<>>

\* c is the k-th cluster of h, or about to be.
Reaches(f, q, h, k, c) ==
  \/ NthOf(f, h, k) = c
  \/ \E l \in Cluster : k > 0 /\ NthOf(f, h, k - 1) = l /\ Has(q, SetEntry(l, c))

\* The place in the chain says how much is written.
ContentOK(f, q, x, j) ==
  x.r = "content" =>
    /\ Len(j.buffer) <= Len(j.content)
    /\ \E k \in Nat : /\ Len(j.content) - Len(j.buffer) = k * sectorPerCluster + x.sector
                      /\ Reaches(f, q, j.fst, k, x.cluster)

AddOK(f, x, j) == x.r = "add" => Covers(f, j.fst, Len(j.content))

\* What was read is the beginning of the file; the place in the chain says
\* how much, and nothing is written before the end.
ReadOK(f, d, r, q, x, j) ==
  x.r = "readFile" =>
    LET e == r[j.hit]
    IN  /\ Len(j.buffer) <= e.size
        /\ \A k \in Nat, s \in Sector :
             k * sectorPerCluster + s < Len(j.buffer) =>
               j.buffer[k * sectorPerCluster + s + 1] = d[NthOf(f, e.cluster, k)][s].text
        /\ Len(j.buffer) < e.size =>
             /\ q = <<>>
             /\ \E k \in Nat : /\ Len(j.buffer) = k * sectorPerCluster + x.sector
                               /\ NthOf(f, e.cluster, k) = x.cluster

\* The routine on top, unless it has stopped for good.
TopOK(f, d, r, q, p, j, stopped) ==
  ~stopped /\ p # <<>> =>
    ContentOK(f, q, p[1], j) /\ AddOK(f, p[1], j) /\ ReadOK(f, d, r, q, p[1], j)

SizedOK(f, d, r, q, p, j, stopped) ==
  SizesOK(f, r) /\ QueuedOK(f, q) /\ JobOK(p, j) /\ TopOK(f, d, r, q, p, j, stopped)

SInv == DInv /\ SizedOK(Links, data, Recs, todo, pc, job, halted)

----------------------------------------------------------------------------
\* Places in a chain.

LEMMA Multiple ==
  ASSUME NEW a \in Nat, NEW b \in Nat
  PROVE  /\ a * sectorPerCluster \in Nat /\ sectorPerCluster \in Nat \ {0}
         /\ (a + 1) * sectorPerCluster = a * sectorPerCluster + sectorPerCluster
         /\ a < b => a * sectorPerCluster + sectorPerCluster <= b * sectorPerCluster
<1>1. sectorPerCluster \in Nat \ {0}
  BY Fat32Assumption
<1>2. a * sectorPerCluster \in Nat
  BY <1>1
<1>3. (a + 1) * sectorPerCluster = a * sectorPerCluster + sectorPerCluster
  BY <1>1
<1>4. ASSUME a < b PROVE a * sectorPerCluster + sectorPerCluster <= b * sectorPerCluster
  <2>1. PICK k \in Nat : b = a + 1 + k
    <3>1. b - a - 1 \in Nat /\ b = a + 1 + (b - a - 1)
      BY <1>4
    <3> QED  BY <3>1
  <2>2. b * sectorPerCluster = a * sectorPerCluster + sectorPerCluster + k * sectorPerCluster
    BY <2>1, <1>1
  <2>3. k * sectorPerCluster \in Nat
    BY <1>1
  <2> QED  BY <2>2, <2>3, <1>1, <1>2
<1> QED  BY <1>1, <1>2, <1>3, <1>4

\* A chain that reaches the place of sector w covers the w before it.
LEMMA CoversTo ==
  ASSUME NEW f \in [Entries -> FatValue], NEW h \in FatValue, NEW w \in Nat, NEW k \in Nat,
         NEW s \in Sector, w = k * sectorPerCluster + s, NthOf(f, h, k) \in Cluster
  PROVE  Covers(f, h, w)
<1> SUFFICES ASSUME NEW i \in Nat, i * sectorPerCluster < w PROVE NthOf(f, h, i) \in Cluster
  BY DEF Covers
<1>1. i <= k
  <2> SUFFICES ASSUME k < i PROVE FALSE
    OBVIOUS
  <2>1. k * sectorPerCluster + sectorPerCluster <= i * sectorPerCluster
        /\ k * sectorPerCluster \in Nat /\ i * sectorPerCluster \in Nat
        /\ sectorPerCluster \in Nat
    BY Multiple
  <2>2. s \in Nat /\ s < sectorPerCluster
    BY <2>1 DEF Sector
  <2> DEFINE a == k * sectorPerCluster
             b == i * sectorPerCluster
  <2>3. a \in Nat /\ b \in Nat /\ sectorPerCluster \in Nat /\ a + sectorPerCluster <= b
        /\ w = a + s /\ b < w
    BY <2>1
  <2> HIDE DEF a, b
  <2> QED  BY <2>2, <2>3
<1>2. i \in 0..k
  BY <1>1
<1> QED  BY <1>2, NthBefore

LEMMA CoversNone == ASSUME NEW f, NEW h PROVE Covers(f, h, 0)
<1> SUFFICES ASSUME NEW i \in Nat, i * sectorPerCluster < 0 PROVE FALSE
  BY DEF Covers
<1> QED  BY Multiple

\* A table in which chains only grow.
Grown(f, g) ==
  /\ f \in [Entries -> FatValue] /\ g \in [Entries -> FatValue]
  /\ \A c \in Cluster : f[c] \in Cluster => g[c] = f[c]

LEMMA NthGrown ==
  ASSUME NEW f, NEW g, Grown(f, g), NEW h \in FatValue, NEW k \in Nat, NthOf(f, h, k) \in Cluster
  PROVE  NthOf(g, h, k) = NthOf(f, h, k)
<1>1. f \in [Entries -> FatValue] /\ g \in [Entries -> FatValue]
  BY DEF Grown
<1>2. \A i \in 0..k : i < k => g[NthOf(f, h, i)] = f[NthOf(f, h, i)]
  <2> SUFFICES ASSUME NEW i \in 0..k, i < k PROVE g[NthOf(f, h, i)] = f[NthOf(f, h, i)]
    OBVIOUS
  <2>1. i + 1 \in 0..k
    OBVIOUS
  <2>2. NthOf(f, h, i) \in Cluster /\ f[NthOf(f, h, i)] = NthOf(f, h, i + 1)
    BY <1>1, NthBefore
  <2>3. NthOf(f, h, i + 1) \in Cluster
    BY <1>1, <2>1, NthBefore
  <2> QED  BY <2>2, <2>3 DEF Grown
<1> QED  BY <1>1, <1>2, NthKept

LEMMA CoversGrown ==
  ASSUME NEW f, NEW g, Grown(f, g), NEW h \in FatValue, NEW z, Covers(f, h, z)
  PROVE  Covers(g, h, z)
BY NthGrown DEF Covers

\* A cluster of another home is freed.
LEMMA CoversFreed ==
  ASSUME NEW f, NEW home, NEW rank, TableOK(f, home, rank), NEW g \in [Entries -> FatValue],
         NEW h \in {0} \cup Cluster, h = 0 \/ home[h] = h,
         \A c \in Cluster : home[c] = h => g[c] = f[c],
         NEW z, Covers(f, h, z)
  PROVE  Covers(g, h, z)
<1>0. f \in [Entries -> FatValue] /\ h \in FatValue
  BY Numbers DEF TableOK
<1> SUFFICES ASSUME NEW k \in Nat, k * sectorPerCluster < z PROVE NthOf(g, h, k) \in Cluster
  BY DEF Covers
<1>1. NthOf(f, h, k) \in Cluster
  BY DEF Covers
<1>2. h \in Cluster /\ home[h] = h
  <2>1. NthOf(f, h, 0) = h /\ NthOf(f, h, 0) \in Cluster
    BY <1>0, <1>1, NthStep, NthBefore
  <2> QED  BY <2>1, Numbers
<1>3. \A i \in 0..k : i < k => g[NthOf(f, h, i)] = f[NthOf(f, h, i)]
  <2> SUFFICES ASSUME NEW i \in 0..k, i < k PROVE g[NthOf(f, h, i)] = f[NthOf(f, h, i)]
    OBVIOUS
  <2>1. NthOf(f, h, i) \in Cluster /\ i \in Nat
    BY <1>0, <1>1, NthBefore
  <2>2. home[NthOf(f, h, i)] = h
    BY <2>1, <1>2, NthHome
  <2> QED  BY <2>1, <2>2
<1>4. NthOf(g, h, k) = NthOf(f, h, k)
  BY <1>0, <1>1, <1>3, NthKept
<1> QED  BY <1>1, <1>4

----------------------------------------------------------------------------
\* The sector writes.

\* What the first write of the queue leaves of it.
LEMMA RestQueued ==
  ASSUME NEW f, NEW q \in Seq(Write), q # <<>>, QueuedOK(f, q)
  PROVE  QueuedOK(f, Tail(q))
BY Rest DEF QueuedOK

LEMMA RestReaches ==
  ASSUME NEW f, NEW q \in Seq(Write), q # <<>>, NEW h, NEW k, NEW c, Reaches(f, q, h, k, c),
         q[1].w # "entry"
  PROVE  Reaches(f, Tail(q), h, k, c)
<1>1. CASE NthOf(f, h, k) = c
  BY <1>1 DEF Reaches
<1>2. ASSUME NEW l \in Cluster, k > 0, NthOf(f, h, k - 1) = l, Has(q, SetEntry(l, c))
      PROVE  Reaches(f, Tail(q), h, k, c)
  <2>1. q[1] # SetEntry(l, c)
    BY DEF SetEntry
  <2>2. Has(Tail(q), SetEntry(l, c))
    BY <1>2, <2>1, Rest
  <2> QED  BY <1>2, <2>2 DEF Reaches
<1> QED  BY <1>1, <1>2 DEF Reaches

\* The record of a file that is read, and its chain.
LEMMA ReadKnown ==
  ASSUME NEW f, NEW r, NEW home, NEW rank, NEW anc, NEW cur, NEW q, NEW p, NEW j,
         DiskOK(f, r, home, rank, anc, cur, q, p, j), SizesOK(f, r),
         p # <<>>, p[1].r = "readFile"
  PROVE  /\ j.hit \in Place /\ home[j.hit.cluster] = cur /\ Anchored(r, cur)
         /\ r[j.hit].name \in Names /\ r[j.hit].cluster \in FatValue
         /\ r[j.hit].size \in Nat /\ j.buffer \in Seq(TextType)
         /\ Covers(f, r[j.hit].cluster, r[j.hit].size) /\ Plain(q)
         /\ \A k \in Nat : NthOf(f, r[j.hit].cluster, k) \in Cluster =>
              Anchored(r, home[NthOf(f, r[j.hit].cluster, k)])
<1>1. FrameOK(f, r, home, anc, cur, q, j, p[1]) /\ j \in JobType /\ p \in Seq(FrameType)
  <2>1. FramesOK(f, r, home, anc, cur, q, p, j)
    BY DEF DiskOK
  <2>2. p \in Seq(FrameType)
    BY <2>1 DEF FramesOK
  <2>3. 1 \in DOMAIN p
    BY <2>2
  <2> QED  BY <2>1, <2>2, <2>3 DEF FramesOK
<1>2. j.hit # NOWHERE /\ HitOK(r, home, cur, j) /\ r[j.hit].name \in Names /\ Plain(q)
  BY <1>1 DEF FrameOK, Freeing
<1>3. j.hit \in Place /\ home[j.hit.cluster] = cur /\ j.buffer \in Seq(TextType)
  BY <1>1, <1>2 DEF JobType, HitOK
<1>4. Anchored(r, cur) /\ TableOK(f, home, rank) /\ RecordsOK(f, r, home)
  BY PathAnchored DEF DiskOK
<1>5. r[j.hit] \in RecType
  BY <1>3, <1>4 DEF RecordsOK
<1>6. r[j.hit].cluster \in {0} \cup Cluster /\ r[j.hit].size \in Nat
  BY <1>5 DEF RecType
<1>7. r[j.hit].cluster \in FatValue
  BY <1>6, Numbers
<1>8. Covers(f, r[j.hit].cluster, r[j.hit].size)
  BY <1>2, <1>3 DEF SizesOK
<1>9. ASSUME NEW k \in Nat, NthOf(f, r[j.hit].cluster, k) \in Cluster
      PROVE  Anchored(r, home[NthOf(f, r[j.hit].cluster, k)])
  <2> DEFINE h == r[j.hit].cluster
  <2>1. f \in [Entries -> FatValue]
    BY <1>4 DEF TableOK
  <2>2. h # 0
    <3>1. NthOf(f, h, 0) = h /\ NthOf(f, h, 0) \in Cluster
      BY <1>7, <1>9, <2>1, NthStep, NthBefore
    <3> QED  BY <3>1, Numbers
  <2>3. Anchored(r, h) /\ home[h] = h /\ h \in Cluster
    BY <1>2, <1>3, <1>4, <1>6, <2>2 DEF RecordsOK, Anchored, Owned, Owner
  <2>4. home[NthOf(f, h, k)] = h
    BY <1>4, <1>9, <2>3, NthHome
  <2> QED  BY <2>3, <2>4
<1> QED  BY <1>2, <1>3, <1>4, <1>6, <1>7, <1>8, <1>9

LEMMA CopySized ==
  ASSUME NEW f, NEW d, NEW r, NEW q \in Seq(Write), NEW p, NEW j, NEW st,
         SizedOK(f, d, r, q, p, j, st), q # <<>>, q[1].w = "copy"
  PROVE  SizedOK(f, d, r, Tail(q), p, j, st)
<1>1. QueuedOK(f, Tail(q))
  BY RestQueued DEF SizedOK
<1>2. ASSUME ~st, p # <<>> PROVE ContentOK(f, Tail(q), p[1], j) /\ AddOK(f, p[1], j)
                                 /\ ReadOK(f, d, r, Tail(q), p[1], j)
  <2>1. ContentOK(f, q, p[1], j) /\ AddOK(f, p[1], j) /\ ReadOK(f, d, r, q, p[1], j)
    BY <1>2 DEF SizedOK, TopOK
  <2>2. ContentOK(f, Tail(q), p[1], j)
    BY <2>1, RestReaches DEF ContentOK
  <2>3. ReadOK(f, d, r, Tail(q), p[1], j)
    BY <2>1 DEF ReadOK
  <2> QED  BY <2>1, <2>2, <2>3
<1> QED  BY <1>1, <1>2 DEF SizedOK, TopOK

LEMMA EntrySized ==
  ASSUME NEW f, NEW d, NEW r, NEW home, NEW rank, NEW anc, NEW cur, NEW q, NEW p, NEW j, NEW st,
         DiskOK(f, r, home, rank, anc, cur, q, p, j), SizedOK(f, d, r, q, p, j, st),
         q # <<>>, q[1].w = "entry"
  PROVE  SizedOK([f EXCEPT ![q[1].cluster] = q[1].val], d, r, Tail(q), p, j, st)
<1> DEFINE c == q[1].cluster
           v == q[1].val
           g == [f EXCEPT ![c] = v]
<1>0. /\ q \in Seq(Write) /\ 1 \in DOMAIN q /\ q[1] \in EntryWrite
      /\ EntryOK(f, r, home, anc, q, j.fst, 1) /\ q[1] = SetEntry(c, v)
      /\ TableOK(f, home, rank) /\ RecordsOK(f, r, home)
  <2>1. QueueOK(f, r, home, anc, cur, q, j.fst) /\ TableOK(f, home, rank) /\ RecordsOK(f, r, home)
    BY DEF DiskOK
  <2>2. q \in Seq(Write)
    BY <2>1 DEF QueueOK
  <2>3. 1 \in DOMAIN q /\ q[1] \in Write
    BY <2>2, Rest
  <2> QED  BY <2>1, <2>2, <2>3, WriteKinds DEF QueueOK
<1>1. c \in Entries /\ v \in {FREE, END_CLUSTER} \cup Cluster
  BY <1>0 DEF EntryWrite
<1>2. f \in [Entries -> FatValue] /\ g \in [Entries -> FatValue]
  BY <1>0, <1>1, Numbers DEF TableOK
<1>3. g[c] = v /\ \A b \in Entries : b # c => g[b] = f[b]
  BY <1>1, <1>2
<1>4. SizesOK(f, r) /\ QueuedOK(f, q) /\ JobOK(p, j) /\ TopOK(f, d, r, q, p, j, st)
  BY DEF SizedOK
<1> HIDE DEF g
<1>5. CASE v = FREE
  <2>1. FreeOK(f, r, home, anc, c) /\ \A m \in DOMAIN q : m # 1 => q[m].w = "copy"
    BY <1>0, <1>5, Numbers DEF EntryOK
  <2>2. SizesOK(g, r)
    <3> SUFFICES ASSUME NEW x \in Place, r[x].name \in Names
                 PROVE  Covers(g, r[x].cluster, r[x].size)
      BY DEF SizesOK
    <3> DEFINE h == r[x].cluster
    <3>1. h \in {0} \cup Cluster /\ (h = 0 \/ home[h] = h)
      BY <1>0 DEF RecordsOK, RecType
    <3>2. \A b \in Cluster : home[b] = h => g[b] = f[b]
      <4> SUFFICES ASSUME NEW b \in Cluster, home[b] = h PROVE b # c
        BY <1>3, Numbers
      <4>1. CASE c = 0
        BY <4>1, Numbers
      <4>2. CASE c # 0
        BY <4>2, <2>1 DEF FreeOK, Owned, Owner
      <4> QED  BY <4>1, <4>2
    <3>3. Covers(f, h, r[x].size)
      BY <1>4 DEF SizesOK
    <3> HIDE DEF h
    <3>4. Covers(g, h, r[x].size)
      BY <1>0, <1>2, <3>1, <3>2, <3>3, CoversFreed
    <3> QED  BY <3>4 DEF h
  <2>3. QueuedOK(g, Tail(q))
    <3> SUFFICES ASSUME NEW i \in DOMAIN Tail(q), Tail(q)[i].w = "sector" PROVE FALSE
      BY DEF QueuedOK
    <3>1. i + 1 \in DOMAIN q /\ Tail(q)[i] = q[i + 1] /\ i \in Nat /\ i # 0
      <4>1. Tail(q) \in Seq(Write)
        BY <1>0, Rest
      <4> QED  BY <1>0, <4>1, Rest
    <3> QED  BY <3>1, <2>1
  <2>4. TopOK(g, d, r, Tail(q), p, j, st)
    <3> SUFFICES ASSUME p # <<>> PROVE p[1].r \notin {"content", "add", "readFile"}
      BY DEF TopOK, ContentOK, AddOK, ReadOK
    <3>1. FramesOK(f, r, home, anc, cur, q, p, j)
      BY DEF DiskOK
    <3>2. p \in Seq(FrameType)
      BY <3>1 DEF FramesOK
    <3>3. 1 \in DOMAIN p
      BY <3>2
    <3>4. FrameOK(f, r, home, anc, cur, q, j, p[1])
      BY <3>1, <3>3 DEF FramesOK
    <3>5. p[1].r \in Freeing
      BY <3>4, <1>0, <1>5 DEF FrameOK
    <3> QED  BY <3>5 DEF Freeing
  <2> QED  BY <2>2, <2>3, <2>4, <1>4 DEF SizedOK, g
<1>6. CASE v # FREE
  <2>1. c \in Cluster /\ f[c] \notin Cluster
    <3>1. CASE v = END_CLUSTER
      <4>1. MarkOK(f, c)
        BY <1>0, <3>1, Numbers DEF EntryOK
      <4> QED  BY <4>1, Numbers DEF MarkOK
    <3>2. CASE v # END_CLUSTER
      <4>1. LinkOK(f, r, home, q, j.fst, c, v)
        BY <1>0, <1>6, <3>2, Numbers DEF EntryOK
      <4> QED  BY <4>1, Numbers DEF LinkOK
    <3> QED  BY <3>1, <3>2
  <2>2. Grown(f, g)
    BY <1>2, <1>3, <2>1, Numbers DEF Grown
  <2>3. SizesOK(g, r)
    <3> SUFFICES ASSUME NEW x \in Place, r[x].name \in Names
                 PROVE  Covers(g, r[x].cluster, r[x].size)
      BY DEF SizesOK
    <3>1. r[x].cluster \in FatValue
      BY <1>0, Numbers DEF RecordsOK, RecType
    <3>2. Covers(f, r[x].cluster, r[x].size)
      BY <1>4 DEF SizesOK
    <3> QED  BY <2>2, <3>1, <3>2, CoversGrown
  <2>4. QueuedOK(g, Tail(q))
    <3> SUFFICES ASSUME NEW i \in DOMAIN Tail(q), Tail(q)[i].w = "sector", NEW o \in Pos,
                        Tail(q)[i].val.recs[o].name \in Names
                 PROVE  Covers(g, Tail(q)[i].val.recs[o].cluster, Tail(q)[i].val.recs[o].size)
      BY DEF QueuedOK, Carries
    <3> DEFINE e == Tail(q)[i].val.recs[o]
    <3>1. QueuedOK(f, Tail(q)) /\ Tail(q) \in Seq(Write)
      BY <1>0, <1>4, RestQueued, Rest
    <3>2. Covers(f, e.cluster, e.size)
      BY <3>1 DEF QueuedOK, Carries
    <3>3. e \in RecType
      <4>1. Tail(q)[i] \in Write
        BY <3>1
      <4>2. Tail(q)[i] \in SectorWrite
        BY <4>1, WriteKinds
      <4> QED  BY <4>2 DEF SectorWrite, SecType
    <3>4. e.cluster \in FatValue
      BY <3>3, Numbers DEF RecType
    <3> HIDE DEF e
    <3>5. Covers(g, e.cluster, e.size)
      BY <2>2, <3>2, <3>4, CoversGrown
    <3> QED  BY <3>5 DEF e
  <2>5. ASSUME ~st, p # <<>>
        PROVE  /\ ContentOK(g, Tail(q), p[1], j) /\ AddOK(g, p[1], j)
               /\ ReadOK(g, d, r, Tail(q), p[1], j)
    <3>0. /\ ContentOK(f, q, p[1], j) /\ AddOK(f, p[1], j) /\ ReadOK(f, d, r, q, p[1], j)
      BY <1>4, <2>5 DEF TopOK
    <3>1. /\ FrameOK(f, r, home, anc, cur, q, j, p[1]) /\ j \in JobType
          /\ j.fst \in FatValue
      <4>1. FramesOK(f, r, home, anc, cur, q, p, j)
        BY DEF DiskOK
      <4>2. p \in Seq(FrameType) /\ j \in JobType
        BY <4>1 DEF FramesOK
      <4>3. 1 \in DOMAIN p
        BY <4>2, <2>5
      <4> QED  BY <4>1, <4>2, <4>3, Numbers DEF FramesOK, JobType
    <3>2. ContentOK(g, Tail(q), p[1], j)
      <4> SUFFICES ASSUME p[1].r = "content", NEW k \in Nat, Reaches(f, q, j.fst, k, p[1].cluster)
                   PROVE  Reaches(g, Tail(q), j.fst, k, p[1].cluster)
        BY <3>0 DEF ContentOK
      <4>1. p[1].cluster \in Cluster
        BY <3>1 DEF FrameOK, At
      <4>2. CASE NthOf(f, j.fst, k) = p[1].cluster
        <5>1. NthOf(g, j.fst, k) = NthOf(f, j.fst, k)
          BY <2>2, <3>1, <4>1, <4>2, NthGrown
        <5> QED  BY <5>1, <4>2 DEF Reaches
      <4>3. ASSUME NEW l \in Cluster, k > 0, NthOf(f, j.fst, k - 1) = l,
                   Has(q, SetEntry(l, p[1].cluster))
            PROVE  Reaches(g, Tail(q), j.fst, k, p[1].cluster)
        <5>1. k - 1 \in Nat /\ (k - 1) + 1 = k
          BY <4>3
        <5>2. NthOf(g, j.fst, k - 1) = l
          BY <2>2, <3>1, <4>3, <5>1, NthGrown
        <5>3. CASE Has(Tail(q), SetEntry(l, p[1].cluster))
          BY <5>2, <5>3, <4>3 DEF Reaches
        <5>4. CASE q[1] = SetEntry(l, p[1].cluster)
          <6>1. c = l /\ v = p[1].cluster
            BY <5>4 DEF SetEntry
          <6>2. NthOf(g, j.fst, (k - 1) + 1) = g[l]
            BY <1>2, <3>1, <5>1, <5>2, NthStep
          <6>3. NthOf(g, j.fst, k) = p[1].cluster
            BY <6>1, <6>2, <5>1, <1>3
          <6> QED  BY <6>3 DEF Reaches
        <5> QED  BY <5>3, <5>4, <4>3, <1>0, Rest
      <4> QED  BY <4>2, <4>3 DEF Reaches
    <3>3. AddOK(g, p[1], j)
      BY <3>0, <3>1, <2>2, CoversGrown DEF AddOK
    <3>4. ReadOK(g, d, r, Tail(q), p[1], j)
      <4> SUFFICES ASSUME p[1].r = "readFile" PROVE ReadOK(g, d, r, Tail(q), p[1], j)
        BY DEF ReadOK
      <4> DEFINE e == r[j.hit]
      <4>1. /\ e.cluster \in FatValue /\ e.size \in Nat /\ Len(j.buffer) \in Nat
            /\ Covers(f, e.cluster, e.size)
        BY <1>4, <2>5, ReadKnown
      <4>2. /\ Len(j.buffer) <= e.size /\ ~(Len(j.buffer) < e.size)
            /\ \A k \in Nat, s \in Sector :
                 k * sectorPerCluster + s < Len(j.buffer) =>
                   j.buffer[k * sectorPerCluster + s + 1] = d[NthOf(f, e.cluster, k)][s].text
        BY <3>0 DEF ReadOK
      <4> HIDE DEF e
      <4>3. ASSUME NEW k \in Nat, NEW s \in Sector, k * sectorPerCluster + s < Len(j.buffer)
            PROVE  NthOf(g, e.cluster, k) = NthOf(f, e.cluster, k)
        <5>0. s \in Nat
          BY Fat32Assumption DEF Sector
        <5>1. k * sectorPerCluster \in Nat /\ s \in Nat
          BY <5>0, Multiple
        <5>2. k * sectorPerCluster < e.size
          <6> DEFINE a == k * sectorPerCluster
          <6>1. a \in Nat /\ s \in Nat /\ a + s < Len(j.buffer) /\ Len(j.buffer) <= e.size
                /\ Len(j.buffer) \in Nat /\ e.size \in Nat
            BY <4>1, <4>2, <4>3, <5>1
          <6> HIDE DEF a
          <6>2. a < e.size
            BY ONLY <6>1
          <6> QED  BY <6>2 DEF a
        <5>3. NthOf(f, e.cluster, k) \in Cluster
          BY <4>1, <5>2 DEF Covers
        <5> QED  BY <5>3, <2>2, <4>1, NthGrown
      <4> QED  BY <4>2, <4>3 DEF ReadOK, e
    <3> QED  BY <3>2, <3>3, <3>4
  <2> QED  BY <2>3, <2>4, <2>5, <1>4 DEF SizedOK, TopOK, g
<1> QED  BY <1>5, <1>6

\* A sector is written blank, or with one record changed.
Resectored(r, c, s, v) ==
  [y \in Place |-> IF y.cluster = c /\ y.sector = s THEN v.recs[y.pos] ELSE r[y]]

LEMMA SectorSized ==
  ASSUME NEW f, NEW d, NEW r, NEW home, NEW rank, NEW anc, NEW cur, NEW q, NEW p, NEW j, NEW st,
         DiskOK(f, r, home, rank, anc, cur, q, p, j), SizedOK(f, d, r, q, p, j, st),
         d \in [Cluster -> [Sector -> SecType]], q # <<>>, q[1].w = "sector"
  PROVE  SizedOK(f, [d EXCEPT ![q[1].cluster][q[1].sector] = q[1].val],
                 Resectored(r, q[1].cluster, q[1].sector, q[1].val), Tail(q), p, j, st)
<1> DEFINE c == q[1].cluster
           s == q[1].sector
           v == q[1].val
           t == Resectored(r, c, s, v)
           e == [d EXCEPT ![c][s] = v]
<1>0. /\ q \in Seq(Write) /\ 1 \in DOMAIN q /\ q[1] \in SectorWrite
      /\ SectorOK(f, r, home, anc, cur, q, 1)
  <2>1. QueueOK(f, r, home, anc, cur, q, j.fst)
    BY DEF DiskOK
  <2>2. q \in Seq(Write)
    BY <2>1 DEF QueueOK
  <2>3. 1 \in DOMAIN q /\ q[1] \in Write
    BY <2>2, Rest
  <2> QED  BY <2>1, <2>2, <2>3, WriteKinds DEF QueueOK
<1>1. c \in Cluster /\ s \in Sector /\ v \in SecType
  BY <1>0 DEF SectorWrite
<1>2. SizesOK(f, r) /\ QueuedOK(f, q) /\ JobOK(p, j) /\ TopOK(f, d, r, q, p, j, st)
  BY DEF SizedOK
<1>3. \A y \in Place : t[y] = IF y.cluster = c /\ y.sector = s THEN v.recs[y.pos] ELSE r[y]
  BY DEF Resectored
<1>4. \A b \in Cluster, o \in Sector : b # c => e[b][o] = d[b][o]
  BY <1>1
<1> HIDE DEF t, e
<1>5. SizesOK(f, t)
  <2> SUFFICES ASSUME NEW x \in Place, t[x].name \in Names
               PROVE  Covers(f, t[x].cluster, t[x].size)
    BY DEF SizesOK
  <2>1. CASE x.cluster = c /\ x.sector = s
    <3>1. t[x] = v.recs[x.pos] /\ x.pos \in Pos
      BY <1>3, <2>1 DEF Place
    <3>2. Carries(f, v)
      BY <1>0, <1>2 DEF QueuedOK
    <3> QED  BY <3>1, <3>2 DEF Carries
  <2>2. CASE ~(x.cluster = c /\ x.sector = s)
    <3>1. t[x] = r[x]
      BY <1>3, <2>2
    <3> QED  BY <3>1, <1>2 DEF SizesOK
  <2> QED  BY <2>1, <2>2
<1>6. QueuedOK(f, Tail(q))
  BY <1>0, <1>2, RestQueued
<1>7. ASSUME ~st, p # <<>> PROVE ContentOK(f, Tail(q), p[1], j) /\ AddOK(f, p[1], j)
                                 /\ ReadOK(f, e, t, Tail(q), p[1], j)
  <2>1. ContentOK(f, q, p[1], j) /\ AddOK(f, p[1], j) /\ ReadOK(f, d, r, q, p[1], j)
    BY <1>2, <1>7 DEF TopOK
  <2>2. ContentOK(f, Tail(q), p[1], j)
    BY <1>0, <2>1, RestReaches DEF ContentOK
  <2>3. ReadOK(f, e, t, Tail(q), p[1], j)
    <3> SUFFICES ASSUME p[1].r = "readFile" PROVE ReadOK(f, e, t, Tail(q), p[1], j)
      BY DEF ReadOK
    <3> DEFINE z == r[j.hit]
    <3>1. /\ j.hit \in Place /\ home[j.hit.cluster] = cur /\ Anchored(r, cur)
          /\ z.cluster \in FatValue /\ z.size \in Nat /\ Len(j.buffer) \in Nat
          /\ Covers(f, z.cluster, z.size) /\ Plain(q)
          /\ \A k \in Nat : NthOf(f, z.cluster, k) \in Cluster =>
               Anchored(r, home[NthOf(f, z.cluster, k)])
      BY <1>2, <1>7, ReadKnown
    <3>2. ~Anchored(r, home[c])
      <4>1. \A o \in Pos : v.recs[o] = ZeroRec
        BY <1>0, <3>1 DEF Plain
      <4>2. ASSUME NEW o \in Pos, RecordOK(f, r, home, anc, cur, Spot(c, s, o), v.recs[o])
            PROVE  FALSE
        <5>1. v.recs[o].name \in Names \cup {DOT, DOTDOT, REMOVED}
          <6>1. r[Spot(c, s, o)] \in RecType
            BY <1>1 DEF DiskOK, RecordsOK, Spot, Place
          <6> QED  BY <4>2, <6>1 DEF RecordOK, NameAdded, DotAdded, DotDotAdded, NameRemoved, RecType
        <5> QED  BY <5>1, <4>1, NamesKnown
      <4> QED  BY <1>0, <4>2 DEF SectorOK
    <3>3. t[j.hit] = z
      <4>1. j.hit.cluster # c
        BY <3>1, <3>2
      <4> QED  BY <4>1, <3>1, <1>3
    <3>4. /\ Len(j.buffer) <= z.size /\ ~(Len(j.buffer) < z.size)
          /\ \A k \in Nat, o \in Sector :
               k * sectorPerCluster + o < Len(j.buffer) =>
                 j.buffer[k * sectorPerCluster + o + 1] = d[NthOf(f, z.cluster, k)][o].text
      BY <2>1 DEF ReadOK
    <3> HIDE DEF z
    <3>5. ASSUME NEW k \in Nat, NEW o \in Sector, k * sectorPerCluster + o < Len(j.buffer)
          PROVE  e[NthOf(f, z.cluster, k)][o] = d[NthOf(f, z.cluster, k)][o]
      <4>0. o \in Nat
        BY Fat32Assumption DEF Sector
      <4>1. k * sectorPerCluster \in Nat
        BY Multiple
      <4>2. k * sectorPerCluster < z.size
        <5> DEFINE a == k * sectorPerCluster
        <5>1. a \in Nat /\ o \in Nat /\ a + o < Len(j.buffer) /\ Len(j.buffer) <= z.size
              /\ Len(j.buffer) \in Nat /\ z.size \in Nat
          BY <3>1, <3>4, <3>5, <4>0, <4>1
        <5> HIDE DEF a
        <5>2. a < z.size
          BY ONLY <5>1
        <5> QED  BY <5>2 DEF a
      <4>3. NthOf(f, z.cluster, k) \in Cluster
        BY <3>1, <4>2 DEF Covers
      <4>4. NthOf(f, z.cluster, k) # c
        BY <3>1, <3>2, <4>3
      <4> QED  BY <1>4, <4>3, <4>4
    <3> QED  BY <3>3, <3>4, <3>5 DEF ReadOK, z
  <2> QED  BY <2>1, <2>2, <2>3
<1> QED  BY <1>2, <1>5, <1>6, <1>7 DEF SizedOK, TopOK, t, e

\* What an entry, a copy and a sector write change.
LEMMA Written ==
  ASSUME Types, todo \in Seq(Write), todo # <<>>, writeDiskSector
  PROVE  /\ todo' = Tail(todo) /\ pc' = pc /\ job' = job /\ halted' = halted
         /\ \/ /\ todo[1].w = "entry" /\ data' = data /\ Recs' = Recs
               /\ Links' = [Links EXCEPT ![todo[1].cluster] = todo[1].val]
            \/ /\ todo[1].w = "copy" /\ data' = data /\ Recs' = Recs /\ Links' = Links
            \/ /\ todo[1].w = "sector" /\ Links' = Links
               /\ data' = [data EXCEPT ![todo[1].cluster][todo[1].sector] = todo[1].val]
               /\ Recs' = Resectored(Recs, todo[1].cluster, todo[1].sector, todo[1].val)
<1> DEFINE t == todo[1]
<1>1. /\ todo' = Tail(todo) /\ pc' = pc /\ job' = job /\ halted' = halted
  BY DEF writeDiskSector
<1>2. Head(todo) = t /\ t \in Write
  BY Rest
<1>3. CASE t.w = "entry" /\ fat' = [fat EXCEPT ![1][t.cluster] = t.val] /\ UNCHANGED data
  <2>1. Links' = [Links EXCEPT ![t.cluster] = t.val] /\ Recs' = Recs
    BY <1>3, OneCopy DEF Types, Links, Recs, Rec
  <2> QED  BY <1>1, <1>3, <2>1
<1>4. CASE /\ t.w = "copy" /\ UNCHANGED data
           /\ fat' = [fat EXCEPT ![t.copy] =
                        [c \in Entries |-> IF SameFatSector(c, t.cluster)
                                           THEN fat[1][c] ELSE @[c]]]
  <2>1. t.copy \in Copy /\ t.copy # 1
    BY <1>2, <1>4, WriteKinds, OneCopy DEF CopyWrite
  <2>2. Links' = Links /\ Recs' = Recs
    BY <1>4, <2>1, OneCopy DEF Types, Links, Recs, Rec
  <2> QED  BY <1>1, <1>4, <2>2
<1>5. CASE /\ t.w = "sector" /\ UNCHANGED fat
           /\ data' = [data EXCEPT ![t.cluster][t.sector] = t.val]
  <2>1. t.cluster \in Cluster /\ t.sector \in Sector
    BY <1>2, <1>5, WriteKinds DEF SectorWrite
  <2>2. ASSUME NEW y \in Place
        PROVE  data'[y.cluster][y.sector].recs[y.pos] =
                 IF y.cluster = t.cluster /\ y.sector = t.sector THEN t.val.recs[y.pos]
                 ELSE data[y.cluster][y.sector].recs[y.pos]
    BY <1>5, <2>1 DEF Types, Place
  <2>3. Links' = Links
    BY <1>5 DEF Links
  <2>4. Recs' = Resectored(Recs, t.cluster, t.sector, t.val)
    BY <2>2 DEF Recs, Rec, Resectored
  <2> QED  BY <1>1, <1>5, <2>3, <2>4
<1> QED  BY <1>2, <1>3, <1>4, <1>5 DEF writeDiskSector

Sized == SizedOK(Links, data, Recs, todo, pc, job, halted)

LEMMA WriteSized == ASSUME SInv, writeDiskSector PROVE Sized'
<1>1. DInv /\ Types /\ SizedOK(Links, data, Recs, todo, pc, job, halted)
  BY DEF SInv, DInv
<1>2. PICK home, rank, anc :
        DiskOK(Links, Recs, home, rank, anc, currentCluster, todo, pc, job)
  BY <1>1, Unprimed
<1>3. todo \in Seq(Write) /\ todo # <<>> /\ data \in [Cluster -> [Sector -> SecType]]
  BY <1>1, <1>2 DEF DiskOK, QueueOK, writeDiskSector, Types
<1>4. CASE /\ todo[1].w = "entry" /\ data' = data /\ Recs' = Recs
           /\ Links' = [Links EXCEPT ![todo[1].cluster] = todo[1].val]
  <2>1. SizedOK([Links EXCEPT ![todo[1].cluster] = todo[1].val], data, Recs, Tail(todo), pc, job,
                halted)
    BY <1>1, <1>2, <1>3, <1>4, EntrySized
  <2> QED  BY <2>1, <1>1, <1>3, <1>4, Written DEF Sized
<1>5. CASE todo[1].w = "copy" /\ data' = data /\ Recs' = Recs /\ Links' = Links
  <2>1. SizedOK(Links, data, Recs, Tail(todo), pc, job, halted)
    BY <1>1, <1>3, <1>5, CopySized
  <2> QED  BY <2>1, <1>1, <1>3, <1>5, Written DEF Sized
<1>6. CASE /\ todo[1].w = "sector" /\ Links' = Links
           /\ data' = [data EXCEPT ![todo[1].cluster][todo[1].sector] = todo[1].val]
           /\ Recs' = Resectored(Recs, todo[1].cluster, todo[1].sector, todo[1].val)
  <2>1. SizedOK(Links, [data EXCEPT ![todo[1].cluster][todo[1].sector] = todo[1].val],
                Resectored(Recs, todo[1].cluster, todo[1].sector, todo[1].val),
                Tail(todo), pc, job, halted)
    BY <1>1, <1>2, <1>3, <1>6, SectorSized
  <2> QED  BY <2>1, <1>1, <1>3, <1>6, Written DEF Sized
<1> QED  BY <1>1, <1>3, <1>4, <1>5, <1>6, Written

----------------------------------------------------------------------------
\* The routines: what they leave alone.

\* Below the top, only add follows content; the others expect nothing.
LEMMA Second ==
  ASSUME NEW p \in Seq(FrameType), p # <<>>, Shape(p), Tail(p) # <<>>
  PROVE  /\ Tail(p)[1] = p[2] /\ Tail(p)[1].r \notin {"content", "readFile"}
         /\ Tail(p)[1].r = "add" => p[1].r = "content"
<1>1. Tail(p) \in Seq(FrameType) /\ Len(Tail(p)) = Len(p) - 1 /\ Len(p) \in Nat
  BY Stack
<1>2. Len(Tail(p)) # 0
  BY <1>1
<1>3. 1 \in DOMAIN Tail(p)
  BY <1>1, <1>2
<1>4. Tail(p)[1] = p[1 + 1]
  BY <1>3, Stack
<1>5. Tail(p)[1] = p[2]
  BY <1>4
<1>6. Len(p) > 1
  BY <1>1, <1>2
<1> QED  BY <1>5, <1>6 DEF Shape

LEMMA JobKept ==
  ASSUME NEW p \in Seq(FrameType), Shape(p), NEW j, JobOK(p, j), NEW s, NEW i,
         \A n \in DOMAIN s : \E m \in DOMAIN p : s[n].r = p[m].r,
         i.content = j.content,
         i.buffer = j.buffer \/ (p # <<>> /\ p[1].r \in {"content", "readFile"})
  PROVE  JobOK(s, i)
<1> SUFFICES ASSUME NEW n \in DOMAIN s, NEW m \in DOMAIN p, s[n].r = p[m].r
             PROVE  /\ s[n].r = "writeFile" => i.buffer = i.content
                    /\ s[n].r = "read" => i.buffer = <<>>
                    /\ s[n].r = "mkdir" => i.content = <<>>
  BY DEF JobOK
<1>1. CASE i.buffer = j.buffer
  BY <1>1 DEF JobOK
<1>2. CASE p # <<>> /\ p[1].r \in {"content", "readFile"}
  <2>1. m \in 1..Len(p) /\ Len(p) \in 1..2 /\ (Len(p) = 2 => p[2].r = "add")
    BY <1>2 DEF Shape
  <2>2. p[m].r \in {"content", "readFile", "add"}
    BY <1>2, <2>1
  <2> QED  BY <2>2
<1> QED  BY <1>1, <1>2

\* A routine other than content is done.
LEMMA ReturnSized ==
  ASSUME SInv, todo = <<>>, pc # <<>>, pc \in Seq(FrameType), Shape(pc), UNCHANGED disk,
         NEW i, Then(<<>>, i), i.content = job.content, i.buffer = job.buffer,
         QueuedOK(Links, todo'),
         pc[1].r = "content" =>
           i.fst = job.fst /\ Covers(Links, job.fst, Len(job.content))
  PROVE  Sized'
<1>1. SizesOK(Links, Recs) /\ JobOK(pc, job)
  BY DEF SInv, SizedOK
<1>2. Tail(pc) \in Seq(FrameType) /\ pc[1] \in FrameType
  BY Stack
<1>3. <<>> \o Tail(pc) = Tail(pc)
  BY <1>2
<1>4. pc' = Tail(pc) /\ job' = IF Tail(pc) = <<>> THEN NoJob ELSE i
  BY <1>3 DEF Then
<1>5. JobOK(pc', job')
  <2>1. CASE Tail(pc) = <<>>
    BY <2>1, <1>4 DEF JobOK
  <2>2. CASE Tail(pc) # <<>>
    <3>1. \A n \in DOMAIN Tail(pc) : \E m \in DOMAIN pc : Tail(pc)[n].r = pc[m].r
      BY Stack
    <3>2. JobOK(Tail(pc), i)
      <4> DEFINE s == Tail(pc)
      <4>1. \A n \in DOMAIN s : \E m \in DOMAIN pc : s[n].r = pc[m].r
        BY <3>1
      <4> HIDE DEF s
      <4>2. JobOK(s, i)
        BY <4>1, <1>1, JobKept
      <4> QED  BY <4>2 DEF s
    <3> QED  BY <3>2, <2>2, <1>4
  <2> QED  BY <2>1, <2>2
<1>6. TopOK(Links, data, Recs, todo', pc', job', halted')
  <2> SUFFICES ASSUME pc' # <<>>
               PROVE  /\ ContentOK(Links, todo', pc'[1], job') /\ AddOK(Links, pc'[1], job')
                      /\ ReadOK(Links, data, Recs, todo', pc'[1], job')
    BY DEF TopOK
  <2>1. /\ pc'[1].r \notin {"content", "readFile"}
        /\ pc'[1].r = "add" => pc[1].r = "content"
    BY <1>4, Second
  <2> QED  BY <2>1, <1>4 DEF ContentOK, AddOK, ReadOK
<1>7. Links' = Links /\ Recs' = Recs /\ data' = data
  BY SameDisk DEF disk
<1> QED  BY <1>1, <1>5, <1>6, <1>7 DEF Sized, SizedOK

\* The place after x, when q is queued: the next sector, the next cluster or
\* a cluster handed out.
NextPlace(f, x, z, q, ws) ==
  \/ /\ x.sector + 1 < sectorPerCluster /\ z.sector = x.sector + 1
     /\ z.cluster = x.cluster /\ q = ws
  \/ /\ x.sector + 1 = sectorPerCluster /\ z.sector = 0
     /\ f[x.cluster] \in Cluster /\ z.cluster = f[x.cluster] /\ q = ws
  \/ /\ x.sector + 1 = sectorPerCluster /\ z.sector = 0
     /\ f[x.cluster] = END_CLUSTER /\ Has(q, SetEntry(x.cluster, z.cluster))

LEMMA Moves ==
  ASSUME DInv, NEW rr \in Walking, Running(rr), NEW ws \in Seq(Write), NextSector(ws),
         QueuedOK(Links, ws)
  PROVE  /\ QueuedOK(Links, todo')
         /\ \/ halted' = TRUE /\ pc' = pc
            \/ \E z \in FrameType : /\ z.r = rr /\ halted' = halted /\ pc' = <<z>> \o Tail(pc)
                                    /\ NextPlace(Links, pc[1], z, todo', ws)
                                    /\ \/ todo' = ws
                                       \/ HandOut(ws, todo', z.cluster, pc[1].cluster)
<1> DEFINE x == pc[1]
           c == x.cluster
<1>1. /\ Top = x /\ x \in FrameType /\ x.r = rr /\ pc # <<>>
  BY Begins
<1>2. PICK home, rank, anc :
        DiskOK(Links, Recs, home, rank, anc, currentCluster, <<>>, pc, job)
  BY Begins
<1>3. c \in Cluster /\ Links[c] # FREE
  BY <1>1, <1>2, WalkingAt
<1>4. 0 \in Sector /\ (x.sector + 1 < sectorPerCluster => x.sector + 1 \in Sector)
  BY <1>1, Fat32Assumption DEF Sector, FrameType
<1>5. fat[1][c] = Links[c]
  BY DEF Links
<1>6. \A d \in {0} \cup Cluster, s \in Sector :
        /\ [x EXCEPT !.cluster = d, !.sector = s] \in FrameType
        /\ [x EXCEPT !.cluster = d, !.sector = s].r = x.r
        /\ [x EXCEPT !.cluster = d, !.sector = s].cluster = d
        /\ [x EXCEPT !.cluster = d, !.sector = s].sector = s
  BY <1>1 DEF FrameType
<1>7. Top.cluster = c /\ Top.sector = x.sector
  BY <1>1
<1> HIDE DEF x, c
<1>8. /\ Links[c] < END_CLUSTERS => Links[c] \in Cluster
      /\ Links[c] >= END_CLUSTERS => Links[c] = END_CLUSTER
  <2>1. Links[c] \in {END_CLUSTER} \cup Cluster
    BY <1>2, <1>3 DEF DiskOK, TableOK
  <2>2. \A d \in Cluster : d \in Int /\ d < END_CLUSTERS
    BY Numbers
  <2> QED  BY <2>1, <2>2 DEF END_CLUSTER, END_CLUSTERS
<1>9. CASE /\ x.sector + 1 < sectorPerCluster /\ MoveTo(c, x.sector + 1) /\ todo' = ws
           /\ UNCHANGED halted
  <2> DEFINE z == [x EXCEPT !.cluster = c, !.sector = x.sector + 1]
  <2>0. x.sector + 1 \in Sector /\ c \in {0} \cup Cluster
    BY <1>3, <1>4, <1>9
  <2>1. /\ z \in FrameType /\ z.r = rr /\ z.cluster = c /\ z.sector = x.sector + 1
        /\ pc' = <<z>> \o Tail(pc)
    <3>1. z \in FrameType /\ z.r = rr /\ z.cluster = c /\ z.sector = x.sector + 1
      BY <1>1, <2>0, <1>6
    <3>2. pc' = <<z>> \o Tail(pc)
      BY <1>1, <1>9 DEF MoveTo
    <3> QED  BY <3>1, <3>2
  <2> HIDE DEF z
  <2>2. NextPlace(Links, x, z, todo', ws)
    BY <2>1, <1>9 DEF NextPlace, c
  <2> QED  BY <2>1, <2>2, <1>9 DEF x
<1>10. CASE /\ x.sector + 1 = sectorPerCluster /\ fat[1][c] < END_CLUSTERS
            /\ MoveTo(fat[1][c], 0) /\ todo' = ws /\ UNCHANGED halted
  <2>1. Links[c] \in Cluster
    BY <1>5, <1>8, <1>10
  <2> DEFINE z == [x EXCEPT !.cluster = Links[c], !.sector = 0]
  <2>2. /\ z \in FrameType /\ z.r = rr /\ z.cluster = Links[c] /\ z.sector = 0
        /\ pc' = <<z>> \o Tail(pc)
    BY <2>1, <1>1, <1>4, <1>5, <1>6, <1>10 DEF MoveTo
  <2> HIDE DEF z
  <2>3. NextPlace(Links, x, z, todo', ws)
    BY <2>1, <2>2, <1>10 DEF NextPlace, c
  <2> QED  BY <2>2, <2>3, <1>10 DEF x
<1>11. CASE /\ x.sector + 1 = sectorPerCluster /\ fat[1][c] >= END_CLUSTERS
            /\ FreeClusters # {} /\ MoveTo(FirstFree, 0)
            /\ todo' = ws \o allocateFreeCluster(c) /\ UNCHANGED halted
  <2> DEFINE n == FirstFree
             z == [x EXCEPT !.cluster = n, !.sector = 0]
  <2>1. n \in Cluster
    BY <1>11, FirstFreeIs
  <2>2. Links[c] = END_CLUSTER
    BY <1>5, <1>8, <1>11
  <2>3. /\ z \in FrameType /\ z.r = rr /\ z.cluster = n /\ z.sector = 0
        /\ pc' = <<z>> \o Tail(pc)
    BY <2>1, <1>1, <1>4, <1>6, <1>11 DEF MoveTo
  <2>4. HandOut(ws, todo', n, c)
    BY <2>1, <1>3, <1>11, AllocationWrites
  <2> HIDE DEF n, z
  <2>5. Has(todo', SetEntry(c, n))
    BY <2>4, <1>3, Numbers DEF HandOut
  <2>6. NextPlace(Links, x, z, todo', ws)
    BY <2>2, <2>3, <2>5, <1>11 DEF NextPlace, c
  <2>7. QueuedOK(Links, todo')
    <3> SUFFICES ASSUME NEW i \in DOMAIN todo', todo'[i].w = "sector"
                 PROVE  Carries(Links, todo'[i].val)
      BY DEF QueuedOK
    <3>1. CASE Has(ws, todo'[i])
      BY <3>1 DEF Has, QueuedOK
    <3>2. ASSUME NEW s \in Sector, todo'[i] = SetSector(n, s, ZeroSector)
          PROVE  Carries(Links, todo'[i].val)
      <4>1. todo'[i].val = ZeroSector
        BY <3>2 DEF SetSector
      <4> QED  BY <4>1, ZeroSectorKnown, NamesKnown DEF Carries
    <3> QED  BY <3>1, <3>2, <2>4 DEF HandOut, SetEntry
  <2>8. HandOut(ws, todo', z.cluster, x.cluster)
    BY <2>3, <2>4 DEF c
  <2> QED  BY <2>3, <2>6, <2>7, <2>8, <1>11 DEF x
<1>12. CASE halted' = TRUE /\ todo' = ws /\ UNCHANGED pc
  BY <1>12
<1> QED  BY <1>7, <1>9, <1>10, <1>11, <1>12 DEF NextSector

\* A routine goes on to the next place.
LEMMA MoveSized ==
  ASSUME SInv, NEW rr \in Walking, Running(rr), NEW ws \in Seq(Write), NextSector(ws),
         QueuedOK(Links, ws), UNCHANGED disk,
         job'.content = job.content, job'.fst = job.fst,
         job'.buffer = job.buffer \/ rr \in {"content", "readFile"},
         \A z \in FrameType :
           z.r = rr /\ NextPlace(Links, pc[1], z, todo', ws) =>
             ContentOK(Links, todo', z, job') /\ ReadOK(Links, data, Recs, todo', z, job')
  PROVE  Sized'
<1>1. DInv /\ SizesOK(Links, Recs) /\ JobOK(pc, job)
      /\ TopOK(Links, data, Recs, todo, pc, job, halted)
  BY DEF SInv, SizedOK
<1>2. pc # <<>> /\ pc \in Seq(FrameType) /\ Shape(pc) /\ pc[1].r = rr /\ ~halted
  BY <1>1, Begins DEF Running
<1>3. QueuedOK(Links, todo')
  BY <1>1, Moves
<1>4. Links' = Links /\ Recs' = Recs /\ data' = data
  BY SameDisk DEF disk
<1>5. CASE halted' = TRUE /\ pc' = pc
  <2>1. JobOK(pc, job')
    BY <1>1, <1>2, JobKept
  <2> QED  BY <1>1, <1>3, <1>4, <1>5, <2>1 DEF Sized, SizedOK, TopOK
<1>6. ASSUME NEW z \in FrameType, z.r = rr, pc' = <<z>> \o Tail(pc),
             NextPlace(Links, pc[1], z, todo', ws)
      PROVE  Sized'
  <2>1. pc'[1] = z /\ \A i \in DOMAIN pc' : i \in DOMAIN pc /\ (i # 1 => pc'[i] = pc[i])
    BY <1>2, <1>6, Replaced
  <2>2. JobOK(pc', job')
    <3>1. \A n \in DOMAIN pc' : \E m \in DOMAIN pc : pc'[n].r = pc[m].r
      BY <2>1, <1>2, <1>6
    <3> QED  BY <3>1, <1>1, <1>2, JobKept
  <2>3. ContentOK(Links, todo', z, job') /\ ReadOK(Links, data, Recs, todo', z, job')
    BY <1>6
  <2>4. AddOK(Links, z, job')
    BY <1>1, <1>2, <1>6 DEF TopOK, AddOK
  <2> QED  BY <1>1, <1>3, <1>4, <2>1, <2>2, <2>3, <2>4 DEF Sized, SizedOK, TopOK
<1> QED  BY <1>1, <1>5, <1>6, Moves

----------------------------------------------------------------------------
\* The routines that walk, add and remove.

LEMMA NothingQueued == \A f : QueuedOK(f, <<>>)
BY DEF QueuedOK

LEMMA ListSized == ASSUME SInv, list_files PROVE Sized'
<1>1. DInv /\ Running("list_files") /\ UNCHANGED disk
  BY DEF SInv, list_files
<1>2. /\ todo = <<>> /\ pc # <<>> /\ pc \in Seq(FrameType) /\ Shape(pc) /\ pc[1].r = "list_files"
      /\ job \in JobType
  BY <1>1, Begins
<1> DEFINE i == [job EXCEPT !.hit = Found]
<1>3. i.content = job.content /\ i.buffer = job.buffer /\ i.fst = job.fst
  BY <1>2 DEF JobType
<1> HIDE DEF i
<1>4. CASE Then(<<>>, i) /\ UNCHANGED <<todo, halted>>
  <2>1. QueuedOK(Links, todo')
    BY <1>2, <1>4, NothingQueued
  <2> QED  BY <1>1, <1>2, <1>3, <1>4, <2>1, ReturnSized
<1>5. CASE NextSector(<<>>) /\ job' = i
  <2>1. \A z : z.r = "list_files" =>
          ContentOK(Links, todo', z, job') /\ ReadOK(Links, data, Recs, todo', z, job')
    BY DEF ContentOK, ReadOK
  <2>2. <<>> \in Seq(Write) /\ QueuedOK(Links, <<>>) /\ "list_files" \in Walking
    BY NothingQueued DEF Walking
  <2> QED  BY <1>1, <1>2, <1>3, <1>5, <2>1, <2>2, MoveSized
<1> QED  BY <1>4, <1>5 DEF list_files, i

LEMMA OneWrite ==
  ASSUME NEW f, NEW c, NEW s, NEW v, Carries(f, v)
  PROVE  QueuedOK(f, <<SetSector(c, s, v)>>)
BY DEF QueuedOK, SetSector

\* The sector at c and s carries no more than the records on the disk.
LEMMA HereCarries ==
  ASSUME Types, SizesOK(Links, Recs), NEW c \in Cluster, NEW s \in Sector, NEW p \in Pos,
         data[c][s].recs[p].name \in Names
  PROVE  Covers(Links, data[c][s].recs[p].cluster, data[c][s].recs[p].size)
<1>1. Spot(c, s, p) \in Place /\ Recs[Spot(c, s, p)] = data[c][s].recs[p]
  BY HereIs
<1> QED  BY <1>1 DEF SizesOK

LEMMA AddSized == ASSUME SInv, NEW a \in {"add", ".", ".."}, addFileToDirectory(a) PROVE Sized'
<1>1. /\ DInv /\ Types /\ Running(a) /\ UNCHANGED disk /\ SizesOK(Links, Recs)
      /\ TopOK(Links, data, Recs, todo, pc, job, halted)
  BY DEF SInv, addFileToDirectory, SizedOK, DInv
<1>2. /\ todo = <<>> /\ pc # <<>> /\ pc \in Seq(FrameType) /\ Shape(pc) /\ pc[1].r = a
      /\ Top = pc[1] /\ pc[1] \in FrameType /\ ~halted /\ a \in Walking
  BY <1>1, Begins DEF Running, Walking
<1> DEFINE c == Top.cluster
           s == Top.sector
<1>3. c \in Cluster /\ s \in Sector
  BY <1>1, <1>2, Begins, WalkingAt DEF FrameType
<1>4. CASE NextSector(<<>>) /\ UNCHANGED job
  <2>1. \A z : z.r = a =>
          ContentOK(Links, todo', z, job') /\ ReadOK(Links, data, Recs, todo', z, job')
    BY DEF ContentOK, ReadOK
  <2>2. <<>> \in Seq(Write) /\ QueuedOK(Links, <<>>)
    BY NothingQueued
  <2> QED  BY <1>1, <1>2, <1>4, <2>1, <2>2, MoveSized
<1>5. CASE /\ Unused # {} /\ Return
           /\ todo' = <<SetSector(c, s, [Here EXCEPT !.recs[Least(Unused)] = Entry(a)])>>
  <2> DEFINE v == [Here EXCEPT !.recs[Least(Unused)] = Entry(a)]
  <2>1. Carries(Links, v)
    <3> SUFFICES ASSUME NEW p \in Pos, v.recs[p].name \in Names
                 PROVE  Covers(Links, v.recs[p].cluster, v.recs[p].size)
      BY DEF Carries
    <3>0. Here = data[c][s] /\ Here \in SecType
      BY <1>1, <1>3, HereIs DEF Here
    <3>1. CASE p = Least(Unused)
      <4>1. v.recs[p] = Entry(a)
        BY <3>0, <3>1 DEF SecType
      <4>2. a = "add"
        <5> SUFFICES ASSUME a # "add" PROVE FALSE
          OBVIOUS
        <5>1. Entry(a).name \in {DOT, DOTDOT}
          BY DEF Entry
        <5> QED  BY <5>1, <4>1, NamesKnown
      <4>3. Entry(a).cluster = job.fst /\ Entry(a).size = Len(job.content)
        BY <4>2 DEF Entry
      <4>4. Covers(Links, job.fst, Len(job.content))
        BY <1>1, <1>2, <4>2 DEF TopOK, AddOK
      <4> QED  BY <4>1, <4>3, <4>4
    <3>2. CASE p # Least(Unused)
      <4>1. v.recs[p] = data[c][s].recs[p]
        BY <3>0, <3>2 DEF SecType
      <4> QED  BY <4>1, <1>1, <1>3, HereCarries
    <3> QED  BY <3>1, <3>2
  <2> HIDE DEF v
  <2>2. QueuedOK(Links, todo')
    <3>1. todo' = <<SetSector(c, s, v)>>
      BY <1>5 DEF v
    <3> QED  BY <3>1, <2>1, OneWrite
  <2> QED  BY <1>1, <1>2, <1>5, <2>2, ReturnSized DEF Return
<1> QED  BY <1>4, <1>5 DEF addFileToDirectory

\* Another routine that expects nothing takes the place of the one on top.
LEMMA ReplaceSized ==
  ASSUME SInv, pc # <<>>, pc \in Seq(FrameType), UNCHANGED disk,
         NEW z \in FrameType, z.r = "removeFATChain", pc' = <<z>> \o Tail(pc), job' = job,
         QueuedOK(Links, todo')
  PROVE  Sized'
<1>1. SizesOK(Links, Recs) /\ JobOK(pc, job)
  BY DEF SInv, SizedOK
<1>2. pc'[1] = z /\ \A i \in DOMAIN pc' : i \in DOMAIN pc /\ (i # 1 => pc'[i] = pc[i])
  BY Replaced
<1>3. JobOK(pc', job')
  <2> SUFFICES ASSUME NEW i \in DOMAIN pc'
               PROVE  /\ pc'[i].r = "writeFile" => job.buffer = job.content
                      /\ pc'[i].r = "read" => job.buffer = <<>>
                      /\ pc'[i].r = "mkdir" => job.content = <<>>
    BY DEF JobOK
  <2>1. CASE i = 1
    BY <2>1, <1>2
  <2>2. CASE i # 1
    BY <2>2, <1>1, <1>2 DEF JobOK
  <2> QED  BY <2>1, <2>2
<1>4. TopOK(Links, data, Recs, todo', pc', job', halted')
  BY <1>2 DEF TopOK, ContentOK, AddOK, ReadOK
<1>5. Links' = Links /\ Recs' = Recs /\ data' = data
  BY SameDisk DEF disk
<1> QED  BY <1>1, <1>3, <1>4, <1>5 DEF Sized, SizedOK

LEMMA RemoveSized ==
  ASSUME SInv, NEW a \in {"rm", "rmold"}, removeEntryFromDirectory(a)
  PROVE  Sized'
<1>1. DInv /\ Types /\ Running(a) /\ UNCHANGED disk /\ SizesOK(Links, Recs)
  BY DEF SInv, removeEntryFromDirectory, SizedOK, DInv
<1>2. /\ todo = <<>> /\ pc # <<>> /\ pc \in Seq(FrameType) /\ Shape(pc) /\ pc[1].r = a
      /\ job \in JobType
  BY <1>1, Begins
<1>3. CASE job.hit = NOWHERE
  <2>1. Then(<<>>, job) /\ UNCHANGED todo
    BY <1>3 DEF removeEntryFromDirectory, Return
  <2>2. QueuedOK(Links, todo')
    BY <1>2, <2>1, NothingQueued
  <2> QED  BY <1>1, <1>2, <2>1, <2>2, ReturnSized
<1>4. CASE job.hit # NOWHERE
  <2> DEFINE x == job.hit
             v == [data[x.cluster][x.sector] EXCEPT !.recs[x.pos].name = REMOVED]
             z == Frame("removeFATChain", Rec(x).cluster)
  <2>1. x \in Place /\ x.cluster \in Cluster /\ x.sector \in Sector /\ x.pos \in Pos
    BY <1>2, <1>4 DEF JobType, Place
  <2>2. data[x.cluster][x.sector] \in SecType /\ Rec(x) \in RecType
    BY <1>1, <2>1, HereIs DEF Rec
  <2>3. Carries(Links, v)
    <3> SUFFICES ASSUME NEW p \in Pos, v.recs[p].name \in Names
                 PROVE  Covers(Links, v.recs[p].cluster, v.recs[p].size)
      BY DEF Carries
    <3>1. p # x.pos
      <4> SUFFICES ASSUME p = x.pos PROVE FALSE
        OBVIOUS
      <4>1. v.recs[p].name = REMOVED
        BY <2>2 DEF SecType, RecType
      <4> QED  BY <4>1, NamesKnown
    <3>2. v.recs[p] = data[x.cluster][x.sector].recs[p]
      BY <2>2, <3>1 DEF SecType
    <3> QED  BY <3>2, <1>1, <2>1, HereCarries
  <2>4. z \in FrameType /\ z.r = "removeFATChain"
    <3>1. Rec(x).cluster \in {0} \cup Cluster /\ "removeFATChain" \in Routines
      BY <2>2 DEF RecType, Routines
    <3> QED  BY <3>1, FrameIs
  <2>5. todo' = <<SetSector(x.cluster, x.sector, v)>> /\ Then(<<z>>, job)
    BY <1>4 DEF removeEntryFromDirectory
  <2> HIDE DEF v, z
  <2>6. QueuedOK(Links, todo')
    BY <2>3, <2>5, OneWrite
  <2>7. pc' = <<z>> \o Tail(pc) /\ job' = job
    <3>1. <<z>> \o Tail(pc) # <<>>
      BY <1>2, <2>4, Replaced
    <3> QED  BY <3>1, <2>5 DEF Then
  <2> QED  BY <1>1, <1>2, <2>4, <2>6, <2>7, ReplaceSized
<1> QED  BY <1>3, <1>4

LEMMA FreeSized == ASSUME SInv, removeFATChain PROVE Sized'
<1>1. DInv /\ Running("removeFATChain") /\ UNCHANGED disk
  BY DEF SInv, removeFATChain
<1>2. /\ todo = <<>> /\ pc # <<>> /\ pc \in Seq(FrameType) /\ Shape(pc)
      /\ pc[1].r = "removeFATChain" /\ Top = pc[1] /\ pc[1] \in FrameType
      /\ job \in JobType
  BY <1>1, Begins
<1> DEFINE c == pc[1].cluster
<1>3. c \in {0} \cup Cluster /\ c \in Entries
  BY <1>2, Numbers DEF FrameType
<1>4. QueuedOK(Links, todo')
  <2> DEFINE u == updateEveryFat(c, FREE)
  <2>1. 1 \in DOMAIN u /\ u[1] = SetEntry(c, FREE) /\ \A i \in DOMAIN u : i # 1 => u[i].w = "copy"
    BY <1>3, UpdateWrites
  <2>2. todo' = u
    BY <1>2 DEF removeFATChain
  <2> HIDE DEF u
  <2>3. ASSUME NEW i \in DOMAIN u PROVE u[i].w # "sector"
    BY <2>1 DEF SetEntry
  <2> QED  BY <2>2, <2>3 DEF QueuedOK
<1>5. CASE Return
  BY <1>1, <1>2, <1>4, <1>5, ReturnSized DEF Return
<1>6. CASE MoveTo(fat[1][c], 0) /\ UNCHANGED job /\ fat[1][c] < END_CLUSTERS
  <2>1. Links[c] \in {0} \cup Cluster
    <3>1. Links[c] \in {FREE, END_CLUSTER, MEDIA} \cup Cluster /\ fat[1][c] = Links[c]
      BY <1>1, <1>3, OneCopy, Numbers DEF DInv, Types, Links
    <3>2. FREE = 0 /\ ~(END_CLUSTER < END_CLUSTERS) /\ ~(MEDIA < END_CLUSTERS)
      BY DEF FREE, END_CLUSTER, END_CLUSTERS, MEDIA
    <3> QED  BY <3>1, <3>2, <1>6
  <2> DEFINE z == [pc[1] EXCEPT !.cluster = Links[c], !.sector = 0]
  <2>2. z \in FrameType /\ z.r = "removeFATChain"
    <3>1. 0 \in Sector
      BY Fat32Assumption DEF Sector
    <3> QED  BY <3>1, <2>1, <1>2 DEF FrameType
  <2>3. pc' = <<z>> \o Tail(pc) /\ job' = job
    BY <1>2, <1>6 DEF MoveTo, Links
  <2> HIDE DEF z
  <2> QED  BY <1>1, <1>2, <1>4, <2>2, <2>3, ReplaceSized
<1> QED  BY <1>2, <1>5, <1>6 DEF removeFATChain

----------------------------------------------------------------------------
\* The calls.

\* A chain is handed out, or none is left.
LEMMA NewChainSized ==
  ASSUME SInv, NEW rr \in {"mkdir", "writeFile"}, Running(rr), UNCHANGED disk,
         NEW rs, NewChain(rs),
         \/ /\ rr = "mkdir"
            /\ rs = <<Frame("add", currentCluster), Frame(".", FirstFree),
                      Frame("..", FirstFree)>>
         \/ /\ rr = "writeFile"
            /\ rs = <<Frame("content", FirstFree), Frame("add", currentCluster)>>
  PROVE  Sized'
<1>1. DInv /\ SizesOK(Links, Recs) /\ JobOK(pc, job)
  BY DEF SInv, SizedOK
<1>2. /\ todo = <<>> /\ pc # <<>> /\ pc \in Seq(FrameType) /\ Shape(pc)
      /\ pc[1].r = rr /\ job \in JobType /\ 1 \in DOMAIN pc
  BY <1>1, Begins, Stack
<1>3. Links' = Links /\ Recs' = Recs /\ data' = data
  BY SameDisk DEF disk
<1>4. CASE halted' = TRUE /\ UNCHANGED <<todo, pc, job>>
  <2>1. QueuedOK(Links, todo')
    BY <1>2, <1>4, NothingQueued
  <2> QED  BY <1>1, <1>3, <1>4, <2>1 DEF Sized, SizedOK, TopOK
<1>5. CASE /\ FreeClusters # {} /\ todo' = allocateFreeCluster(0)
           /\ Then(rs, [job EXCEPT !.fst = FirstFree])
  <2> DEFINE n == FirstFree
             i == [job EXCEPT !.fst = n]
  <2>1. n \in Cluster /\ Links[n] = FREE
    BY <1>5, FirstFreeIs
  <2>2. i.fst = n /\ i.content = job.content /\ i.buffer = job.buffer
    BY <1>2 DEF JobType
  <2>3. QueuedOK(Links, todo')
    <3> DEFINE m == updateEveryFat(n, END_CLUSTER)
               w == Wipe(n)
    <3>1. m \in Seq(Write) /\ w \in Seq(Write)
      BY <2>1, UpdateWrites, WipeWrites, Numbers
    <3>2. todo' = m \o w \o <<>>
      BY <1>5 DEF allocateFreeCluster
    <3>3. ASSUME NEW k \in DOMAIN m PROVE m[k].w # "sector"
      <4>1. m[1] = SetEntry(n, END_CLUSTER) /\ (k # 1 => m[k].w = "copy")
        BY <2>1, UpdateWrites, Numbers
      <4> QED  BY <4>1 DEF SetEntry
    <3>4. ASSUME NEW k \in DOMAIN w PROVE Carries(Links, w[k].val)
      <4>1. w[k].val = ZeroSector
        BY <2>1, WipeWrites DEF SetSector
      <4> QED  BY <4>1, ZeroSectorKnown, NamesKnown DEF Carries
    <3> HIDE DEF m, w, n
    <3>5. m \o w \in Seq(Write)
      BY <3>1
    <3>6. todo' = m \o w
      <4>1. \A u \in Seq(Write) : u \o <<>> = u
        OBVIOUS
      <4> QED  BY <3>2, <3>5, <4>1
    <3> SUFFICES ASSUME NEW k \in DOMAIN (m \o w), (m \o w)[k].w = "sector"
                 PROVE  Carries(Links, (m \o w)[k].val)
      BY <3>6 DEF QueuedOK
    <3> QED  BY <3>1, <3>3, <3>4, JoinedWrites
  <2> HIDE DEF i, n
  <2>4. currentCluster \in {0} \cup Cluster /\ n \in {0} \cup Cluster
    <3>1. PICK home, rank, anc :
            DiskOK(Links, Recs, home, rank, anc, currentCluster, <<>>, pc, job)
      BY <1>1, Begins
    <3>2. currentCluster \in Cluster
      BY <3>1, PathAnchored, AnchoredHome DEF DiskOK
    <3> QED  BY <2>1, <3>2
  <2>5. Tail(pc) = <<>>
    BY <1>2, Alone
  <2>6. CASE rr = "mkdir"
    <3> DEFINE a == Frame("add", currentCluster)
               b == Frame(".", n)
               c == Frame("..", n)
    <3>1. /\ a \in FrameType /\ b \in FrameType /\ c \in FrameType
          /\ a.r = "add" /\ b.r = "." /\ c.r = ".."
      BY <2>4, FrameIs DEF Routines
    <3>2. rs = <<a, b, c>>
      BY <2>6 DEF n
    <3> HIDE DEF a, b, c
    <3>3. /\ <<a, b, c>> \in Seq(FrameType) /\ <<a, b, c>> # <<>> /\ <<a, b, c>>[1] = a
          /\ \A k \in DOMAIN <<a, b, c>> : <<a, b, c>>[k] \in {a, b, c}
      BY <3>1, ThreeFrames
    <3>4. <<a, b, c>> \o <<>> = <<a, b, c>>
      BY <3>3
    <3>5. pc' = <<a, b, c>> /\ job' = i
      BY <3>2, <3>3, <3>4, <2>5, <1>5 DEF Then, i, n
    <3>6. JobOK(pc', job')
      BY <3>1, <3>3, <3>5 DEF JobOK
    <3>7. Len(i.content) = 0
      BY <1>1, <1>2, <2>2, <2>6 DEF JobOK
    <3>8. AddOK(Links, a, i)
      BY <3>7, CoversNone DEF AddOK
    <3>9. TopOK(Links, data, Recs, todo', pc', job', halted')
      BY <3>1, <3>3, <3>5, <3>8 DEF TopOK, ContentOK, ReadOK
    <3> QED  BY <1>1, <1>3, <2>3, <3>6, <3>9 DEF Sized, SizedOK
  <2>7. CASE rr = "writeFile"
    <3> DEFINE a == Frame("content", n)
               b == Frame("add", currentCluster)
    <3>1. /\ a \in FrameType /\ b \in FrameType /\ a.r = "content" /\ b.r = "add"
          /\ a.cluster = n /\ a.sector = 0
      BY <2>4, FrameIs DEF Routines, Frame
    <3>2. rs = <<a, b>>
      BY <2>7 DEF n
    <3> HIDE DEF a, b
    <3>3. /\ <<a, b>> \in Seq(FrameType) /\ <<a, b>> # <<>> /\ <<a, b>>[1] = a
          /\ \A k \in DOMAIN <<a, b>> : <<a, b>>[k] \in {a, b}
      BY <3>1, TwoFrames
    <3>4. <<a, b>> \o <<>> = <<a, b>>
      BY <3>3
    <3>5. pc' = <<a, b>> /\ job' = i
      BY <3>2, <3>3, <3>4, <2>5, <1>5 DEF Then, i, n
    <3>6. JobOK(pc', job')
      BY <3>1, <3>3, <3>5 DEF JobOK
    <3>7. ContentOK(Links, todo', a, i)
      <4>1. i.buffer = i.content /\ i.content \in Seq(TextType)
        BY <1>1, <1>2, <2>2, <2>7 DEF JobOK, JobType
      <4>2. Len(i.buffer) <= Len(i.content) /\ Len(i.content) - Len(i.buffer) = 0
        BY <4>1
      <4>3. 0 = 0 * sectorPerCluster + a.sector
        BY <3>1, Fat32Assumption
      <4>4. NthOf(Links, n, 0) = n
        <5>1. Links \in [Entries -> FatValue] /\ n \in FatValue
          BY <1>1, <2>1, OneCopy, Numbers DEF DInv, Types, Links
        <5> QED  BY <5>1, NthStep
      <4>5. Reaches(Links, todo', i.fst, 0, a.cluster)
        BY <4>4, <3>1, <2>2 DEF Reaches
      <4>6. \E k \in Nat : /\ Len(i.content) - Len(i.buffer) = k * sectorPerCluster + a.sector
                          /\ Reaches(Links, todo', i.fst, k, a.cluster)
        <5> WITNESS 0 \in Nat
        <5> QED  BY <4>2, <4>3, <4>5
      <4> QED  BY <4>2, <4>6 DEF ContentOK
    <3>8. TopOK(Links, data, Recs, todo', pc', job', halted')
      BY <3>1, <3>3, <3>5, <3>7 DEF TopOK, AddOK, ReadOK
    <3> QED  BY <1>1, <1>3, <2>3, <3>6, <3>8 DEF Sized, SizedOK
  <2> QED  BY <2>6, <2>7
<1> QED  BY <1>4, <1>5 DEF NewChain

LEMMA MkdirSized == ASSUME SInv, mkdir PROVE Sized'
<1>1. DInv /\ Running("mkdir") /\ UNCHANGED disk
  BY DEF SInv, mkdir
<1>2. todo = <<>> /\ pc # <<>> /\ pc \in Seq(FrameType) /\ Shape(pc) /\ pc[1].r = "mkdir"
  BY <1>1, Begins
<1>3. CASE Return /\ UNCHANGED <<todo, halted>>
  <2>1. QueuedOK(Links, todo')
    BY <1>2, <1>3, NothingQueued
  <2> QED  BY <1>1, <1>2, <1>3, <2>1, ReturnSized DEF Return
<1>4. CASE NewChain(<<Frame("add", currentCluster), Frame(".", FirstFree),
                      Frame("..", FirstFree)>>)
  BY <1>1, <1>4, NewChainSized
<1> QED  BY <1>3, <1>4 DEF mkdir

LEMMA WriteFileSized == ASSUME SInv, writeFile PROVE Sized'
BY NewChainSized DEF writeFile

LEMMA CdSized == ASSUME SInv, change_directory PROVE Sized'
<1>1. DInv /\ Running("cd") /\ UNCHANGED disk /\ Return /\ UNCHANGED todo
  BY DEF SInv, change_directory
<1>2. todo = <<>> /\ pc # <<>> /\ pc \in Seq(FrameType) /\ Shape(pc) /\ pc[1].r = "cd"
  BY <1>1, Begins
<1>3. QueuedOK(Links, todo')
  BY <1>1, <1>2, NothingQueued
<1> QED  BY <1>1, <1>2, <1>3, ReturnSized DEF Return

\* The place after the k-th cluster's sector is one further in the chain.
LEMMA PlaceAfter ==
  ASSUME NEW f \in [Entries -> FatValue], NEW h \in FatValue, NEW x \in FrameType,
         x.cluster \in Cluster, NEW k \in Nat, NthOf(f, h, k) = x.cluster,
         NEW z, NEW q, NEW ws, NextPlace(f, x, z, q, ws)
  PROVE  \E n \in Nat :
           /\ k * sectorPerCluster + x.sector + 1 = n * sectorPerCluster + z.sector
           /\ Reaches(f, q, h, n, z.cluster)
           /\ NthOf(f, h, n) \in Cluster => NthOf(f, h, n) = z.cluster /\ q = ws
<1>1. k * sectorPerCluster \in Nat /\ sectorPerCluster \in Nat
      /\ (k + 1) * sectorPerCluster = k * sectorPerCluster + sectorPerCluster
  BY Multiple
<1>2. x.sector \in Nat
  <2>1. x.sector \in Sector
    BY DEF FrameType
  <2> QED  BY <2>1, Fat32Assumption DEF Sector
<1>3. NthOf(f, h, k + 1) = f[x.cluster]
  BY NthStep
<1>4. CASE z.sector = x.sector + 1 /\ z.cluster = x.cluster /\ q = ws
  <2>1. k * sectorPerCluster + x.sector + 1 = k * sectorPerCluster + z.sector
    <3> DEFINE a == k * sectorPerCluster
    <3>1. a \in Nat /\ x.sector \in Nat /\ z.sector = x.sector + 1
      BY <1>1, <1>2, <1>4
    <3> HIDE DEF a
    <3>2. a + x.sector + 1 = a + z.sector
      BY ONLY <3>1
    <3> QED  BY <3>2 DEF a
  <2> QED  BY <2>1, <1>4 DEF Reaches
<1>5. ASSUME x.sector + 1 = sectorPerCluster, z.sector = 0
      PROVE  k * sectorPerCluster + x.sector + 1 = (k + 1) * sectorPerCluster + z.sector
  <2> DEFINE a == k * sectorPerCluster
             b == (k + 1) * sectorPerCluster
  <2>1. /\ a \in Nat /\ x.sector \in Nat /\ b = a + sectorPerCluster
        /\ x.sector + 1 = sectorPerCluster /\ z.sector = 0
    BY <1>1, <1>2, <1>5
  <2> HIDE DEF a, b
  <2>2. a + x.sector + 1 = b + z.sector
    BY ONLY <2>1
  <2> QED  BY <2>2 DEF a, b
<1>6. CASE /\ x.sector + 1 = sectorPerCluster /\ z.sector = 0
           /\ f[x.cluster] \in Cluster /\ z.cluster = f[x.cluster] /\ q = ws
  <2>1. k + 1 \in Nat /\ Reaches(f, q, h, k + 1, z.cluster)
    BY <1>3, <1>6 DEF Reaches
  <2> QED  BY <2>1, <1>3, <1>5, <1>6
<1>7. CASE /\ x.sector + 1 = sectorPerCluster /\ z.sector = 0
           /\ f[x.cluster] = END_CLUSTER /\ Has(q, SetEntry(x.cluster, z.cluster))
  <2>1. k + 1 \in Nat /\ k + 1 > 0 /\ (k + 1) - 1 = k
    OBVIOUS
  <2>2. Reaches(f, q, h, k + 1, z.cluster)
    BY <2>1, <1>7 DEF Reaches
  <2>3. NthOf(f, h, k + 1) \notin Cluster
    BY <1>3, <1>7, Numbers
  <2> QED  BY <2>1, <2>2, <2>3, <1>5, <1>7
<1> QED  BY <1>4, <1>6, <1>7 DEF NextPlace

\* One sector of content is written; the last one leaves a chain that covers
\* them all.
LEMMA ContentSized == ASSUME SInv, write_content PROVE Sized'
<1>1. /\ DInv /\ Types /\ Running("content") /\ UNCHANGED disk
      /\ TopOK(Links, data, Recs, todo, pc, job, halted)
  BY DEF SInv, write_content, DInv, SizedOK
<1>2. /\ todo = <<>> /\ pc # <<>> /\ pc \in Seq(FrameType) /\ Shape(pc) /\ pc[1].r = "content"
      /\ pc[1] \in FrameType /\ job \in JobType /\ Top = pc[1] /\ ~halted
  BY <1>1, Begins DEF Running
<1> DEFINE x == pc[1]
<1>3. x.cluster \in Cluster /\ x.sector \in Sector
  BY <1>1, <1>2, Begins, WalkingAt DEF Walking, FrameType
<1>4. /\ Links \in [Entries -> FatValue] /\ job.fst \in FatValue
      /\ job.buffer \in Seq(TextType) /\ job.content \in Seq(TextType)
      /\ Len(job.buffer) \in Nat /\ Len(job.content) \in Nat
  <2>1. Links \in [Entries -> FatValue]
    BY <1>1, OneCopy DEF Types, Links
  <2>2. job.fst \in FatValue /\ job.buffer \in Seq(TextType) /\ job.content \in Seq(TextType)
    BY <1>2, Numbers DEF JobType
  <2> QED  BY <2>1, <2>2
<1>5. PICK k \in Nat :
        /\ Len(job.buffer) <= Len(job.content)
        /\ Len(job.content) - Len(job.buffer) = k * sectorPerCluster + x.sector
        /\ Reaches(Links, <<>>, job.fst, k, x.cluster)
  BY <1>1, <1>2 DEF TopOK, ContentOK
<1>6. NthOf(Links, job.fst, k) = x.cluster
  BY <1>5 DEF Reaches, Has
<1> HIDE DEF x
<1>7. CASE job.buffer = <<>> /\ Return /\ UNCHANGED <<todo, halted>>
  <2>1. Len(job.content) = k * sectorPerCluster + x.sector
    <3>1. Len(job.buffer) = 0
      BY <1>7
    <3>2. Len(job.content) - 0 = k * sectorPerCluster + x.sector
      BY <1>5, <3>1
    <3>3. Len(job.content) - 0 = Len(job.content)
      BY <1>4
    <3> QED  BY <3>2, <3>3
  <2>2. Covers(Links, job.fst, Len(job.content))
    BY <2>1, <1>3, <1>4, <1>6, CoversTo
  <2>3. QueuedOK(Links, todo')
    BY <1>2, <1>7, NothingQueued
  <2> QED  BY <1>1, <1>2, <1>7, <2>2, <2>3, ReturnSized DEF Return
<1>8. CASE /\ job.buffer # <<>>
           /\ NextSector(<<SetSector(Top.cluster, Top.sector,
                             [ZeroSector EXCEPT !.text = Head(job.buffer)])>>)
           /\ job' = [job EXCEPT !.buffer = Tail(@)]
  <2> DEFINE v == [ZeroSector EXCEPT !.text = Head(job.buffer)]
             w == SetSector(Top.cluster, Top.sector, v)
             ws == <<w>>
  <2>1. /\ Head(job.buffer) \in TextType /\ Tail(job.buffer) \in Seq(TextType)
        /\ Len(Tail(job.buffer)) = Len(job.buffer) - 1 /\ Len(job.buffer) >= 1
    BY <1>4, <1>8
  <2>2. /\ job'.fst = job.fst /\ job'.content = job.content /\ job'.buffer = Tail(job.buffer)
    BY <1>2, <1>8 DEF JobType
  <2>3. v \in SecType /\ \A p \in Pos : v.recs[p] = ZeroRec
    BY <2>1, ZeroSectorKnown DEF SecType
  <2> HIDE DEF v
  <2>4. w \in Write
    BY <2>3, <1>2, <1>3 DEF SetSector, Write, SectorWrite, x
  <2>5. Carries(Links, v)
    BY <2>3, NamesKnown DEF Carries
  <2>6. QueuedOK(Links, ws)
    BY <2>5, OneWrite
  <2>7. NextSector(ws)
    BY <1>8 DEF v
  <2> HIDE DEF w
  <2>8. ws \in Seq(Write)
    BY <2>4
  <2> HIDE DEF ws
  <2>9. ASSUME NEW z \in FrameType, z.r = "content", NextPlace(Links, pc[1], z, todo', ws)
        PROVE  ContentOK(Links, todo', z, job') /\ ReadOK(Links, data, Recs, todo', z, job')
    <3>1. PICK n \in Nat :
            /\ k * sectorPerCluster + x.sector + 1 = n * sectorPerCluster + z.sector
            /\ Reaches(Links, todo', job.fst, n, z.cluster)
      BY <2>9, <1>2, <1>3, <1>4, <1>6, PlaceAfter DEF x
    <3>2. Len(job'.buffer) <= Len(job'.content)
          /\ Len(job'.content) - Len(job'.buffer) = n * sectorPerCluster + z.sector
      <4> DEFINE a == k * sectorPerCluster + x.sector
                 b == n * sectorPerCluster + z.sector
      <4>1. /\ Len(job.content) - Len(job.buffer) = a /\ a + 1 = b
            /\ Len(job.content) \in Nat /\ Len(job.buffer) \in Nat
            /\ Len(job.buffer) >= 1 /\ Len(job.buffer) <= Len(job.content)
            /\ Len(job'.buffer) = Len(job.buffer) - 1 /\ Len(job'.content) = Len(job.content)
        BY <3>1, <2>1, <2>2, <1>4, <1>5
      <4> DEFINE l == Len(job.content)
                 m == Len(job.buffer)
      <4>2. l \in Nat /\ m \in Nat /\ l - m = a /\ a + 1 = b /\ m >= 1 /\ m <= l
        BY <4>1
      <4> HIDE DEF a, b, l, m
      <4>3. m - 1 <= l /\ l - (m - 1) = b
        BY ONLY <4>2
      <4>4. Len(job'.buffer) = m - 1 /\ Len(job'.content) = l
        BY <4>1 DEF l, m
      <4> QED  BY <4>3, <4>4 DEF b
    <3> QED  BY <2>2, <2>9, <3>1, <3>2 DEF ContentOK, ReadOK
  <2>10. "content" \in Walking
    BY DEF Walking
  <2> QED  BY <1>1, <2>2, <2>6, <2>7, <2>8, <2>9, <2>10, MoveSized
<1> QED  BY <1>7, <1>8 DEF write_content

\* A read begins at the file's first cluster; a file without one is empty.
LEMMA ReadSized == ASSUME SInv, read_file PROVE Sized'
<1> DEFINE x == job.hit
           z == Frame("readFile", FstCluster(x))
<1>1. /\ DInv /\ Types /\ Running("read") /\ UNCHANGED disk /\ UNCHANGED <<todo, halted>>
      /\ SizesOK(Links, Recs) /\ JobOK(pc, job)
      /\ Then(IF x = NOWHERE THEN <<>> ELSE <<z>>, job)
  BY DEF SInv, read_file, DInv, SizedOK
<1>2. /\ todo = <<>> /\ pc # <<>> /\ pc \in Seq(FrameType) /\ Shape(pc) /\ pc[1].r = "read"
      /\ job \in JobType /\ 1 \in DOMAIN pc
  BY <1>1, Begins, Stack
<1>3. QueuedOK(Links, todo') /\ todo' = <<>>
  BY <1>1, <1>2, NothingQueued
<1>4. CASE x = NOWHERE
  BY <1>1, <1>2, <1>3, <1>4, ReturnSized
<1>5. CASE x # NOWHERE
  <2>0. PICK home, rank, anc :
          /\ DiskOK(Links, Recs, home, rank, anc, currentCluster, <<>>, pc, job)
          /\ FrameOK(Links, Recs, home, anc, currentCluster, <<>>, job, pc[1])
    BY <1>1, Begins
  <2>1. HitOK(Recs, home, currentCluster, job) /\ job.name \in Text
    BY <1>2, <2>0 DEF FrameOK
  <2>2. x \in Place /\ Recs[x].name \in Names /\ Recs[x] = Rec(x)
    <3>1. x \in Place /\ Recs[x].name \in Names
      BY <2>1, <1>2, <1>5, FoundKind, NamesKnown
    <3> QED  BY <3>1 DEF Recs
  <2> DEFINE e == Recs[x]
  <2>3. e.cluster \in {0} \cup Cluster /\ e.size \in Nat /\ Covers(Links, e.cluster, e.size)
    <3>1. e \in RecType
      BY <2>0, <2>2 DEF DiskOK, RecordsOK
    <3>2. Covers(Links, e.cluster, e.size)
      BY <1>1, <2>2 DEF SizesOK
    <3> QED  BY <3>1, <3>2 DEF RecType
  <2>4. FstCluster(x) = IF e.cluster = 0 THEN ROOT ELSE e.cluster
    BY <2>2 DEF FstCluster
  <2>5. FstCluster(x) \in {0} \cup Cluster
    BY <2>3, <2>4, Numbers
  <2>6. z \in FrameType /\ z.r = "readFile" /\ z.cluster = FstCluster(x) /\ z.sector = 0
    <3>1. "readFile" \in Routines
      BY DEF Routines
    <3> QED  BY <2>5, <3>1, FrameIs DEF Frame
  <2> HIDE DEF z, e
  <2>7. pc' = <<z>> /\ job' = job
    <3>1. Tail(pc) = <<>>
      BY <1>2, Alone
    <3>2. <<z>> \o <<>> = <<z>> /\ <<z>> # <<>>
      OBVIOUS
    <3> QED  BY <3>1, <3>2, <1>1, <1>5 DEF Then
  <2>8. job.buffer = <<>> /\ Len(job.buffer) = 0
    <3>1. job.buffer = <<>>
      BY <1>1, <1>2 DEF JobOK
    <3> QED  BY <3>1
  <2>9. /\ Links \in [Entries -> FatValue] /\ e.cluster \in FatValue
        /\ 0 * sectorPerCluster = 0 /\ 0 = 0 * sectorPerCluster + z.sector
    BY <1>1, <2>3, <2>6, OneCopy, Numbers, Fat32Assumption DEF Types, Links
  <2>10. ASSUME 0 < e.size PROVE NthOf(Links, e.cluster, 0) = z.cluster
    <3>1. NthOf(Links, e.cluster, 0) \in Cluster
      BY <2>3, <2>9, <2>10 DEF Covers
    <3>2. NthOf(Links, e.cluster, 0) = e.cluster
      BY <2>9, NthStep
    <3> QED  BY <3>1, <3>2, <2>4, <2>6, Numbers
  <2>11. ASSUME NEW k \in Nat, NEW s \in Sector PROVE ~(k * sectorPerCluster + s < 0)
    <3>0. s \in Nat
      BY Fat32Assumption DEF Sector
    <3>1. k * sectorPerCluster \in Nat
      BY Multiple
    <3> DEFINE a == k * sectorPerCluster
    <3>2. a \in Nat /\ s \in Nat
      BY <3>0, <3>1
    <3> HIDE DEF a
    <3>3. ~(a + s < 0)
      BY ONLY <3>2
    <3> QED  BY <3>3 DEF a
  <2>12. ASSUME 0 < e.size
         PROVE  \E k \in Nat : /\ Len(job.buffer) = k * sectorPerCluster + z.sector
                               /\ NthOf(Links, e.cluster, k) = z.cluster
    <3> WITNESS 0 \in Nat
    <3> QED  BY <2>8, <2>9, <2>10, <2>12
  <2>13. ReadOK(Links, data, Recs, todo', z, job)
    <3>1. /\ Len(job.buffer) <= e.size
          /\ \A k \in Nat, s \in Sector : ~(k * sectorPerCluster + s < Len(job.buffer))
          /\ Len(job.buffer) < e.size =>
               /\ todo' = <<>>
               /\ \E k \in Nat : /\ Len(job.buffer) = k * sectorPerCluster + z.sector
                                 /\ NthOf(Links, e.cluster, k) = z.cluster
      BY <2>3, <2>8, <2>11, <2>12, <1>3
    <3> QED  BY <3>1 DEF ReadOK, e
  <2>14. TopOK(Links, data, Recs, todo', pc', job', halted')
    <3>1. pc'[1] = z
      BY <2>7
    <3> QED  BY <2>6, <2>7, <2>13, <3>1 DEF TopOK, ContentOK, AddOK
  <2>15. JobOK(pc', job')
    <3>1. \A i \in DOMAIN <<z>> : <<z>>[i] = z
      BY <2>6, OneFrame
    <3> QED  BY <2>6, <2>7, <3>1 DEF JobOK
  <2>16. Links' = Links /\ Recs' = Recs /\ data' = data
    BY <1>1, SameDisk DEF disk
  <2> QED  BY <1>1, <1>3, <2>14, <2>15, <2>16 DEF Sized, SizedOK
<1> QED  BY <1>4, <1>5

LEMMA SamePlace ==
  ASSUME NEW a \in Nat, NEW b \in Nat, NEW s \in Sector, NEW t \in Sector,
         a * sectorPerCluster + s = b * sectorPerCluster + t
  PROVE  a = b /\ s = t
<1>1. s \in Nat /\ t \in Nat /\ s < sectorPerCluster /\ t < sectorPerCluster
  BY Fat32Assumption DEF Sector
<1>2. /\ a * sectorPerCluster \in Nat /\ b * sectorPerCluster \in Nat /\ sectorPerCluster \in Nat
      /\ a < b => a * sectorPerCluster + sectorPerCluster <= b * sectorPerCluster
      /\ b < a => b * sectorPerCluster + sectorPerCluster <= a * sectorPerCluster
  BY Multiple
<1> DEFINE x == a * sectorPerCluster
           y == b * sectorPerCluster
<1>3. /\ x \in Nat /\ y \in Nat /\ sectorPerCluster \in Nat /\ x + s = y + t
      /\ a < b => x + sectorPerCluster <= y
      /\ b < a => y + sectorPerCluster <= x
      /\ a = b => x = y
  BY <1>2
<1> HIDE DEF x, y
<1>4. ~(a < b) /\ ~(b < a)
  BY <1>1, <1>3
<1>5. a = b
  BY <1>4
<1> QED  BY <1>1, <1>3, <1>5

\* One more sector is read.
LEMMA ReadOn ==
  ASSUME NEW f \in [Entries -> FatValue], NEW d, NEW r, NEW x \in FrameType, NEW j, NEW i,
         ReadOK(f, d, r, <<>>, x, j), x.r = "readFile", x.cluster \in Cluster,
         r[j.hit].cluster \in FatValue, r[j.hit].size \in Nat,
         Covers(f, r[j.hit].cluster, r[j.hit].size),
         j.buffer \in Seq(TextType), Len(j.buffer) < r[j.hit].size, i.hit = j.hit,
         d[x.cluster][x.sector].text \in TextType,
         i.buffer = Append(j.buffer, d[x.cluster][x.sector].text),
         NEW z \in FrameType, NEW q, NextPlace(f, x, z, q, <<>>)
  PROVE  ReadOK(f, d, r, q, z, i)
<1> DEFINE h == r[j.hit].cluster
           size == r[j.hit].size
           m == Len(j.buffer)
<1>1. PICK k \in Nat : m = k * sectorPerCluster + x.sector /\ NthOf(f, h, k) = x.cluster
  BY DEF ReadOK
<1>2. \A l \in Nat, s \in Sector : l * sectorPerCluster + s < m =>
        j.buffer[l * sectorPerCluster + s + 1] = d[NthOf(f, h, l)][s].text
  BY DEF ReadOK
<1>3. m \in Nat /\ size \in Nat /\ m < size /\ x.sector \in Sector /\ z.sector \in Sector
      /\ h \in FatValue /\ Covers(f, h, size)
  BY DEF FrameType
<1>4. /\ Len(i.buffer) = m + 1 /\ i.buffer[m + 1] = d[x.cluster][x.sector].text
      /\ \A n \in 1..m : i.buffer[n] = j.buffer[n]
  OBVIOUS
<1>5. PICK n \in Nat :
        /\ k * sectorPerCluster + x.sector + 1 = n * sectorPerCluster + z.sector
        /\ NthOf(f, h, n) \in Cluster => NthOf(f, h, n) = z.cluster /\ q = <<>>
  BY <1>1, <1>3, PlaceAfter
<1> HIDE DEF m, size, h
<1>6. m + 1 = n * sectorPerCluster + z.sector
  BY <1>1, <1>5
<1>7. ASSUME NEW l \in Nat, NEW s \in Sector, l * sectorPerCluster + s < m + 1
      PROVE  i.buffer[l * sectorPerCluster + s + 1] = d[NthOf(f, h, l)][s].text
  <2> DEFINE a == l * sectorPerCluster + s
  <2>1. a \in Nat
    <3>1. s \in Nat
      BY Fat32Assumption DEF Sector
    <3>2. l * sectorPerCluster \in Nat
      BY Multiple
    <3> QED  BY <3>1, <3>2
  <2>2. CASE a = m
    <3>1. l = k /\ s = x.sector
      BY <2>2, <1>1, <1>3, SamePlace
    <3>2. i.buffer[a + 1] = d[NthOf(f, h, l)][s].text
      BY <3>1, <2>2, <1>1, <1>4
    <3> QED  BY <3>2
  <2>3. CASE a # m
    <3> DEFINE b == a
    <3>1. b \in Nat /\ b < m + 1 /\ b # m /\ m \in Nat
      BY <1>3, <1>7, <2>1, <2>3
    <3>2. j.buffer[b + 1] = d[NthOf(f, h, l)][s].text
      <4>1. b < m
        <5> HIDE DEF b
        <5> QED  BY ONLY <3>1
      <4> QED  BY <4>1, <1>2
    <3> HIDE DEF b
    <3>3. b + 1 \in 1..m
      BY ONLY <3>1
    <3>4. i.buffer[b + 1] = d[NthOf(f, h, l)][s].text
      BY <3>2, <3>3, <1>4
    <3> QED  BY <3>4 DEF b
  <2> QED  BY <2>2, <2>3
<1>8. ASSUME m + 1 < size PROVE q = <<>> /\ NthOf(f, h, n) = z.cluster
  <2>1. n * sectorPerCluster < size
    <3> DEFINE a == n * sectorPerCluster
    <3>1. z.sector \in Nat
      BY <1>3, Fat32Assumption DEF Sector
    <3>2. a \in Nat
      BY Multiple
    <3>3. m + 1 = a + z.sector /\ m \in Nat /\ size \in Nat /\ m + 1 < size
      BY <1>3, <1>6, <1>8
    <3> HIDE DEF a
    <3>4. a < size
      BY ONLY <3>1, <3>2, <3>3
    <3> QED  BY <3>4 DEF a
  <2>2. NthOf(f, h, n) \in Cluster
    BY <2>1, <1>3 DEF Covers
  <2> QED  BY <2>2, <1>5
<1>9. /\ Len(i.buffer) <= size
      /\ \A l \in Nat, s \in Sector : l * sectorPerCluster + s < Len(i.buffer) =>
           i.buffer[l * sectorPerCluster + s + 1] = d[NthOf(f, h, l)][s].text
      /\ Len(i.buffer) < size =>
           /\ q = <<>>
           /\ \E l \in Nat : Len(i.buffer) = l * sectorPerCluster + z.sector
                             /\ NthOf(f, h, l) = z.cluster
  <2>1. Len(i.buffer) <= size
    BY <1>3, <1>4
  <2>2. \A l \in Nat, s \in Sector : l * sectorPerCluster + s < Len(i.buffer) =>
           i.buffer[l * sectorPerCluster + s + 1] = d[NthOf(f, h, l)][s].text
    BY <1>4, <1>7
  <2>3. ASSUME Len(i.buffer) < size
        PROVE  /\ q = <<>>
               /\ \E l \in Nat : Len(i.buffer) = l * sectorPerCluster + z.sector
                                 /\ NthOf(f, h, l) = z.cluster
    BY <2>3, <1>4, <1>6, <1>8
  <2> QED  BY <2>1, <2>2, <2>3
<1> QED  BY <1>9, ZenonT(60) DEF ReadOK, h, size

LEMMA ReadFileSized == ASSUME SInv, readFile PROVE Sized'
<1>1. /\ DInv /\ Types /\ Running("readFile") /\ UNCHANGED disk
      /\ SizesOK(Links, Recs) /\ TopOK(Links, data, Recs, todo, pc, job, halted)
  BY DEF SInv, readFile, DInv, SizedOK
<1>2. /\ todo = <<>> /\ pc # <<>> /\ pc \in Seq(FrameType) /\ Shape(pc) /\ pc[1].r = "readFile"
      /\ pc[1] \in FrameType /\ job \in JobType /\ Top = pc[1] /\ ~halted
  BY <1>1, Begins DEF Running
<1> DEFINE x == pc[1]
<1>3. PICK home, rank, anc :
        DiskOK(Links, Recs, home, rank, anc, currentCluster, <<>>, pc, job)
  BY <1>1, Begins
<1>4. x.cluster \in Cluster /\ x.sector \in Sector
  BY <1>2, <1>3, WalkingAt DEF Walking, FrameType
<1>5. CASE Return /\ UNCHANGED <<todo, halted>>
  <2>1. QueuedOK(Links, todo')
    BY <1>2, <1>5, NothingQueued
  <2> QED  BY <1>1, <1>2, <1>5, <2>1, ReturnSized DEF Return
<1>6. CASE /\ Len(job.buffer) < Rec(job.hit).size /\ NextSector(<<>>)
           /\ job' = [job EXCEPT !.buffer = Append(@, Here.text)]
  <2>1. /\ job'.fst = job.fst /\ job'.content = job.content /\ job'.hit = job.hit
        /\ job'.buffer = Append(job.buffer, data[x.cluster][x.sector].text)
    BY <1>2, <1>6 DEF JobType, Here
  <2>2. data[x.cluster][x.sector].text \in TextType
    BY <1>1, <1>4, HereIs DEF SecType
  <2>3. /\ job.hit \in Place /\ Recs[job.hit].cluster \in FatValue /\ Recs[job.hit].size \in Nat
        /\ job.buffer \in Seq(TextType)
        /\ Covers(Links, Recs[job.hit].cluster, Recs[job.hit].size)
    BY <1>1, <1>2, <1>3, ReadKnown
  <2>4. Len(job.buffer) < Recs[job.hit].size
    BY <1>6, <2>3 DEF Recs
  <2>5. ReadOK(Links, data, Recs, <<>>, x, job) /\ Links \in [Entries -> FatValue]
    BY <1>1, <1>2, OneCopy DEF TopOK, Types, Links
  <2>6. ASSUME NEW z \in FrameType, z.r = "readFile", NextPlace(Links, pc[1], z, todo', <<>>)
        PROVE  ContentOK(Links, todo', z, job') /\ ReadOK(Links, data, Recs, todo', z, job')
    <3>1. ReadOK(Links, data, Recs, todo', z, job')
      BY <2>1, <2>2, <2>3, <2>4, <2>5, <2>6, <1>2, <1>4, ReadOn
    <3> QED  BY <2>6, <3>1 DEF ContentOK
  <2>7. <<>> \in Seq(Write) /\ QueuedOK(Links, <<>>) /\ "readFile" \in Walking
    BY NothingQueued DEF Walking
  <2> QED  BY <1>1, <1>6, <2>1, <2>6, <2>7, MoveSized
<1> QED  BY <1>5, <1>6 DEF readFile

----------------------------------------------------------------------------
\* The commands, the power cut and the start.

LEMMA ProcessSized ==
  ASSUME SInv, NEW cmd \in {"ls", "mkdir", "cd", "rm", "read", "write"}, NEW name, NEW content,
         cmd \in {"mkdir", "read"} => content = <<>>, process_cmd(cmd, name, content)
  PROVE  Sized'
<1> DEFINE calls == <<"list_files">> \o Calls(cmd)
           i == [NoJob EXCEPT !.cmd = cmd, !.name = name, !.content = content,
                              !.buffer = content]
<1>1. /\ todo' = <<>> /\ job' = i /\ UNCHANGED disk
      /\ pc' = [k \in DOMAIN calls |-> Frame(calls[k], currentCluster)]
  BY DEF process_cmd
<1>2. i.content = content /\ i.buffer = content
  BY DEF NoJob
<1>3. /\ DOMAIN calls = 1..Len(calls) /\ calls[1] = "list_files"
      /\ Len(calls) = IF cmd = "ls" THEN 1 ELSE IF cmd = "write" THEN 3 ELSE 2
      /\ cmd = "write" => calls[2] = "rmold" /\ calls[3] = "writeFile"
      /\ cmd \in {"mkdir", "cd", "rm", "read"} => calls[2] = cmd
  BY Listing
<1> HIDE DEF calls, i
<1>4. /\ \A k \in DOMAIN calls :
           \/ calls[k] \in {"list_files", "rmold", "writeFile"}
           \/ calls[k] = cmd /\ cmd \in {"mkdir", "cd", "rm", "read"}
      /\ 1 \in DOMAIN calls
  <2>1. \A k \in DOMAIN calls : k \in {1, 2, 3} /\ (k = 3 => cmd = "write")
                                /\ (k = 2 => cmd # "ls")
    BY <1>3
  <2> QED  BY <2>1, <1>3
<1>5. \A k \in DOMAIN pc' : pc'[k].r = calls[k] /\ k \in DOMAIN calls
  BY <1>1 DEF Frame
<1>6. pc'[1].r = "list_files"
  BY <1>1, <1>3, <1>4, <1>5
<1>7. JobOK(pc', job')
  BY <1>1, <1>2, <1>4, <1>5 DEF JobOK
<1>8. TopOK(Links, data, Recs, todo', pc', job', halted')
  BY <1>6 DEF TopOK, ContentOK, AddOK, ReadOK
<1>9. SizesOK(Links, Recs) /\ QueuedOK(Links, todo')
  BY <1>1, NothingQueued DEF SInv, SizedOK
<1>10. Links' = Links /\ Recs' = Recs /\ data' = data
  BY <1>1, SameDisk DEF disk
<1> QED  BY <1>7, <1>8, <1>9, <1>10 DEF Sized, SizedOK

LEMMA CommandSized == ASSUME SInv, Command PROVE Sized'
BY ProcessSized DEF Command

LEMMA CutSized == ASSUME SInv, PowerCut PROVE Sized'
<1>1. /\ pc' = <<>> /\ todo' = <<>> /\ SizesOK(Links, Recs)
      /\ Links' = Links /\ Recs' = Recs /\ data' = data
  BY SameDisk DEF PowerCut, SInv, SizedOK, disk
<1> QED  BY <1>1, NothingQueued DEF Sized, SizedOK, JobOK, TopOK

LEMMA StartSized == Init => Sized
<1> SUFFICES ASSUME Init PROVE Sized
  OBVIOUS
<1>1. PICK recs \in [Pos -> {ZeroRec} \cup {[ZeroRec EXCEPT !.name = n] : n \in Foreign}] :
        data = [c \in Cluster |-> [s \in Sector |->
                  IF c = ROOT /\ s = 0 THEN [ZeroSector EXCEPT !.recs = recs]
                  ELSE ZeroSector]]
  BY DEF Init
<1>2. ASSUME NEW x \in Place PROVE Recs[x].size = 0
  <2>1. x.cluster \in Cluster /\ x.sector \in Sector /\ x.pos \in Pos
    BY DEF Place
  <2>2. recs[x.pos].size = 0
    BY <2>1 DEF ZeroRec
  <2>3. data[x.cluster][x.sector].recs[x.pos] \in {recs[x.pos], ZeroRec}
    <3>1. CASE x.cluster = ROOT /\ x.sector = 0
      <4>1. data[x.cluster][x.sector] = [ZeroSector EXCEPT !.recs = recs]
        BY <1>1, <2>1, <3>1
      <4>2. [ZeroSector EXCEPT !.recs = recs].recs = recs
        BY DEF ZeroSector
      <4> QED  BY <4>1, <4>2
    <3>2. CASE ~(x.cluster = ROOT /\ x.sector = 0)
      <4>1. data[x.cluster][x.sector] = ZeroSector
        BY <1>1, <2>1, <3>2
      <4> QED  BY <4>1, <2>1, ZeroSectorKnown
    <3> QED  BY <3>1, <3>2
  <2>4. ZeroRec.size = 0
    BY DEF ZeroRec
  <2> QED  BY <2>2, <2>3, <2>4 DEF Recs, Rec
<1>3. SizesOK(Links, Recs)
  BY <1>2, CoversNone DEF SizesOK
<1>4. pc = <<>> /\ todo = <<>>
  BY DEF Init
<1> QED  BY <1>3, <1>4, NothingQueued DEF Sized, SizedOK, JobOK, TopOK

\* Every file has room for its content, on a disk of any size and wherever
\* the power goes; what is read of one so far is what lies in its chain.
THEOREM SizesInvariance == Spec => []SInv
<1>1. Init => Sized
  BY StartSized
<1>2. ASSUME SInv, [Next]_vars PROVE Sized'
  <2>1. CASE Command
    BY <2>1, <1>2, CommandSized
  <2>2. CASE PowerCut
    BY <2>2, <1>2, CutSized
  <2>3. CASE Stopped \/ UNCHANGED vars
    <3>1. UNCHANGED vars
      BY <2>3 DEF Stopped
    <3>2. Links' = Links /\ Recs' = Recs /\ data' = data /\ todo' = todo /\ pc' = pc
          /\ job' = job /\ halted' = halted
      BY <3>1, SameDisk DEF vars, disk
    <3>3. Sized
      BY <1>2 DEF SInv, Sized
    <3> QED  BY <3>2, <3>3 DEF Sized
  <2>4. CASE writeDiskSector
    BY <2>4, <1>2, WriteSized
  <2>5. CASE list_files
    BY <2>5, <1>2, ListSized
  <2>6. CASE removeFATChain
    BY <2>6, <1>2, FreeSized
  <2>7. ASSUME NEW r \in {"add", ".", ".."}, addFileToDirectory(r) PROVE Sized'
    BY <2>7, <1>2, AddSized
  <2>8. ASSUME NEW r \in {"rm", "rmold"}, removeEntryFromDirectory(r) PROVE Sized'
    BY <2>8, <1>2, RemoveSized
  <2>9. CASE mkdir
    BY <2>9, <1>2, MkdirSized
  <2>10. CASE change_directory
    BY <2>10, <1>2, CdSized
  <2>11. CASE writeFile
    BY <2>11, <1>2, WriteFileSized
  <2>12. CASE write_content
    BY <2>12, <1>2, ContentSized
  <2>13. CASE read_file
    BY <2>13, <1>2, ReadSized
  <2>14. CASE readFile
    BY <2>14, <1>2, ReadFileSized
  <2> QED  BY <1>2, <2>1, <2>2, <2>3, <2>4, <2>5, <2>6, <2>7, <2>8, <2>9, <2>10, <2>11, <2>12,
              <2>13, <2>14 DEF Next, Driver
<1>3. SInv <=> DInv /\ Sized
  BY DEF SInv, Sized
<1>4. Spec => []DInv
  BY DiskInvariance
<1> QED  BY <1>1, <1>2, <1>3, <1>4, PTL DEF Spec

\* A file that is read to its end gives the content its directory entry
\* promises, for a file and a disk of any size, however the file's clusters
\* lie and whatever power cuts came before.
THEOREM WholeFileRead == Spec => []ReadReturnsContent
<1>1. ASSUME SInv PROVE ReadReturnsContent
  <2> SUFFICES ASSUME Running("readFile"), Len(job.buffer) = Rec(job.hit).size
               PROVE  job.buffer = Content(Rec(job.hit))
    BY DEF ReadReturnsContent
  <2>1. /\ DInv /\ Types /\ SizesOK(Links, Recs)
        /\ TopOK(Links, data, Recs, todo, pc, job, halted)
    BY <1>1 DEF SInv, DInv, SizedOK
  <2>2. /\ todo = <<>> /\ pc # <<>> /\ pc[1].r = "readFile" /\ ~halted
    BY <2>1, Begins DEF Running
  <2>3. PICK home, rank, anc :
          DiskOK(Links, Recs, home, rank, anc, currentCluster, <<>>, pc, job)
    BY <2>1, Begins
  <2>4. /\ job.hit \in Place /\ Recs[job.hit].cluster \in FatValue
        /\ Recs[job.hit].size \in Nat /\ job.buffer \in Seq(TextType)
        /\ Covers(Links, Recs[job.hit].cluster, Recs[job.hit].size)
    BY <2>1, <2>2, <2>3, ReadKnown
  <2> DEFINE e == Rec(job.hit)
             b == job.buffer
  <2>5. Recs[job.hit] = e
    BY <2>4 DEF Recs
  <2>6. /\ e.size \in Nat /\ Covers(Links, e.cluster, e.size)
        /\ Len(b) = e.size /\ b \in [1..e.size -> TextType]
    BY <2>4, <2>5
  <2>7. \A k \in Nat, s \in Sector : k * sectorPerCluster + s < Len(b) =>
          b[k * sectorPerCluster + s + 1] = data[NthOf(Links, e.cluster, k)][s].text
    BY <2>1, <2>2, <2>5 DEF TopOK, ReadOK
  <2> HIDE DEF e, b
  <2>8. ASSUME NEW i \in 1..e.size
        PROVE  LET c == Nth(e.cluster, (i - 1) \div sectorPerCluster)
               IN  b[i] = IF c \in Cluster THEN data[c][(i - 1) % sectorPerCluster].text
                          ELSE NOTHING
    <3> DEFINE k == (i - 1) \div sectorPerCluster
               s == (i - 1) % sectorPerCluster
               a == k * sectorPerCluster
    <3>1. i \in Nat /\ i - 1 \in Nat /\ i - 1 < e.size
      BY <2>6
    <3>2. k \in Nat /\ s \in 0..(sectorPerCluster - 1) /\ i - 1 = sectorPerCluster * k + s
          /\ sectorPerCluster \in Nat
      <4>1. \A m \in Nat, n \in Nat \ {0} :
              m \div n \in Nat /\ m % n \in 0..(n - 1) /\ m = n * (m \div n) + (m % n)
        OBVIOUS
      <4>2. sectorPerCluster \in Nat \ {0}
        BY Fat32Assumption
      <4> HIDE DEF k, s
      <4> QED  BY <3>1, <4>1, <4>2 DEF k, s
    <3> HIDE DEF k, s
    <3>3. a \in Nat /\ i - 1 = a + s /\ s \in Nat /\ s \in Sector
      <4>1. sectorPerCluster * k = k * sectorPerCluster
        BY <3>2
      <4>2. k * sectorPerCluster \in Nat
        BY <3>2, Multiple
      <4> QED  BY <3>2, <4>1, <4>2 DEF Sector
    <3> HIDE DEF a
    <3>4. a < e.size /\ a + s < Len(b) /\ a + s + 1 = i
      BY <3>1, <3>3, <2>6
    <3>5. NthOf(Links, e.cluster, k) \in Cluster
      BY <3>2, <3>4, <2>6 DEF Covers, a
    <3>6. b[a + s + 1] = data[NthOf(Links, e.cluster, k)][s].text
      BY <3>2, <3>3, <3>4, <2>7 DEF a
    <3>7. Nth(e.cluster, k) = NthOf(Links, e.cluster, k)
      BY NthIsNthOf
    <3>8. b[i] = IF Nth(e.cluster, k) \in Cluster THEN data[Nth(e.cluster, k)][s].text ELSE NOTHING
      BY <3>4, <3>5, <3>6, <3>7
    <3> QED  BY <3>8 DEF k, s
  <2>9. b = [i \in 1..e.size |->
               LET c == Nth(e.cluster, (i - 1) \div sectorPerCluster)
               IN  IF c \in Cluster THEN data[c][(i - 1) % sectorPerCluster].text ELSE NOTHING]
    BY <2>6, <2>8
  <2> QED  BY <2>9 DEF Content, e, b
<1> QED  BY <1>1, SizesInvariance, PTL

----------------------------------------------------------------------------
\* What is in use is held by somebody, and every directory has its `..'.

InChain(f, h, c) == \E k \in Nat : NthOf(f, h, k) = c

\* Record e is about to be written; one of the routines rs is still to run.
Stated(q, e)  == \E i \in DOMAIN q, o \in Pos : q[i].w = "sector" /\ q[i].val.recs[o] = e
Making(p, rs) == \E i \in DOMAIN p : p[i].r \in rs

Named(q, h) == \E e \in RecType : Stated(q, e) /\ e.name \in Names /\ e.cluster = h

Freed(p, h) == p # <<>> /\ p[1].r = "removeFATChain" /\ p[1].cluster = h

\* Somebody knows of the chain of h: a record, one about to be written, the
\* file in the making, or removeFATChain.
Held(r, q, p, j, h) ==
  \/ Anchored(r, h) \/ Named(q, h) \/ Freed(p, h)
  \/ Making(p, {"content", "add"}) /\ h = j.fst

Kept(f, r, q, p, j, c) ==
  \/ \E h \in Cluster : Held(r, q, p, j, h) /\ InChain(f, h, c)
  \/ \E l \in Cluster : Has(q, SetEntry(l, c))
  \/ Has(q, SetEntry(c, FREE))

AllKept(f, r, q, p, j) == \A c \in Cluster : f[c] # FREE => Kept(f, r, q, p, j, c)

\* Directory h has its `..', or will get it.
Dotted(f, r, q, p, j, h) ==
  \/ \E y \in Place : InChain(f, h, y.cluster) /\ r[y].name = DOTDOT
  \/ \E i \in DOMAIN q, o \in Pos :
       /\ q[i].w = "sector" /\ q[i].val.recs[o].name = DOTDOT
       /\ InChain(f, h, q[i].cluster)
  \/ Making(p, {".."}) /\ h = j.fst

AllDotted(f, r, q, p, j) ==
  /\ \A x \in Place : r[x].name \in Names /\ r[x].dir => Dotted(f, r, q, p, j, r[x].cluster)
  /\ \A e \in RecType : Stated(q, e) /\ e.name \in Names /\ e.dir
                          => Dotted(f, r, q, p, j, e.cluster)
  /\ Making(p, {"add"}) /\ j.cmd = "mkdir" => Making(p, {".."})

\* A record about to be removed is one of the current directory, and
\* removeFATChain has its chain.
RemovalOK(f, r, cur, q, p) ==
  \A i \in DOMAIN q, o \in Pos :
    LET x == Spot(q[i].cluster, q[i].sector, o)
    IN  q[i].w = "sector" /\ q[i].val.recs[o].name = REMOVED /\ r[x].name \in Names
          => InChain(f, cur, x.cluster) /\ Freed(p, r[x].cluster)

\* A cluster about to be marked is the new file's, or about to be linked.
MarkedOK(q, p, j) ==
  \A c \in Cluster : Has(q, SetEntry(c, END_CLUSTER)) =>
    \/ Making(p, {"content", "add"}) /\ c = j.fst
    \/ \E l \in Cluster : Has(q, SetEntry(l, c))

\* Every record of a file or directory is in a directory one can reach.
AllReached == \A x \in Place : Recs[x].name \in Names =>
                \E h \in Directories : x.cluster \in Chain(h)

\* What is in a directory that was removed, or in a text file the shell took
\* for a directory, is out of reach.
Excused == DirectoryRemoved \/ ~KindsApart

HeldOK ==
  /\ RemovalOK(Links, Recs, currentCluster, todo, pc) /\ MarkedOK(todo, pc, job)
  /\ AllDotted(Links, Recs, todo, pc, job)
  /\ Excused \/ (AllReached /\ AllKept(Links, Recs, todo, pc, job))

KInv == cuts = 0 /\ ~halted => HeldOK

----------------------------------------------------------------------------
\* Chains.

LEMMA InChainFirst ==
  ASSUME NEW f \in [Entries -> FatValue], NEW h \in FatValue
  PROVE  InChain(f, h, h)
<1>1. NthOf(f, h, 0) = h /\ 0 \in Nat
  BY NthStep
<1> QED  BY <1>1 DEF InChain

LEMMA InChainNext ==
  ASSUME NEW f \in [Entries -> FatValue], NEW h \in FatValue, NEW c \in Cluster, InChain(f, h, c)
  PROVE  InChain(f, h, f[c])
<1>1. PICK k \in Nat : NthOf(f, h, k) = c
  BY DEF InChain
<1>2. NthOf(f, h, k + 1) = f[c] /\ k + 1 \in Nat
  BY <1>1, NthStep
<1> QED  BY <1>2 DEF InChain

\* All clusters of a home are in the chain of its head.
LEMMA HomeInChain ==
  ASSUME NEW f, NEW home, NEW rank, TableOK(f, home, rank), NEW h \in Cluster, home[h] = h,
         NEW d \in Cluster
  PROVE  home[d] = h <=> InChain(f, h, d)
<1>0. f \in [Entries -> FatValue] /\ h \in FatValue
  BY Numbers DEF TableOK
<1> DEFINE Bad == {n \in Nat : \E c \in Cluster : rank[c] = n /\ home[c] = h /\ ~InChain(f, h, c)}
<1>1. ASSUME NEW m \in Bad PROVE \E n \in Bad : n < m
  <2>1. PICK c \in Cluster : rank[c] = m /\ home[c] = h /\ ~InChain(f, h, c)
    OBVIOUS
  <2>2. c # h
    BY <2>1, <1>0, InChainFirst
  <2>3. home[c] \notin {0, c}
    BY <2>1, <2>2, Numbers
  <2>4. PICK b \in Cluster : f[b] = c
    BY <2>3 DEF TableOK
  <2>5. home[b] = h /\ rank[b] < rank[c] /\ rank[b] \in Nat
    BY <2>1, <2>4 DEF TableOK
  <2>6. ~InChain(f, h, b)
    BY <2>1, <2>4, <1>0, InChainNext
  <2> QED  BY <2>1, <2>5, <2>6
<1>2. Bad \in SUBSET Nat
  OBVIOUS
<1> HIDE DEF Bad
<1>3. Bad = {}
  BY <1>1, <1>2, NoLeast
<1>4. ASSUME home[d] = h PROVE InChain(f, h, d)
  <2>1. rank[d] \in Nat
    BY DEF TableOK
  <2> QED  BY <2>1, <1>3, <1>4 DEF Bad
<1>5. ASSUME InChain(f, h, d) PROVE home[d] = h
  BY <1>5, NthHome DEF InChain
<1> QED  BY <1>4, <1>5

\* A chain stays as far as its links do.
LEMMA InChainKept ==
  ASSUME NEW f \in [Entries -> FatValue], NEW g \in [Entries -> FatValue], NEW h \in FatValue,
         NEW c \in Cluster, InChain(f, h, c),
         \A b \in Cluster : InChain(f, h, b) /\ f[b] \in Cluster => g[b] = f[b]
  PROVE  InChain(g, h, c)
<1>1. PICK k \in Nat : NthOf(f, h, k) = c
  BY DEF InChain
<1>2. ASSUME NEW i \in 0..k, i < k PROVE g[NthOf(f, h, i)] = f[NthOf(f, h, i)]
  <2>1. NthOf(f, h, i) \in Cluster /\ f[NthOf(f, h, i)] = NthOf(f, h, i + 1)
    BY <1>1, <1>2, NthBefore
  <2>2. i + 1 \in 0..k /\ i \in Nat
    BY <1>2
  <2>3. NthOf(f, h, i + 1) \in Cluster
    BY <2>2, <1>1, NthBefore
  <2> QED  BY <2>1, <2>2, <2>3 DEF InChain
<1>3. NthOf(g, h, k) = c
  BY <1>1, <1>2, NthKept
<1> QED  BY <1>3 DEF InChain

\* The chain of c goes on with that of its successor.
LEMMA InChainRest ==
  ASSUME NEW f \in [Entries -> FatValue], NEW c \in Cluster, NEW b, b # c, InChain(f, c, b)
  PROVE  InChain(f, f[c], b)
<1>0. c \in FatValue /\ f[c] \in FatValue
  BY Numbers
<1> DEFINE d == f[c]
           Bad == {n \in Nat : NthOf(f, c, n + 1) # NthOf(f, d, n)}
<1>1. ASSUME NEW m \in Bad PROVE \E n \in Bad : n < m
  <2>1. m # 0
    BY <1>0, NthStep
  <2>2. m - 1 \in Nat /\ (m - 1) + 1 = m /\ m - 1 < m /\ m \in Nat
    BY <2>1
  <2>3. /\ NthOf(f, c, m + 1) = IF NthOf(f, c, m) \in Cluster THEN f[NthOf(f, c, m)] ELSE 0
        /\ NthOf(f, d, m) = IF NthOf(f, d, m - 1) \in Cluster THEN f[NthOf(f, d, m - 1)] ELSE 0
    BY <2>2, <1>0, NthStep
  <2>4. NthOf(f, c, m) # NthOf(f, d, m - 1)
    BY <2>3
  <2>5. m - 1 \in Bad
    BY <2>2, <2>4
  <2> QED  BY <2>2, <2>5
<1>2. Bad \in SUBSET Nat
  OBVIOUS
<1> HIDE DEF Bad
<1>3. Bad = {}
  BY <1>1, <1>2, NoLeast
<1>4. PICK k \in Nat : NthOf(f, c, k) = b
  BY DEF InChain
<1>5. k # 0
  BY <1>0, <1>4, NthStep
<1>6. k - 1 \in Nat /\ (k - 1) + 1 = k
  BY <1>5
<1>7. NthOf(f, d, k - 1) = b
  BY <1>3, <1>4, <1>6 DEF Bad
<1> QED  BY <1>6, <1>7 DEF InChain

LEMMA AnchoredChain ==
  ASSUME Types, NEW home, NEW rank, TableOK(Links, home, rank), RecordsOK(Links, Recs, home),
         NEW h, Anchored(Recs, h)
  PROVE  /\ h \in Cluster /\ home[h] = h /\ Links[h] # FREE
         /\ \A c : c \in Chain(h) <=> c \in Cluster /\ InChain(Links, h, c)
         /\ \A c : c \in Chain(h) <=> c \in Cluster /\ home[c] = h
<1>1. h \in Cluster /\ home[h] = h /\ Links[h] # FREE
  BY AnchoredHome
<1>2. Chain(h) = {c \in Cluster : home[c] = h}
  BY <1>1, ChainHome
<1>3. \A c \in Cluster : home[c] = h <=> InChain(Links, h, c)
  BY <1>1, HomeInChain
<1> QED  BY <1>1, <1>2, <1>3

LEMMA DirectoriesAnchored ==
  ASSUME Types, NEW home, NEW rank, TableOK(Links, home, rank), RecordsOK(Links, Recs, home)
  PROVE  \A h \in Directories : Anchored(Recs, h)
<1> DEFINE S == {h \in Cluster : Anchored(Recs, h)}
<1>1. ROOT \in S
  BY Numbers DEF Anchored
<1>2. ASSUME NEW h \in S PROVE Subdirectories(h) \subseteq S
  <2> SUFFICES ASSUME NEW x \in Places(h), Rec(x).dir PROVE Rec(x).cluster \in S
    BY DEF Subdirectories
  <2>1. x \in Place /\ Recs[x].name \in Names /\ Recs[x] = Rec(x) /\ Recs[x] \in RecType
    BY PlacesIn
  <2>2. Recs[x].cluster # 0
    BY <2>1 DEF RecordsOK
  <2>3. Recs[x].cluster \in Cluster
    BY <2>1, <2>2 DEF RecType
  <2> QED  BY <2>1, <2>2, <2>3 DEF Anchored, Owned, Owner
<1>3. Directories \subseteq S
  BY <1>1, <1>2, DirectoriesAre
<1> QED  BY <1>3

----------------------------------------------------------------------------
\* Queues.

\* Once the first write is done, only blank records are left to be written.
LEMMA RestPlain ==
  ASSUME NEW f, NEW r, NEW home, NEW anc, NEW cur, NEW q, NEW fst,
         QueueOK(f, r, home, anc, cur, q, fst), q # <<>>
  PROVE  Plain(Tail(q))
<1>1. q \in Seq(Write)
  BY DEF QueueOK
<1>2. /\ Len(q) \in Nat /\ Len(Tail(q)) = Len(q) - 1 /\ Tail(q) \in Seq(Write)
      /\ \A i \in DOMAIN Tail(q) : i + 1 \in DOMAIN q /\ Tail(q)[i] = q[i + 1]
  BY <1>1, Rest
<1> SUFFICES ASSUME NEW i \in DOMAIN Tail(q), Tail(q)[i].w = "sector", NEW o \in Pos
             PROVE  Tail(q)[i].val.recs[o] = ZeroRec
  BY DEF Plain
<1>3. Len(q) # 1
  BY <1>2
<1>4. SectorOK(f, r, home, anc, cur, q, i + 1)
  BY <1>2 DEF QueueOK
<1> QED  BY <1>2, <1>3, <1>4 DEF SectorOK

LEMMA PlainMeans ==
  ASSUME NEW q, Plain(q)
  PROVE  /\ \A e : Stated(q, e) => e.name \notin Names
         /\ \A h : ~Named(q, h)
         /\ \A i \in DOMAIN q, o \in Pos :
              q[i].w = "sector" => q[i].val.recs[o].name \notin {DOTDOT, REMOVED}
         /\ \A f, r, cur, p : RemovalOK(f, r, cur, q, p)
<1>1. \A i \in DOMAIN q, o \in Pos : q[i].w = "sector" => q[i].val.recs[o] = ZeroRec
  BY DEF Plain
<1>2. ZeroRec.name = UNUSED /\ UNUSED \notin Names \cup {DOTDOT, REMOVED}
  BY NamesKnown
<1>3. \A e : Stated(q, e) => e.name \notin Names
  BY <1>1, <1>2 DEF Stated
<1>4. \A i \in DOMAIN q, o \in Pos :
        q[i].w = "sector" => q[i].val.recs[o].name \notin {DOTDOT, REMOVED}
  BY <1>1, <1>2
<1>5. \A h : ~Named(q, h)
  BY <1>3 DEF Named
<1>6. \A f, r, cur, p : RemovalOK(f, r, cur, q, p)
  BY <1>4 DEF RemovalOK
<1> QED  BY <1>3, <1>4, <1>5, <1>6

\* With a write to the table first, all of them are blank.
LEMMA EntryPlain ==
  ASSUME NEW q \in Seq(Write), q # <<>>, Plain(Tail(q)), q[1].w # "sector"
  PROVE  Plain(q)
<1> SUFFICES ASSUME NEW i \in DOMAIN q, q[i].w = "sector", NEW o \in Pos
             PROVE  q[i].val.recs[o] = ZeroRec
  BY DEF Plain
<1>1. i # 1
  OBVIOUS
<1>2. i - 1 \in DOMAIN Tail(q) /\ Tail(q)[i - 1] = q[i]
  BY <1>1, Rest
<1> QED  BY <1>2 DEF Plain

\* With a blank one first, too.
LEMMA BlankPlain ==
  ASSUME NEW q \in Seq(Write), q # <<>>, Plain(Tail(q)), \A o \in Pos : q[1].val.recs[o] = ZeroRec
  PROVE  Plain(q)
<1> SUFFICES ASSUME NEW i \in DOMAIN q, q[i].w = "sector", NEW o \in Pos
             PROVE  q[i].val.recs[o] = ZeroRec
  BY DEF Plain
<1>1. CASE i # 1
  <2>1. i - 1 \in DOMAIN Tail(q) /\ Tail(q)[i - 1] = q[i]
    BY <1>1, Rest
  <2> QED  BY <2>1 DEF Plain
<1> QED  BY <1>1

----------------------------------------------------------------------------
\* Writes to the table.

\* A head is in no chain but its own.
LEMMA HeadAlone ==
  ASSUME NEW f, NEW home, NEW rank, TableOK(f, home, rank), NEW h \in Cluster, NEW c \in Cluster,
         InChain(f, h, c), home[c] = c
  PROVE  c = h
<1>0. f \in [Entries -> FatValue] /\ h \in FatValue
  BY Numbers DEF TableOK
<1>1. PICK k \in Nat : NthOf(f, h, k) = c
  BY DEF InChain
<1>2. CASE k = 0
  BY <1>0, <1>1, <1>2, NthStep
<1>3. CASE k # 0
  <2>1. k - 1 \in 0..k /\ k - 1 < k /\ (k - 1) + 1 = k
    BY <1>3
  <2>2. NthOf(f, h, k - 1) \in Cluster /\ f[NthOf(f, h, k - 1)] = NthOf(f, h, (k - 1) + 1)
    BY <2>1, <1>0, <1>1, NthBefore
  <2>3. home[c] # c
    BY <2>1, <2>2, <1>1 DEF TableOK
  <2> QED  BY <2>3
<1> QED  BY <1>2, <1>3

\* What a queued write to the table may be.
LEMMA EntryKinds ==
  ASSUME NEW f, NEW r, NEW home, NEW rank, NEW anc, NEW cur, NEW q, NEW fst,
         TableOK(f, home, rank), QueueOK(f, r, home, anc, cur, q, fst), q # <<>>, q[1].w = "entry"
  PROVE  /\ q \in Seq(Write) /\ q[1] = SetEntry(q[1].cluster, q[1].val)
         /\ q[1].cluster \in Entries /\ q[1].val \in FatValue
         /\ [f EXCEPT ![q[1].cluster] = q[1].val] \in [Entries -> FatValue]
         /\ \A b \in Entries : b # q[1].cluster =>
              [f EXCEPT ![q[1].cluster] = q[1].val][b] = f[b]
         /\ [f EXCEPT ![q[1].cluster] = q[1].val][q[1].cluster] = q[1].val
         /\ \/ q[1].val = END_CLUSTER /\ MarkOK(f, q[1].cluster)
            \/ /\ q[1].val = FREE /\ FreeOK(f, r, home, anc, q[1].cluster)
               /\ \A w : Has(q, w) => w = q[1] \/ w.w = "copy"
            \/ /\ q[1].val \in Cluster
               /\ LinkOK(f, r, home, q, fst, q[1].cluster, q[1].val)
               /\ \A w : Has(q, w) => w = q[1] \/ w.w = "copy"
<1>1. q \in Seq(Write) /\ 1 \in DOMAIN q
  BY Rest DEF QueueOK
<1>2. q[1] \in Write
  BY <1>1, Rest
<1>3. q[1] = SetEntry(q[1].cluster, q[1].val) /\ q[1] \in EntryWrite
  BY <1>2, WriteKinds
<1>4. q[1].cluster \in Entries /\ q[1].val \in {FREE, END_CLUSTER} \cup Cluster
  BY <1>3 DEF EntryWrite
<1>5. q[1].val \in FatValue /\ f \in [Entries -> FatValue]
  BY <1>4 DEF TableOK, FatValue
<1>6. EntryOK(f, r, home, anc, q, fst, 1)
  BY <1>1 DEF QueueOK
<1>7. \A m \in DOMAIN q : m # 1 => m > 1
  BY <1>1
<1>8. \/ q[1].val = END_CLUSTER /\ MarkOK(f, q[1].cluster)
      \/ /\ q[1].val = FREE /\ FreeOK(f, r, home, anc, q[1].cluster)
         /\ \A w : Has(q, w) => w = q[1] \/ w.w = "copy"
      \/ /\ q[1].val \in Cluster
         /\ LinkOK(f, r, home, q, fst, q[1].cluster, q[1].val)
         /\ \A w : Has(q, w) => w = q[1] \/ w.w = "copy"
  <2>1. CASE q[1].val = END_CLUSTER
    BY <2>1, <1>6, Numbers DEF EntryOK
  <2>2. CASE q[1].val = FREE
    <3>1. FreeOK(f, r, home, anc, q[1].cluster) /\ \A m \in DOMAIN q : m # 1 => q[m].w = "copy"
      BY <2>2, <1>6, Numbers DEF EntryOK
    <3> QED  BY <3>1, <2>2 DEF Has
  <2>3. CASE q[1].val \in Cluster
    <3>1. /\ LinkOK(f, r, home, q, fst, q[1].cluster, q[1].val)
          /\ \A m \in DOMAIN q : m > 1 => q[m].w = "copy"
      BY <2>3, <1>6, Numbers DEF EntryOK
    <3> QED  BY <3>1, <2>3, <1>7 DEF Has
  <2> QED  BY <1>4, <2>1, <2>2, <2>3
<1> QED  BY <1>1, <1>3, <1>4, <1>5, <1>8

\* It leaves every chain but the one whose head it frees.
LEMMA EntryChain ==
  ASSUME NEW f, NEW r, NEW home, NEW rank, NEW anc, NEW cur, NEW q, NEW fst,
         TableOK(f, home, rank), QueueOK(f, r, home, anc, cur, q, fst), q # <<>>, q[1].w = "entry",
         NEW h \in Cluster, q[1].val = FREE => h # q[1].cluster,
         NEW c \in Cluster, InChain(f, h, c)
  PROVE  InChain([f EXCEPT ![q[1].cluster] = q[1].val], h, c)
<1> DEFINE l == q[1].cluster
           g == [f EXCEPT ![l] = q[1].val]
<1>1. /\ f \in [Entries -> FatValue] /\ g \in [Entries -> FatValue] /\ h \in FatValue
      /\ \A b \in Entries : b # l => g[b] = f[b]
  <2>1. g \in [Entries -> FatValue] /\ \A b \in Entries : b # l => g[b] = f[b]
    BY EntryKinds
  <2> QED  BY <2>1, Numbers DEF TableOK
<1>2. ASSUME NEW b \in Cluster, InChain(f, h, b), f[b] \in Cluster, b = l
      PROVE  FALSE
  <2>1. CASE q[1].val = END_CLUSTER /\ MarkOK(f, l)
    BY <2>1, <1>2, Numbers DEF MarkOK
  <2>2. CASE q[1].val = FREE /\ FreeOK(f, r, home, anc, l)
    <3>1. home[b] = b
      BY <2>2, <1>2, Numbers DEF FreeOK
    <3> QED  BY <3>1, <2>2, <1>2, HeadAlone
  <2>3. CASE LinkOK(f, r, home, q, fst, l, q[1].val)
    BY <2>3, <1>2, Numbers DEF LinkOK
  <2> QED  BY <2>1, <2>2, <2>3, EntryKinds
<1> HIDE DEF g
<1>3. \A b \in Cluster : InChain(f, h, b) /\ f[b] \in Cluster => g[b] = f[b]
  BY <1>1, <1>2, Numbers
<1>4. InChain(g, h, c)
  BY <1>1, <1>3, InChainKept
<1> QED  BY <1>4 DEF g

LEMMA SetEntryIs ==
  \A l, v : SetEntry(l, v).w = "entry" /\ SetEntry(l, v).cluster = l /\ SetEntry(l, v).val = v
BY DEF SetEntry

LEMMA MarkedRest ==
  ASSUME NEW f, NEW r, NEW home, NEW rank, NEW anc, NEW cur, NEW q, NEW p, NEW j,
         DiskOK(f, r, home, rank, anc, cur, q, p, j), q # <<>>, MarkedOK(q, p, j)
  PROVE  MarkedOK(Tail(q), p, j)
<1>1. q \in Seq(Write) /\ TableOK(f, home, rank) /\ QueueOK(f, r, home, anc, cur, q, j.fst)
  BY DEF DiskOK, QueueOK
<1>2. \A w : /\ Has(Tail(q), w) => Has(q, w)
             /\ Has(q, w) => q[1] = w \/ Has(Tail(q), w)
  BY <1>1, Rest
<1> SUFFICES ASSUME NEW c \in Cluster, Has(Tail(q), SetEntry(c, END_CLUSTER)),
                    NEW l \in Cluster, Has(q, SetEntry(l, c))
             PROVE  Has(Tail(q), SetEntry(l, c))
  BY <1>2 DEF MarkedOK
<1>3. CASE q[1] = SetEntry(l, c)
  <2>1. q[1].w = "entry" /\ q[1].val = c /\ c # END_CLUSTER /\ c # FREE
    BY <1>3, SetEntryIs, Numbers
  <2>2. \A w : Has(q, w) => w = q[1] \/ w.w = "copy"
    BY <2>1, <1>1, EntryKinds
  <2>3. Has(q, SetEntry(c, END_CLUSTER))
    BY <1>2
  <2>4. SetEntry(c, END_CLUSTER).w = "entry" /\ SetEntry(c, END_CLUSTER).val = END_CLUSTER
    BY SetEntryIs
  <2> QED  BY <2>1, <2>2, <2>3, <2>4
<1> QED  BY <1>2, <1>3

\* A write to the table takes no `..' away.
LEMMA EntryDotted ==
  ASSUME NEW f, NEW r, NEW home, NEW rank, NEW anc, NEW cur, NEW q, NEW p, NEW j,
         DiskOK(f, r, home, rank, anc, cur, q, p, j), q # <<>>, q[1].w = "entry",
         AllDotted(f, r, q, p, j)
  PROVE  AllDotted([f EXCEPT ![q[1].cluster] = q[1].val], r, Tail(q), p, j)
<1> DEFINE g == [f EXCEPT ![q[1].cluster] = q[1].val]
<1>1. /\ TableOK(f, home, rank) /\ QueueOK(f, r, home, anc, cur, q, j.fst) /\ q \in Seq(Write)
      /\ RecordsOK(f, r, home)
  BY DEF DiskOK, QueueOK
<1>2. Plain(Tail(q)) /\ Plain(q)
  BY <1>1, RestPlain, EntryPlain
<1>3. ASSUME NEW x \in Place, r[x].name \in Names, r[x].dir
      PROVE  Dotted(g, r, Tail(q), p, j, r[x].cluster)
  <2> DEFINE h == r[x].cluster
  <2>1. h # 0 /\ h # ROOT /\ h \in {0} \cup Cluster
    BY <1>1, <1>3 DEF RecordsOK, RecType
  <2>2. h \in Cluster /\ Owned(r, h)
    BY <2>1, <1>3 DEF Owned, Owner
  <2>3. Dotted(f, r, q, p, j, h)
    BY <1>3 DEF AllDotted
  <2>4. CASE \E y \in Place : InChain(f, h, y.cluster) /\ r[y].name = DOTDOT
    <3>1. PICK y \in Place : InChain(f, h, y.cluster) /\ r[y].name = DOTDOT
      BY <2>4
    <3>2. q[1].val = FREE => h # q[1].cluster
      <4> SUFFICES ASSUME q[1].val = FREE PROVE h # q[1].cluster
        OBVIOUS
      <4>1. FreeOK(f, r, home, anc, q[1].cluster)
        BY <1>1, EntryKinds, Numbers
      <4> QED  BY <4>1, <2>2, Numbers DEF FreeOK
    <3>3. InChain(g, h, y.cluster)
      BY <3>1, <3>2, <2>2, <1>1, EntryChain, PlaceCluster
    <3> QED  BY <3>1, <3>3 DEF Dotted
  <2>5. CASE Making(p, {".."}) /\ h = j.fst
    BY <2>5 DEF Dotted
  <2> QED  BY <2>3, <2>4, <2>5, <1>2, PlainMeans DEF Dotted
<1>4. ASSUME NEW e \in RecType, Stated(Tail(q), e), e.name \in Names PROVE FALSE
  BY <1>2, <1>4, PlainMeans
<1> HIDE DEF g
<1>5. AllDotted(g, r, Tail(q), p, j)
  BY <1>3, <1>4 DEF AllDotted
<1> QED  BY <1>5 DEF g

\* It leaves no cluster in use that nobody knows of.
LEMMA EntryKept ==
  ASSUME NEW f, NEW r, NEW home, NEW rank, NEW anc, NEW cur, NEW q, NEW p, NEW j,
         DiskOK(f, r, home, rank, anc, cur, q, p, j), q # <<>>, q[1].w = "entry",
         MarkedOK(q, p, j), AllKept(f, r, q, p, j)
  PROVE  AllKept([f EXCEPT ![q[1].cluster] = q[1].val], r, Tail(q), p, j)
<1> DEFINE l == q[1].cluster
           v == q[1].val
           g == [f EXCEPT ![l] = v]
<1>1. /\ TableOK(f, home, rank) /\ QueueOK(f, r, home, anc, cur, q, j.fst) /\ q \in Seq(Write)
      /\ RecordsOK(f, r, home) /\ FramesOK(f, r, home, anc, cur, q, p, j)
      /\ f \in [Entries -> FatValue]
  BY DEF DiskOK, QueueOK, TableOK
<1>2. Plain(Tail(q)) /\ Plain(q)
  BY <1>1, RestPlain, EntryPlain
<1>3. \A w : Has(q, w) => q[1] = w \/ Has(Tail(q), w)
  BY <1>1, Rest
<1>4. /\ g \in [Entries -> FatValue] /\ g[l] = v /\ \A b \in Entries : b # l => g[b] = f[b]
      /\ q[1] = SetEntry(l, v) /\ l \in Entries
  BY <1>1, EntryKinds
<1>5. ASSUME NEW h \in Cluster, Held(r, q, p, j, h), v = FREE
      PROVE  h # l
  <2>1. FreeOK(f, r, home, anc, l) /\ \A w : Has(q, w) => w = q[1] \/ w.w = "copy"
    BY <1>1, <1>5, EntryKinds, Numbers
  <2>2. CASE Anchored(r, h)
    BY <2>1, <2>2, <1>5, Numbers DEF FreeOK, Anchored
  <2>3. CASE Freed(p, h)
    <3>1. 1 \in DOMAIN p
      BY <2>3, <1>1, Stack DEF Freed, FramesOK
    <3>2. DoomedOK(f, r, home, anc, q, h)
      BY <2>3, <3>1, <1>1 DEF Freed, FramesOK, FrameOK
    <3>3. l \in Cluster => f[l] = h
      BY <3>2, <1>5, Numbers DEF DoomedOK
    <3>4. l \in Cluster => home[h] # h /\ home[l] = l
      BY <3>3, <2>1, <1>1, <1>5, Numbers DEF FreeOK, TableOK
    <3> QED  BY <3>4
  <2>4. CASE Making(p, {"content", "add"})
    <3>1. PICK i \in DOMAIN p : p[i].r \in {"content", "add"}
      BY <2>4 DEF Making
    <3>2. FrameOK(f, r, home, anc, cur, q, j, p[i])
      BY <1>1 DEF FramesOK
    <3>3. \A m \in DOMAIN q : ~(q[m].w = "entry" /\ q[m].val = FREE)
      BY <3>1, <3>2 DEF FrameOK, Freeing
    <3>4. 1 \in DOMAIN q
      BY <1>1, Rest
    <3> QED  BY <3>3, <3>4, <1>5
  <2> QED  BY <2>2, <2>3, <2>4, <1>2, <1>5, PlainMeans DEF Held
<1>6. ASSUME NEW h \in Cluster, Held(r, q, p, j, h), NEW c \in Cluster, InChain(f, h, c)
      PROVE  Held(r, Tail(q), p, j, h) /\ InChain(g, h, c)
  <2>1. v = FREE => h # l
    BY <1>5, <1>6
  <2>2. InChain(g, h, c)
    BY <2>1, <1>1, <1>6, EntryChain
  <2>3. Held(r, Tail(q), p, j, h)
    BY <1>2, <1>6, PlainMeans DEF Held
  <2> QED  BY <2>2, <2>3
<1> HIDE DEF g
<1> SUFFICES ASSUME NEW c \in Cluster, g[c] # FREE PROVE Kept(g, r, Tail(q), p, j, c)
  BY DEF AllKept, g
<1>7. CASE v = END_CLUSTER /\ MarkOK(f, l)
  <2>1. CASE c = l
    <3>1. Has(q, SetEntry(c, END_CLUSTER))
      <4>1. 1 \in DOMAIN q
        BY <1>1, Rest
      <4> QED  BY <4>1, <2>1, <1>4, <1>7 DEF Has
    <3>2. CASE Making(p, {"content", "add"}) /\ c = j.fst
      <4>1. InChain(g, c, c)
        BY <1>4, InChainFirst, Numbers
      <4> QED  BY <3>2, <4>1 DEF Kept, Held
    <3>3. ASSUME NEW b \in Cluster, Has(q, SetEntry(b, c)) PROVE Has(Tail(q), SetEntry(b, c))
      <4>1. SetEntry(b, c) # q[1]
        BY <1>7, SetEntryIs, Numbers
      <4> QED  BY <4>1, <3>3, <1>3
    <3> QED  BY <3>1, <3>2, <3>3 DEF MarkedOK, Kept
  <2>2. CASE c # l
    <3>1. Kept(f, r, q, p, j, c)
      BY <2>2, <1>4, Numbers DEF AllKept
    <3>2. ASSUME NEW b \in Cluster, Has(q, SetEntry(b, c)) PROVE Has(Tail(q), SetEntry(b, c))
      <4>1. SetEntry(b, c) # q[1]
        BY <1>7, SetEntryIs, Numbers
      <4> QED  BY <4>1, <3>2, <1>3
    <3>3. ASSUME Has(q, SetEntry(c, FREE)) PROVE Has(Tail(q), SetEntry(c, FREE))
      <4>1. SetEntry(c, FREE) # q[1]
        BY <1>7, SetEntryIs, Numbers
      <4> QED  BY <4>1, <3>3, <1>3
    <3> QED  BY <3>1, <3>2, <3>3, <1>6 DEF Kept
  <2> QED  BY <2>1, <2>2
<1>8. CASE v = FREE /\ \A w : Has(q, w) => w = q[1] \/ w.w = "copy"
  <2>1. c # l /\ f[c] # FREE
    BY <1>4, <1>8, Numbers
  <2>2. Kept(f, r, q, p, j, c)
    BY <2>1 DEF AllKept
  <2>3. ASSUME NEW b \in Cluster, Has(q, SetEntry(b, c)) PROVE FALSE
    BY <2>3, <1>8, SetEntryIs, Numbers
  <2>4. ASSUME Has(q, SetEntry(c, FREE)) PROVE FALSE
    BY <2>4, <2>1, <1>8, SetEntryIs
  <2> QED  BY <2>2, <2>3, <2>4, <1>6 DEF Kept
<1>9. CASE /\ v \in Cluster /\ LinkOK(f, r, home, q, j.fst, l, v)
           /\ \A w : Has(q, w) => w = q[1] \/ w.w = "copy"
  <2>1. l \in Cluster /\ f[l] = END_CLUSTER /\ l # v /\ f[l] # FREE
    BY <1>9, Numbers DEF LinkOK
  <2>2. Kept(f, r, q, p, j, l)
    BY <2>1 DEF AllKept
  <2>3. ASSUME NEW b \in Cluster, NEW d \in Cluster, Has(q, SetEntry(b, d)) PROVE b = l /\ d = v
    BY <2>3, <1>9, SetEntryIs
  <2>4. ASSUME NEW d, Has(q, SetEntry(d, FREE)) PROVE FALSE
    BY <2>4, <1>9, SetEntryIs, Numbers
  <2>5. PICK h \in Cluster : Held(r, q, p, j, h) /\ InChain(f, h, l)
    BY <2>1, <2>2, <2>3, <2>4 DEF Kept
  <2>6. Held(r, Tail(q), p, j, h) /\ InChain(g, h, l)
    BY <2>1, <2>5, <1>6
  <2>7. InChain(g, h, v)
    <3>1. h \in FatValue
      BY Numbers
    <3>2. InChain(g, h, g[l])
      BY <3>1, <2>1, <2>6, <1>4, InChainNext
    <3> QED  BY <3>2, <1>4
  <2>8. CASE c = v
    BY <2>6, <2>7, <2>8 DEF Kept
  <2>9. CASE c # v
    <3>1. f[c] # FREE
      BY <2>1, <1>4, Numbers
    <3>2. Kept(f, r, q, p, j, c)
      BY <3>1 DEF AllKept
    <3> QED  BY <3>2, <2>3, <2>4, <2>9, <1>6 DEF Kept
  <2> QED  BY <2>8, <2>9
<1> QED  BY <1>1, <1>7, <1>8, <1>9, EntryKinds

----------------------------------------------------------------------------
\* Sector writes.

\* With blank records only, where nobody has any; or with one record changed.
Blanks(r, t, home, q) ==
  /\ Plain(q)
  /\ \A y \in Place : /\ t[y] = r[y] \/ t[y] = ZeroRec
                      /\ Anchored(r, home[y.cluster]) => t[y] = r[y]

Changes(f, r, t, home, anc, cur, q, x) ==
  /\ x \in Place /\ RecordOK(f, r, home, anc, cur, x, t[x])
  /\ \A y \in Place : y # x => t[y] = r[y]
  /\ DOMAIN q = {1} /\ Tail(q) = <<>> /\ q[1].w = "sector"
  /\ q[1].cluster = x.cluster /\ q[1].sector = x.sector
  /\ \A o \in Pos : /\ Spot(x.cluster, x.sector, o) \in Place
                    /\ q[1].val.recs[o] = t[Spot(x.cluster, x.sector, o)]
                    /\ q[1].val.recs[o] \in RecType

LEMMA SectorKinds ==
  ASSUME NEW f, NEW r, NEW home, NEW anc, NEW cur, NEW q, NEW fst,
         QueueOK(f, r, home, anc, cur, q, fst), q # <<>>, q[1].w = "sector", NEW t,
         t = Resectored(r, q[1].cluster, q[1].sector, q[1].val)
  PROVE  Blanks(r, t, home, q) \/ \E x : Changes(f, r, t, home, anc, cur, q, x)
<1> DEFINE c == q[1].cluster
           s == q[1].sector
           v == q[1].val
<1>1. q \in Seq(Write)
  BY DEF QueueOK
<1>2. 1 \in DOMAIN q /\ q[1] \in Write /\ Len(q) \in Nat
  BY <1>1, Rest
<1>3. q[1] \in SectorWrite /\ SectorOK(f, r, home, anc, cur, q, 1)
  BY <1>1, <1>2, WriteKinds DEF QueueOK
<1>4. c \in Cluster /\ s \in Sector /\ v \in SecType
  BY <1>3 DEF SectorWrite
<1>5. \A y \in Place : t[y] = IF y.cluster = c /\ y.sector = s THEN v.recs[y.pos] ELSE r[y]
  BY DEF Resectored
<1>6. \A y \in Place : y.pos \in Pos
  BY DEF Place
<1>7. \A o \in Pos : v.recs[o] \in RecType
  BY <1>4 DEF SecType
<1> HIDE DEF c, s, v
<1>8. CASE (\A p \in Pos : v.recs[p] = ZeroRec) /\ ~Anchored(r, home[c])
  <2>1. Plain(q)
    BY <1>1, <1>8, RestPlain, BlankPlain DEF v
  <2>2. ASSUME NEW y \in Place
        PROVE  (t[y] = r[y] \/ t[y] = ZeroRec) /\ (Anchored(r, home[y.cluster]) => t[y] = r[y])
    BY <1>5, <1>6, <1>8
  <2> QED  BY <2>1, <2>2 DEF Blanks
<1>9. ASSUME Len(q) = 1, NEW p \in Pos,
             RecordOK(f, r, home, anc, cur, Spot(c, s, p), v.recs[p]),
             \A o \in Pos \ {p} : v.recs[o] = r[Spot(c, s, o)]
      PROVE  Changes(f, r, t, home, anc, cur, q, Spot(c, s, p))
  <2> DEFINE x == Spot(c, s, p)
  <2>1. /\ x.cluster = c /\ x.sector = s /\ x.pos = p
        /\ \A o \in Pos : Spot(c, s, o) \in Place /\ Spot(c, s, o).pos = o
                          /\ Spot(c, s, o).cluster = c /\ Spot(c, s, o).sector = s
    BY <1>4 DEF Spot, Place
  <2>2. t[x] = v.recs[p] /\ \A o \in Pos : v.recs[o] = t[Spot(c, s, o)]
    BY <2>1, <1>5
  <2>3. ASSUME NEW y \in Place, y # x PROVE t[y] = r[y]
    <3>1. CASE y.cluster = c /\ y.sector = s
      <4>1. y = Spot(c, s, y.pos)
        BY <3>1 DEF Place, Spot
      <4>2. y.pos \in Pos \ {p}
        BY <4>1, <2>3, <1>6
      <4> QED  BY <4>1, <4>2, <3>1, <1>5, <1>9
    <3> QED  BY <3>1, <1>5
  <2>4. DOMAIN q = {1} /\ Tail(q) = <<>>
    <3>1. Len(Tail(q)) = 0 /\ Tail(q) \in Seq(Write)
      BY <1>1, <1>9, Rest
    <3>2. Tail(q) = <<>>
      BY <3>1, EmptySeq
    <3>3. DOMAIN q = 1..Len(q)
      BY <1>1
    <3>4. DOMAIN q = {1}
      BY <3>3, <1>9
    <3> QED  BY <3>2, <3>4
  <2>5. x \in Place
    BY <2>1
  <2> HIDE DEF x
  <2>6. RecordOK(f, r, home, anc, cur, x, t[x])
    BY <2>2, <1>9 DEF x
  <2>7. Changes(f, r, t, home, anc, cur, q, x)
    BY <2>1, <2>2, <2>3, <2>4, <2>5, <2>6, <1>7 DEF Changes, c, s, v
  <2> QED  BY <2>7 DEF x
<1> QED  BY <1>3, <1>8, <1>9 DEF SectorOK, c, s, v

LEMMA SectorDotted ==
  ASSUME NEW f, NEW r, NEW home, NEW rank, NEW anc, NEW cur, NEW q, NEW p, NEW j,
         DiskOK(f, r, home, rank, anc, cur, q, p, j), q # <<>>, NEW t,
         Blanks(r, t, home, q) \/ \E x : Changes(f, r, t, home, anc, cur, q, x),
         AllDotted(f, r, q, p, j)
  PROVE  AllDotted(f, t, Tail(q), p, j)
<1>1. /\ TableOK(f, home, rank) /\ QueueOK(f, r, home, anc, cur, q, j.fst)
      /\ RecordsOK(f, r, home)
  BY DEF DiskOK
<1>2. Plain(Tail(q))
  BY <1>1, RestPlain
<1>3. ASSUME NEW e \in RecType, Stated(Tail(q), e), e.name \in Names PROVE FALSE
  BY <1>2, <1>3, PlainMeans
<1>4. ASSUME NEW x \in Place, r[x].name \in Names, r[x].dir
      PROVE  /\ r[x].cluster \in Cluster /\ home[r[x].cluster] = r[x].cluster
             /\ Anchored(r, r[x].cluster)
  <2>1. r[x].cluster # 0 /\ r[x].cluster \in {0} \cup Cluster
    BY <1>1, <1>4 DEF RecordsOK, RecType
  <2>2. home[r[x].cluster] = r[x].cluster
    BY <2>1, <1>1, <1>4 DEF RecordsOK
  <2> QED  BY <2>1, <2>2, <1>4 DEF Anchored, Owned, Owner
<1>5. CASE Blanks(r, t, home, q)
  <2>1. ASSUME NEW x \in Place, t[x].name \in Names, t[x].dir
        PROVE  Dotted(f, t, Tail(q), p, j, t[x].cluster)
    <3>1. t[x] = r[x]
      BY <2>1, <1>5, NamesKnown DEF Blanks
    <3> DEFINE h == r[x].cluster
    <3>2. h \in Cluster /\ home[h] = h /\ Anchored(r, h)
      BY <3>1, <2>1, <1>4
    <3>3. Dotted(f, r, q, p, j, h)
      BY <3>1, <2>1 DEF AllDotted
    <3> HIDE DEF h
    <3>4. ASSUME NEW y \in Place, InChain(f, h, y.cluster), r[y].name = DOTDOT
          PROVE  t[y].name = DOTDOT
      <4>1. home[y.cluster] = h
        BY <3>2, <3>4, <1>1, HomeInChain, PlaceCluster
      <4> QED  BY <4>1, <3>2, <3>4, <1>5 DEF Blanks
    <3>5. Plain(q)
      BY <1>5 DEF Blanks
    <3>6. Dotted(f, t, Tail(q), p, j, h)
      BY <3>3, <3>4, <3>5, PlainMeans DEF Dotted
    <3> QED  BY <3>1, <3>6 DEF h
  <2> QED  BY <2>1, <1>3 DEF AllDotted
<1>6. ASSUME NEW z, Changes(f, r, t, home, anc, cur, q, z)
      PROVE  AllDotted(f, t, Tail(q), p, j)
  <2>1. ASSUME NEW h, Dotted(f, r, q, p, j, h) PROVE Dotted(f, t, Tail(q), p, j, h)
    <3>1. ASSUME NEW y \in Place, InChain(f, h, y.cluster), r[y].name = DOTDOT
          PROVE  t[y].name = DOTDOT
      <4>1. r[z].name # DOTDOT
        BY <1>6, NamesKnown DEF Changes, RecordOK, NameRemoved
      <4> QED  BY <4>1, <3>1, <1>6 DEF Changes
    <3>2. ASSUME NEW i \in DOMAIN q, NEW o \in Pos, q[i].w = "sector",
                 q[i].val.recs[o].name = DOTDOT, InChain(f, h, q[i].cluster)
          PROVE  \E y \in Place : InChain(f, h, y.cluster) /\ t[y].name = DOTDOT
      <4> DEFINE y == Spot(z.cluster, z.sector, o)
      <4>1. y \in Place /\ y.cluster = z.cluster /\ i = 1 /\ q[1].val.recs[o] = t[y]
            /\ q[1].cluster = z.cluster
        BY <1>6 DEF Changes, Spot
      <4> QED  BY <4>1, <3>2
    <3> QED  BY <2>1, <3>1, <3>2 DEF Dotted
  <2>2. ASSUME NEW x \in Place, t[x].name \in Names, t[x].dir
        PROVE  Dotted(f, t, Tail(q), p, j, t[x].cluster)
    <3>1. CASE x # z
      <4>1. t[x] = r[x]
        BY <3>1, <1>6 DEF Changes
      <4>2. Dotted(f, r, q, p, j, r[x].cluster)
        BY <4>1, <2>2 DEF AllDotted
      <4> QED  BY <4>1, <4>2, <2>1
    <3>2. CASE x = z
      <4>1. z.pos \in Pos /\ z = Spot(z.cluster, z.sector, z.pos)
        BY <1>6 DEF Changes, Place, Spot
      <4>2. q[1].val.recs[z.pos] = t[z] /\ t[z] \in RecType /\ 1 \in DOMAIN q /\ q[1].w = "sector"
        BY <4>1, <1>6 DEF Changes
      <4>3. Stated(q, t[z])
        BY <4>1, <4>2 DEF Stated
      <4>4. Dotted(f, r, q, p, j, t[z].cluster)
        BY <4>2, <4>3, <3>2, <2>2 DEF AllDotted
      <4> QED  BY <4>4, <3>2, <2>1
    <3> QED  BY <3>1, <3>2
  <2> QED  BY <2>2, <1>3 DEF AllDotted
<1> QED  BY <1>5, <1>6

LEMMA SectorKept ==
  ASSUME NEW f, NEW r, NEW home, NEW rank, NEW anc, NEW cur, NEW q, NEW p, NEW j,
         DiskOK(f, r, home, rank, anc, cur, q, p, j), q # <<>>, q[1].w = "sector", NEW t,
         Blanks(r, t, home, q) \/ \E x : Changes(f, r, t, home, anc, cur, q, x),
         RemovalOK(f, r, cur, q, p), AllKept(f, r, q, p, j),
         \A x \in Place : r[x].name \in Names => Anchored(r, home[x.cluster])
  PROVE  AllKept(f, t, Tail(q), p, j)
<1>1. q \in Seq(Write)
  BY DEF DiskOK, QueueOK
<1>2. \A w : Has(q, w) => q[1] = w \/ Has(Tail(q), w)
  BY <1>1, Rest
<1>3. \A b, v : Has(q, SetEntry(b, v)) => Has(Tail(q), SetEntry(b, v))
  <2> TAKE b, v
  <2>1. SetEntry(b, v).w # "sector"
    BY SetEntryIs
  <2> QED  BY <2>1, <1>2
<1>4. ASSUME NEW h \in Cluster, Held(r, q, p, j, h) PROVE Held(t, Tail(q), p, j, h)
  <2>1. CASE Blanks(r, t, home, q)
    <3>1. Plain(q)
      BY <2>1 DEF Blanks
    <3>2. ASSUME Anchored(r, h) PROVE Anchored(t, h)
      <4>1. ASSUME NEW x \in Place, Owner(r, x, h) PROVE Owner(t, x, h)
        BY <4>1, <2>1 DEF Blanks, Owner
      <4> QED  BY <4>1, <3>2 DEF Anchored, Owned
    <3> QED  BY <3>1, <3>2, <1>4, PlainMeans DEF Held
  <2>2. ASSUME NEW z, Changes(f, r, t, home, anc, cur, q, z) PROVE Held(t, Tail(q), p, j, h)
    <3>0. h # 0
      BY Numbers
    <3>1. ASSUME Named(q, h) PROVE Anchored(t, h)
      <4>1. PICK i \in DOMAIN q, o \in Pos :
              q[i].w = "sector" /\ q[i].val.recs[o].name \in Names /\ q[i].val.recs[o].cluster = h
        BY <3>1 DEF Named, Stated
      <4> DEFINE y == Spot(z.cluster, z.sector, o)
      <4>2. y \in Place /\ i = 1 /\ q[1].val.recs[o] = t[y]
        BY <2>2 DEF Changes
      <4> QED  BY <4>1, <4>2, <3>0 DEF Anchored, Owned, Owner
    <3>2. ASSUME Anchored(r, h) PROVE Anchored(t, h) \/ Freed(p, h)
      <4>1. CASE h = ROOT
        BY <4>1 DEF Anchored
      <4>2. ASSUME NEW x \in Place, Owner(r, x, h), x # z PROVE Anchored(t, h)
        <5>1. Owner(t, x, h)
          BY <4>2, <2>2 DEF Changes, Owner
        <5> QED  BY <5>1, <3>0 DEF Anchored, Owned
      <4>3. ASSUME Owner(r, z, h) PROVE Freed(p, h)
        <5>1. r[z].name \in Names /\ r[z].cluster = h
          BY <4>3 DEF Owner
        <5>2. t[z].name = REMOVED
          <6>1. t[z] = [r[z] EXCEPT !.name = REMOVED] /\ z \in Place
            BY <5>1, <2>2, NamesKnown DEF Changes, RecordOK, NameRemoved
          <6>2. r[z] \in RecType
            BY <6>1 DEF DiskOK, RecordsOK
          <6> QED  BY <6>1, <6>2 DEF RecType
        <5>3. z.pos \in Pos /\ z = Spot(z.cluster, z.sector, z.pos)
          BY <2>2 DEF Changes, Place, Spot
        <5>4. /\ q[1].val.recs[z.pos] = t[z] /\ 1 \in DOMAIN q /\ q[1].w = "sector"
              /\ z = Spot(q[1].cluster, q[1].sector, z.pos)
          BY <5>3, <2>2 DEF Changes
        <5> QED  BY <5>1, <5>2, <5>3, <5>4 DEF RemovalOK
      <4> QED  BY <4>1, <4>2, <4>3, <3>2 DEF Anchored, Owned
    <3> QED  BY <3>1, <3>2, <1>4 DEF Held
  <2> QED  BY <2>1, <2>2
<1> SUFFICES ASSUME NEW c \in Cluster, f[c] # FREE PROVE Kept(f, t, Tail(q), p, j, c)
  BY DEF AllKept
<1>5. Kept(f, r, q, p, j, c)
  BY DEF AllKept
<1> QED  BY <1>3, <1>4, <1>5 DEF Kept

----------------------------------------------------------------------------
\* The directories before and after a step.

DirFacts ==
  /\ ROOT \in Directories
  /\ \A h \in Directories : Subdirectories(h) \subseteq Directories
  /\ \A S : ROOT \in S /\ (\A h \in S : Subdirectories(h) \subseteq S) => Directories \subseteq S
  /\ \A h \in Directories : Anchored(Recs, h)
  /\ \A h : Anchored(Recs, h) =>
       h \in Cluster /\ \A c : c \in Chain(h) <=> c \in Cluster /\ InChain(Links, h, c)
  /\ \A h : Places(h) = {x \in Place : x.cluster \in Chain(h) /\ Recs[x].name \in Names}
  /\ \A x \in Place : Recs[x] = Rec(x) /\ Recs[x] \in RecType
  /\ \A x \in Place : Recs[x].name \in Names /\ Recs[x].dir => Anchored(Recs, Recs[x].cluster)

LEMMA DirKnown == DInv => DirFacts
<1> SUFFICES ASSUME DInv PROVE DirFacts
  OBVIOUS
<1>1. Types
  BY DEF DInv
<1>2. PICK home, rank, anc :
        DiskOK(Links, Recs, home, rank, anc, currentCluster, todo, pc, job)
  BY Unprimed
<1>3. TableOK(Links, home, rank) /\ RecordsOK(Links, Recs, home)
  BY <1>2 DEF DiskOK
<1>4. \A h \in Directories : Anchored(Recs, h)
  BY <1>1, <1>3, DirectoriesAnchored
<1>5. \A h : Anchored(Recs, h) =>
        h \in Cluster /\ \A c : c \in Chain(h) <=> c \in Cluster /\ InChain(Links, h, c)
  BY <1>1, <1>3, AnchoredChain
<1>6. /\ \A h : Places(h) = {x \in Place : x.cluster \in Chain(h) /\ Recs[x].name \in Names}
      /\ \A x \in Place : Recs[x] = Rec(x) /\ Recs[x] \in RecType
  BY <1>1, PlacesIn
<1>7. ASSUME NEW x \in Place, Recs[x].name \in Names, Recs[x].dir
      PROVE  Anchored(Recs, Recs[x].cluster)
  BY <1>3, <1>7 DEF RecordsOK, Anchored, Owned, Owner
<1>8. /\ ROOT \in Directories
      /\ \A h \in Directories : Subdirectories(h) \subseteq Directories
      /\ \A S : ROOT \in S /\ (\A h \in S : Subdirectories(h) \subseteq S)
                => Directories \subseteq S
  BY <1>1, DirectoriesAre
<1> QED  BY <1>4, <1>5, <1>6, <1>7, <1>8 DEF DirFacts

LEMMA DirKnownNext == DInv' => DirFacts'
BY DirKnown, PTL

\* A step that leaves the chains that are named, and in them the records of
\* directories, leaves the directories.
LEMMA DirsKept ==
  ASSUME DInv, DInv',
         \A h, c \in Cluster : Anchored(Recs, h) /\ InChain(Links, h, c) => InChain(Links', h, c),
         \A x \in Place : \A h \in Cluster :
           /\ Anchored(Recs, h) /\ InChain(Links, h, x.cluster)
           /\ Recs[x].dir /\ Recs[x].name \in Names \cup {REMOVED}
           => Recs'[x] = Recs[x]
  PROVE  /\ Directories \subseteq Directories'
         /\ \A h \in Directories : h \in Cluster /\ Chain(h) \subseteq Chain(h)'
         /\ DirectoryRemoved => DirectoryRemoved'
<1>1. DirFacts /\ DirFacts'
  BY DirKnown, DirKnownNext
<1>2. /\ ROOT \in Directories
      /\ \A S : ROOT \in S /\ (\A h \in S : Subdirectories(h) \subseteq S) => Directories \subseteq S
      /\ \A h \in Directories : Anchored(Recs, h)
      /\ \A h : Anchored(Recs, h) =>
           h \in Cluster /\ \A c : c \in Chain(h) <=> c \in Cluster /\ InChain(Links, h, c)
      /\ \A h : Places(h) = {x \in Place : x.cluster \in Chain(h) /\ Recs[x].name \in Names}
      /\ \A x \in Place : Recs[x] = Rec(x)
      /\ \A x \in Place : Recs[x].name \in Names /\ Recs[x].dir => Anchored(Recs, Recs[x].cluster)
  BY <1>1 DEF DirFacts
<1>3. /\ ROOT \in Directories'
      /\ \A h \in Directories' : Subdirectories(h)' \subseteq Directories'
      /\ \A h \in Directories' : Anchored(Recs', h)
      /\ \A h : Anchored(Recs', h) =>
           h \in Cluster /\ \A c : c \in Chain(h)' <=> c \in Cluster /\ InChain(Links', h, c)
      /\ \A h : Places(h)' = {x \in Place : x.cluster \in Chain(h)' /\ Recs'[x].name \in Names}
      /\ \A x \in Place : Recs'[x] = Rec(x)'
  BY <1>1 DEF DirFacts
<1>4. ASSUME NEW h, Anchored(Recs, h), Anchored(Recs', h) PROVE Chain(h) \subseteq Chain(h)'
  BY <1>2, <1>3, <1>4
<1> DEFINE S == {h \in Directories' : Anchored(Recs, h)}
<1>5. ASSUME NEW h \in S PROVE Subdirectories(h) \subseteq S
  <2> SUFFICES ASSUME NEW x \in Places(h), Rec(x).dir PROVE Rec(x).cluster \in S
    BY DEF Subdirectories
  <2>1. x \in Place /\ x.cluster \in Chain(h) /\ Recs[x].name \in Names /\ Recs[x].dir
    BY <1>2
  <2>2. Anchored(Recs, h) /\ Anchored(Recs', h) /\ h \in Cluster
    BY <1>2, <1>3
  <2>3. Recs'[x] = Recs[x]
    BY <2>1, <2>2, <1>2
  <2>4. x \in Places(h)' /\ Rec(x)' = Rec(x)
    BY <2>1, <2>2, <2>3, <1>2, <1>3, <1>4
  <2>5. Rec(x)'.cluster \in Subdirectories(h)'
    BY <2>4 DEF Subdirectories
  <2>6. Rec(x).cluster \in Directories'
    BY <2>4, <2>5, <1>3
  <2> QED  BY <2>1, <2>6, <1>2
<1>6. ROOT \in S
  BY <1>2, <1>3
<1> HIDE DEF S
<1>7. Directories \subseteq S
  BY <1>2, <1>5, <1>6
<1>8. Directories \subseteq Directories'
  BY <1>7 DEF S
<1>9. \A h \in Directories : h \in Cluster /\ Chain(h) \subseteq Chain(h)'
  BY <1>2, <1>3, <1>4, <1>8
<1>10. ASSUME DirectoryRemoved PROVE DirectoryRemoved'
  <2>1. PICK h \in Directories : \E x \in [cluster: Chain(h), sector: Sector, pos: Pos] :
          Rec(x).name = REMOVED /\ Rec(x).dir
    BY <1>10 DEF DirectoryRemoved
  <2>2. PICK x \in [cluster: Chain(h), sector: Sector, pos: Pos] :
          Rec(x).name = REMOVED /\ Rec(x).dir
    BY <2>1
  <2>3. h \in Cluster /\ Anchored(Recs, h) /\ x.cluster \in Chain(h) /\ x.cluster \in Cluster
        /\ InChain(Links, h, x.cluster)
    BY <2>2, <1>2
  <2>4. x \in Place
    BY <2>2, <2>3 DEF Place
  <2>5. Recs'[x] = Recs[x]
    BY <2>2, <2>3, <2>4, <1>2
  <2>6. Rec(x)'.name = REMOVED /\ Rec(x)'.dir
    BY <2>2, <2>4, <2>5, <1>2, <1>3
  <2>7. x \in [cluster: Chain(h)', sector: Sector, pos: Pos] /\ h \in Directories'
    BY <2>2, <1>8, <1>9
  <2> QED  BY <2>6, <2>7 DEF DirectoryRemoved
<1> QED  BY <1>8, <1>9, <1>10

----------------------------------------------------------------------------
\* The sector writes keep the invariant.

LEMMA CopyHeld ==
  ASSUME NEW f, NEW r, NEW q \in Seq(Write), q # <<>>, q[1].w = "copy", Plain(Tail(q)),
         NEW p, NEW j, AllDotted(f, r, q, p, j)
  PROVE  /\ AllDotted(f, r, Tail(q), p, j)
         /\ AllKept(f, r, q, p, j) => AllKept(f, r, Tail(q), p, j)
<1>1. Plain(q)
  BY EntryPlain
<1>2. \A b, v : Has(q, SetEntry(b, v)) => Has(Tail(q), SetEntry(b, v))
  <2> TAKE b, v
  <2>1. SetEntry(b, v) # q[1]
    BY SetEntryIs
  <2> QED  BY <2>1, Rest
<1>3. ASSUME NEW h, Dotted(f, r, q, p, j, h) PROVE Dotted(f, r, Tail(q), p, j, h)
  BY <1>1, <1>3, PlainMeans DEF Dotted
<1>4. \A e : Stated(Tail(q), e) => e.name \notin Names
  BY PlainMeans
<1>5. AllDotted(f, r, Tail(q), p, j)
  BY <1>3, <1>4 DEF AllDotted
<1>6. \A h : ~Named(q, h)
  BY <1>1, PlainMeans
<1>7. ASSUME NEW c, Kept(f, r, q, p, j, c) PROVE Kept(f, r, Tail(q), p, j, c)
  BY <1>2, <1>6, <1>7 DEF Kept, Held
<1> QED  BY <1>5, <1>7 DEF AllKept

\* What was listed in a directory still is.
LEMMA ReachedKept ==
  ASSUME Directories \subseteq Directories',
         \A h \in Directories : Chain(h) \subseteq Chain(h)',
         \A x \in Place : Recs'[x].name \in Names =>
           Recs'[x] = Recs[x] \/ \E h \in Directories' : x.cluster \in Chain(h)'
  PROVE  AllReached => AllReached'
<1> SUFFICES ASSUME AllReached, NEW x \in Place, Recs'[x].name \in Names
             PROVE  \E h \in Directories' : x.cluster \in Chain(h)'
  BY DEF AllReached
<1>1. CASE Recs'[x] = Recs[x]
  <2>1. PICK h \in Directories : x.cluster \in Chain(h)
    BY <1>1 DEF AllReached
  <2> QED  BY <2>1
<1> QED  BY <1>1

LEMMA KindsFixed == KindsApart' = KindsApart
BY DEF KindsApart

LEMMA WriteHeld ==
  ASSUME DInv, DInv', (KindsApart => InDirectory)', HeldOK, writeDiskSector
  PROVE  HeldOK'
<1>1. Types /\ DirFacts /\ DirFacts'
  BY DirKnown, DirKnownNext DEF DInv
<1>2. PICK home, rank, anc :
        DiskOK(Links, Recs, home, rank, anc, currentCluster, todo, pc, job)
  BY Unprimed
<1>3. /\ TableOK(Links, home, rank) /\ RecordsOK(Links, Recs, home)
      /\ PathOK(Recs, home, anc, currentCluster)
      /\ QueueOK(Links, Recs, home, anc, currentCluster, todo, job.fst)
      /\ todo \in Seq(Write) /\ todo # <<>> /\ Plain(Tail(todo))
      /\ Links \in [Entries -> FatValue]
  <2>1. /\ TableOK(Links, home, rank) /\ RecordsOK(Links, Recs, home)
        /\ PathOK(Recs, home, anc, currentCluster)
        /\ QueueOK(Links, Recs, home, anc, currentCluster, todo, job.fst) /\ todo # <<>>
    BY <1>2 DEF DiskOK, writeDiskSector
  <2>2. Plain(Tail(todo))
    BY <2>1, RestPlain
  <2> QED  BY <2>1, <2>2 DEF QueueOK, TableOK
<1>4. /\ RemovalOK(Links, Recs, currentCluster, todo, pc) /\ MarkedOK(todo, pc, job)
      /\ AllDotted(Links, Recs, todo, pc, job)
      /\ Excused \/ (AllReached /\ AllKept(Links, Recs, todo, pc, job))
  BY DEF HeldOK
<1>5. todo' = Tail(todo) /\ pc' = pc /\ job' = job /\ currentCluster' = currentCluster
  BY <1>1, <1>3, Written DEF writeDiskSector
<1>6. /\ RemovalOK(Links', Recs', currentCluster', todo', pc') /\ MarkedOK(todo', pc', job')
  <2>1. MarkedOK(Tail(todo), pc, job)
    BY <1>2, <1>3, <1>4, MarkedRest
  <2> QED  BY <2>1, <1>3, <1>5, PlainMeans
<1>7. ASSUME AllDotted(Links', Recs', todo', pc', job'),
             \/ DirectoryRemoved'
             \/ /\ DirectoryRemoved => DirectoryRemoved'
                /\ AllReached /\ AllKept(Links, Recs, todo, pc, job) =>
                     AllReached' /\ AllKept(Links', Recs', todo', pc', job')
      PROVE  HeldOK'
  <2>1. (DirectoryRemoved => DirectoryRemoved') => (Excused => Excused')
    BY KindsFixed DEF Excused
  <2>2. DirectoryRemoved' => Excused'
    BY DEF Excused
  <2> QED  BY <1>4, <1>6, <1>7, <2>1, <2>2 DEF HeldOK
<1>8. \A h \in Cluster : Anchored(Recs, h) => home[h] = h
  BY <1>3, AnchoredHome
<1>9. \A h : Anchored(Recs, h) => h \in Cluster
  BY <1>1 DEF DirFacts
<1>10. CASE todo[1].w = "copy" /\ Recs' = Recs /\ Links' = Links
  <2>1. /\ Directories \subseteq Directories' /\ (DirectoryRemoved => DirectoryRemoved')
        /\ \A h \in Directories : Chain(h) \subseteq Chain(h)'
    BY <1>10, DirsKept
  <2>2. AllReached => AllReached'
    BY <2>1, <1>10, ReachedKept
  <2>3. /\ AllDotted(Links, Recs, Tail(todo), pc, job)
        /\ AllKept(Links, Recs, todo, pc, job) => AllKept(Links, Recs, Tail(todo), pc, job)
    BY <1>3, <1>4, <1>10, CopyHeld
  <2> QED  BY <2>1, <2>2, <2>3, <1>5, <1>7, <1>10
<1>11. CASE /\ todo[1].w = "entry" /\ Recs' = Recs
            /\ Links' = [Links EXCEPT ![todo[1].cluster] = todo[1].val]
  <2>1. ASSUME NEW h \in Cluster, NEW c \in Cluster, Anchored(Recs, h), InChain(Links, h, c)
        PROVE  InChain(Links', h, c)
    <3>1. todo[1].val = FREE => h # todo[1].cluster
      <4> SUFFICES ASSUME todo[1].val = FREE PROVE h # todo[1].cluster
        OBVIOUS
      <4>1. FreeOK(Links, Recs, home, anc, todo[1].cluster)
        BY <1>3, <1>11, EntryKinds, Numbers
      <4> QED  BY <4>1, <2>1, Numbers DEF FreeOK, Anchored
    <3> QED  BY <3>1, <2>1, <1>3, <1>11, EntryChain
  <2>2. /\ Directories \subseteq Directories' /\ (DirectoryRemoved => DirectoryRemoved')
        /\ \A h \in Directories : Chain(h) \subseteq Chain(h)'
    BY <2>1, <1>11, DirsKept
  <2>3. AllReached => AllReached'
    BY <2>2, <1>11, ReachedKept
  <2>4. AllDotted(Links', Recs, Tail(todo), pc, job)
    BY <1>2, <1>3, <1>4, <1>11, EntryDotted
  <2>5. AllKept(Links, Recs, todo, pc, job) => AllKept(Links', Recs, Tail(todo), pc, job)
    BY <1>2, <1>3, <1>4, <1>11, EntryKept
  <2> QED  BY <2>2, <2>3, <2>4, <2>5, <1>5, <1>7, <1>11
<1>12. CASE /\ todo[1].w = "sector" /\ Links' = Links
            /\ Recs' = Resectored(Recs, todo[1].cluster, todo[1].sector, todo[1].val)
  <2>1. \/ Blanks(Recs, Recs', home, todo)
        \/ \E x : Changes(Links, Recs, Recs', home, anc, currentCluster, todo, x)
    BY <1>3, <1>12, SectorKinds
  <2>2. AllDotted(Links, Recs', Tail(todo), pc, job)
    BY <2>1, <1>2, <1>3, <1>4, SectorDotted
  <2>3. ASSUME AllReached, AllKept(Links, Recs, todo, pc, job)
        PROVE  AllKept(Links, Recs', Tail(todo), pc, job)
    <3>1. ASSUME NEW x \in Place, Recs[x].name \in Names PROVE Anchored(Recs, home[x.cluster])
      <4>1. PICK h \in Directories : x.cluster \in Chain(h)
        BY <2>3, <3>1 DEF AllReached
      <4>2. Anchored(Recs, h) /\ h \in Cluster /\ x.cluster \in Cluster /\ InChain(Links, h, x.cluster)
        BY <4>1, <1>1 DEF DirFacts
      <4>3. home[x.cluster] = h
        BY <4>2, <1>3, <1>8, HomeInChain
      <4> QED  BY <4>2, <4>3
    <3> QED  BY <3>1, <2>1, <2>3, <1>2, <1>3, <1>4, <1>12, SectorKept
  <2>4. CASE Blanks(Recs, Recs', home, todo)
    <3>1. ASSUME NEW x \in Place, NEW h \in Cluster, Anchored(Recs, h), InChain(Links, h, x.cluster)
          PROVE  Recs'[x] = Recs[x]
      <4>1. home[x.cluster] = h
        BY <3>1, <1>3, <1>8, HomeInChain, PlaceCluster
      <4> QED  BY <4>1, <3>1, <2>4 DEF Blanks
    <3>2. /\ Directories \subseteq Directories' /\ (DirectoryRemoved => DirectoryRemoved')
          /\ \A h \in Directories : Chain(h) \subseteq Chain(h)'
      BY <3>1, <1>12, DirsKept
    <3>3. \A x \in Place : Recs'[x].name \in Names => Recs'[x] = Recs[x]
      BY <2>4, NamesKnown DEF Blanks
    <3>4. AllReached => AllReached'
      BY <3>2, <3>3, ReachedKept
    <3> QED  BY <3>2, <3>4, <2>2, <2>3, <1>5, <1>7, <1>12
  <2>5. ASSUME NEW z, Changes(Links, Recs, Recs', home, anc, currentCluster, todo, z),
               KindsApart
        PROVE  HeldOK'
    <3>0. PICK d : d = currentCluster /\ d = currentCluster'
      BY <1>5
    <3>1. d \in Directories' /\ Anchored(Recs', d)
      BY <2>5, <3>0, <1>1, KindsFixed DEF InDirectory, DirFacts
    <3>2. \A c : c \in Chain(d)' <=> c \in Cluster /\ InChain(Links, d, c)
      BY <3>1, <1>1, <1>12 DEF DirFacts
    <3>3. z \in Place /\ Recs[z] \in RecType /\ z.cluster \in Cluster
      BY <2>5, <1>1, PlaceCluster DEF Changes, DirFacts
    <3>4. CASE NameRemoved(Recs, anc, z, Recs'[z]) /\ Recs[z].dir
      <4>1. Recs'[z].name = REMOVED /\ Recs'[z].dir /\ Recs[z].name \in Names
        BY <3>3, <3>4 DEF NameRemoved, RecType
      <4>2. z.pos \in Pos /\ z = Spot(z.cluster, z.sector, z.pos)
        BY <3>3 DEF Place, Spot
      <4>3. /\ todo[1].val.recs[z.pos] = Recs'[z] /\ 1 \in DOMAIN todo
            /\ z = Spot(todo[1].cluster, todo[1].sector, z.pos)
        BY <4>2, <2>5 DEF Changes
      <4>4. InChain(Links, d, z.cluster)
        BY <4>1, <4>2, <4>3, <3>0, <1>4, <1>12 DEF RemovalOK
      <4>5. z \in [cluster: Chain(d)', sector: Sector, pos: Pos]
        BY <4>4, <3>2, <3>3 DEF Place
      <4>6. Rec(z)' = Recs'[z]
        BY <3>3, <1>1 DEF DirFacts
      <4>7. DirectoryRemoved'
        BY <4>1, <4>5, <4>6, <3>1 DEF DirectoryRemoved
      <4> QED  BY <4>7, <2>2, <1>5, <1>7, <1>12
    <3>5. CASE ~(NameRemoved(Recs, anc, z, Recs'[z]) /\ Recs[z].dir)
      <4>1. ~(Recs[z].dir /\ Recs[z].name \in Names \cup {REMOVED})
        BY <3>5, <2>5, NamesKnown DEF Changes, RecordOK, NameRemoved
      <4>2. /\ Directories \subseteq Directories' /\ (DirectoryRemoved => DirectoryRemoved')
            /\ \A h \in Directories : Chain(h) \subseteq Chain(h)'
        <5>1. \A x \in Place : Recs[x].dir /\ Recs[x].name \in Names \cup {REMOVED}
                                 => Recs'[x] = Recs[x]
          BY <4>1, <2>5 DEF Changes
        <5> QED  BY <5>1, <1>12, DirsKept
      <4>3. Recs'[z].name \in Names => z.cluster \in Chain(d)'
        <5> SUFFICES ASSUME Recs'[z].name \in Names PROVE z.cluster \in Chain(d)'
          OBVIOUS
        <5>1. NameAdded(Links, Recs, home, currentCluster, z.cluster, Recs'[z])
          BY <3>3, <2>5, NamesKnown DEF Changes, RecordOK, NameRemoved, DotAdded, DotDotAdded, RecType
        <5>2. home[z.cluster] = currentCluster
          BY <5>1 DEF NameAdded
        <5>3. Anchored(Recs, currentCluster)
          BY <1>3, PathAnchored
        <5>4. InChain(Links, currentCluster, z.cluster)
          BY <5>2, <5>3, <3>3, <1>3, <1>8, <1>9, HomeInChain
        <5> QED  BY <5>4, <3>0, <3>2, <3>3
      <4>4. AllReached => AllReached'
        <5>1. \A x \in Place : Recs'[x].name \in Names =>
                Recs'[x] = Recs[x] \/ \E h \in Directories' : x.cluster \in Chain(h)'
          BY <4>3, <3>1, <2>5 DEF Changes
        <5> QED  BY <5>1, <4>2, ReachedKept
      <4> QED  BY <4>2, <4>4, <2>2, <2>3, <1>5, <1>7, <1>12
    <3> QED  BY <3>4, <3>5
  <2>6. ASSUME ~KindsApart PROVE HeldOK'
    <3>1. Excused'
      BY <2>6, KindsFixed DEF Excused
    <3> QED  BY <3>1, <2>2, <1>5, <1>6, <1>12 DEF HeldOK
  <2> QED  BY <2>1, <2>4, <2>5, <2>6
<1> QED  BY <1>1, <1>3, <1>10, <1>11, <1>12, Written

----------------------------------------------------------------------------
\* The routines keep it: the disk stays as it is.

LEMMA SameDirectories ==
  ASSUME DInv, DInv', UNCHANGED disk
  PROVE  (Excused => Excused') /\ (AllReached => AllReached')
<1>1. Links' = Links /\ Recs' = Recs
  BY SameDisk
<1>2. /\ Directories \subseteq Directories' /\ (DirectoryRemoved => DirectoryRemoved')
      /\ \A h \in Directories : Chain(h) \subseteq Chain(h)'
  BY <1>1, DirsKept
<1>3. Excused => Excused'
  BY <1>2, KindsFixed DEF Excused
<1> QED  BY <1>1, <1>2, <1>3, ReachedKept

LEMMA StepHeld ==
  ASSUME DInv, DInv', HeldOK, UNCHANGED disk, todo = <<>>,
         ~(pc # <<>> /\ pc[1].r = "removeFATChain"),
         RemovalOK(Links, Recs, currentCluster', todo', pc'), MarkedOK(todo', pc', job'),
         \A e \in RecType : Stated(todo', e) /\ e.name \in Names /\ e.dir =>
           \/ \E x \in Place : Recs[x] = e
           \/ Making(pc', {".."}) /\ e.cluster = job'.fst,
         Making(pc, {"content", "add"}) =>
           \/ Making(pc', {"content", "add"}) /\ job'.fst = job.fst
           \/ Named(todo', job.fst),
         Making(pc, {".."}) =>
           \/ Making(pc', {".."}) /\ job'.fst = job.fst
           \/ \E i \in DOMAIN todo', o \in Pos :
                /\ todo'[i].w = "sector" /\ todo'[i].val.recs[o].name = DOTDOT
                /\ InChain(Links, job.fst, todo'[i].cluster),
         Making(pc', {"add"}) /\ job'.cmd = "mkdir" => Making(pc', {".."})
  PROVE  HeldOK'
<1>1. Links' = Links /\ Recs' = Recs
  BY SameDisk
<1>2. /\ AllDotted(Links, Recs, todo, pc, job)
      /\ Excused \/ (AllReached /\ AllKept(Links, Recs, todo, pc, job))
  BY DEF HeldOK
<1>3. DOMAIN todo = {}
  OBVIOUS
<1>4. ASSUME NEW h, Dotted(Links, Recs, todo, pc, job, h)
      PROVE  Dotted(Links, Recs, todo', pc', job', h)
  BY <1>3, <1>4 DEF Dotted
<1>5. AllDotted(Links, Recs, todo', pc', job')
  <2>1. ASSUME NEW x \in Place, Recs[x].name \in Names, Recs[x].dir
        PROVE  Dotted(Links, Recs, todo', pc', job', Recs[x].cluster)
    BY <2>1, <1>2, <1>4 DEF AllDotted
  <2>2. ASSUME NEW e \in RecType, Stated(todo', e), e.name \in Names, e.dir
        PROVE  Dotted(Links, Recs, todo', pc', job', e.cluster)
    <3>1. CASE \E x \in Place : Recs[x] = e
      BY <3>1, <2>1, <2>2
    <3>2. CASE Making(pc', {".."}) /\ e.cluster = job'.fst
      BY <3>2 DEF Dotted
    <3> QED  BY <3>1, <3>2, <2>2
  <2> QED  BY <2>1, <2>2 DEF AllDotted
<1>6. AllKept(Links, Recs, todo, pc, job) => AllKept(Links, Recs, todo', pc', job')
  <2>1. ASSUME NEW h, Held(Recs, todo, pc, job, h) PROVE Held(Recs, todo', pc', job', h)
    BY <2>1, <1>3 DEF Held, Named, Stated, Freed
  <2>2. ASSUME NEW c, Kept(Links, Recs, todo, pc, job, c)
        PROVE  Kept(Links, Recs, todo', pc', job', c)
    BY <2>1, <2>2, <1>3 DEF Kept, Has
  <2> QED  BY <2>2 DEF AllKept
<1> QED  BY <1>1, <1>2, <1>5, <1>6, SameDirectories DEF HeldOK

\* Nothing new is in the making.
Quiet(p) == ~Making(p, {"content", "add"}) /\ ~Making(p, {".."})

LEMMA QuietHeld ==
  ASSUME DInv, DInv', HeldOK, UNCHANGED disk, todo = <<>>, todo' = <<>>,
         ~(pc # <<>> /\ pc[1].r = "removeFATChain"), Quiet(pc), Quiet(pc')
  PROVE  HeldOK'
<1>1. DOMAIN todo' = {}
  OBVIOUS
<1>2. RemovalOK(Links, Recs, currentCluster', todo', pc') /\ MarkedOK(todo', pc', job')
  BY <1>1 DEF RemovalOK, MarkedOK, Has
<1>3. \A e : ~Stated(todo', e)
  BY <1>1 DEF Stated
<1>4. ~Making(pc', {"add"})
  BY DEF Quiet, Making
<1> QED  BY <1>2, <1>3, <1>4, StepHeld DEF Quiet

LEMMA QuietShape ==
  ASSUME NEW p \in Seq(FrameType), p # <<>>, Shape(p),
         p[1].r \notin {"content", "add", ".", ".."}
  PROVE  Quiet(p) /\ Quiet(Tail(p))
<1>1. ASSUME NEW i \in DOMAIN p PROVE p[i].r \notin {"content", "add", ".."}
  <2>1. DOMAIN p = 1..Len(p) /\ Len(p) \in Nat
    OBVIOUS
  <2>2. i \in 1..Len(p) /\ Len(p) \in 1..3
    BY <2>1 DEF Shape
  <2>3. CASE i = 1
    BY <2>3
  <2>4. CASE i # 1
    BY <2>2, <2>4 DEF Shape
  <2> QED  BY <2>3, <2>4
<1>2. \A i \in DOMAIN Tail(p) : i + 1 \in DOMAIN p /\ Tail(p)[i] = p[i + 1]
  BY Stack
<1> QED  BY <1>1, <1>2 DEF Quiet, Making

LEMMA DropsTop ==
  ASSUME pc \in Seq(FrameType), pc # <<>>, NEW i, Then(<<>>, i)
  PROVE  pc' = Tail(pc) /\ job' = IF Tail(pc) = <<>> THEN NoJob ELSE i
<1>1. Tail(pc) \in Seq(FrameType)
  BY Stack
<1>2. <<>> \o Tail(pc) = Tail(pc)
  BY <1>1
<1> QED  BY <1>2 DEF Then

\* A routine that makes nothing returns.
LEMMA ReturnHeld ==
  ASSUME DInv, DInv', HeldOK, UNCHANGED disk, NEW rr, Running(rr), todo' = <<>>,
         rr \notin {"content", "add", ".", "..", "removeFATChain"}, NEW i, Then(<<>>, i)
  PROVE  HeldOK'
<1>1. /\ todo = <<>> /\ pc # <<>> /\ pc \in Seq(FrameType) /\ Shape(pc) /\ pc[1].r = rr
  BY Begins
<1>2. pc' = Tail(pc)
  BY <1>1, DropsTop
<1>3. Quiet(pc) /\ Quiet(Tail(pc))
  BY <1>1, QuietShape
<1> QED  BY <1>1, <1>2, <1>3, QuietHeld

LEMMA MakingOn ==
  ASSUME NEW p \in Seq(FrameType), p # <<>>, NEW z \in FrameType, z.r = p[1].r, NEW rs
  PROVE  Making(<<z>> \o Tail(p), rs) <=> Making(p, rs)
<1> DEFINE s == <<z>> \o Tail(p)
<1>1. /\ s \in Seq(FrameType) /\ Len(s) = Len(p) /\ s[1] = z
      /\ \A i \in DOMAIN s : i \in DOMAIN p /\ (i # 1 => s[i] = p[i])
  BY Replaced
<1>2. DOMAIN s = DOMAIN p
  BY <1>1
<1> HIDE DEF s
<1>3. \A i \in DOMAIN p : s[i].r = p[i].r
  BY <1>1, <1>2
<1>4. Making(s, rs) <=> Making(p, rs)
  BY <1>2, <1>3 DEF Making
<1> QED  BY <1>4 DEF s

\* Handing out a cluster names nothing and marks what it will link.
LEMMA HandOutHeld ==
  ASSUME NEW ws, Plain(ws), \A w : Has(ws, w) => w.w = "sector", NEW q, NEW n, NEW l,
         HandOut(ws, q, n, l), n \in {0} \cup Cluster
  PROVE  /\ Plain(q)
         /\ \A c \in Cluster : Has(q, SetEntry(c, END_CLUSTER)) => c = n
<1>1. ASSUME NEW i \in DOMAIN q, q[i].w = "sector", NEW o \in Pos
      PROVE  q[i].val.recs[o] = ZeroRec
  <2>1. CASE Has(ws, q[i])
    BY <2>1, <1>1 DEF Has, Plain
  <2>2. ASSUME NEW s \in Sector, q[i] = SetSector(n, s, ZeroSector)
        PROVE  q[i].val.recs[o] = ZeroRec
    BY <2>2, ZeroSectorKnown DEF SetSector
  <2> QED  BY <2>1, <2>2, <1>1, SetEntryIs DEF HandOut
<1>2. ASSUME NEW c \in Cluster, NEW i \in DOMAIN q, q[i] = SetEntry(c, END_CLUSTER)
      PROVE  c = n
  <2>1. q[i].w = "entry" /\ q[i].cluster = c /\ q[i].val = END_CLUSTER
    BY <1>2, SetEntryIs
  <2>2. q[i] # SetEntry(l, n)
    BY <2>1, SetEntryIs, Numbers
  <2>3. \A s : SetSector(n, s, ZeroSector).w = "sector"
    BY DEF SetSector
  <2>4. q[i] = SetEntry(n, END_CLUSTER)
    BY <2>1, <2>2, <2>3 DEF HandOut
  <2> QED  BY <2>1, <2>4, SetEntryIs
<1> QED  BY <1>1, <1>2 DEF Plain, Has

LEMMA MoveHeld ==
  ASSUME DInv, DInv', HeldOK, UNCHANGED disk, NEW rr \in Walking, Running(rr), ~halted',
         NEW ws \in Seq(Write), NextSector(ws), Plain(ws), \A w : Has(ws, w) => w.w = "sector",
         job'.fst = job.fst, job'.cmd = job.cmd
  PROVE  HeldOK'
<1>1. /\ todo = <<>> /\ pc # <<>> /\ pc \in Seq(FrameType) /\ pc[1].r = rr
  BY Begins
<1>2. QueuedOK(Links, ws)
  BY NamesKnown DEF QueuedOK, Carries, Plain
<1>3. PICK z \in FrameType : /\ z.r = rr /\ pc' = <<z>> \o Tail(pc)
                             /\ todo' = ws \/ HandOut(ws, todo', z.cluster, pc[1].cluster)
  BY <1>2, Moves
<1>4. \A rs : Making(pc', rs) <=> Making(pc, rs)
  BY <1>1, <1>3, MakingOn
<1>5. z.cluster \in {0} \cup Cluster
  BY DEF FrameType
<1>6. pc[1].cluster \in Cluster
  <2>1. PICK home, rank, anc :
          DiskOK(Links, Recs, home, rank, anc, currentCluster, <<>>, pc, job)
    BY Begins
  <2> QED  BY <2>1, <1>1, WalkingAt
<1>7. Plain(todo') /\ MarkedOK(todo', pc', job')
  <2>1. CASE todo' = ws
    BY <2>1, SetEntryIs DEF MarkedOK
  <2>2. CASE HandOut(ws, todo', z.cluster, pc[1].cluster)
    <3>1. /\ Plain(todo')
          /\ \A c \in Cluster : Has(todo', SetEntry(c, END_CLUSTER)) => c = z.cluster
      BY <2>2, <1>5, HandOutHeld
    <3>2. Has(todo', SetEntry(pc[1].cluster, z.cluster))
      BY <2>2, <1>6, Numbers DEF HandOut
    <3> QED  BY <3>1, <3>2, <1>6 DEF MarkedOK
  <2> QED  BY <2>1, <2>2, <1>3
<1>8. AllDotted(Links, Recs, todo, pc, job)
  BY DEF HeldOK
<1>9. Making(pc', {"add"}) /\ job'.cmd = "mkdir" => Making(pc', {".."})
  BY <1>4, <1>8 DEF AllDotted
<1>10. ~(pc # <<>> /\ pc[1].r = "removeFATChain")
  BY <1>1 DEF Walking
<1> QED  BY <1>1, <1>4, <1>7, <1>9, <1>10, PlainMeans, StepHeld

LEMMA ShapeNow == DInv => pc \in Seq(FrameType) /\ Shape(pc)
BY DEF DInv, DiskOK, FramesOK

LEMMA ShapeNext == DInv' => pc' \in Seq(FrameType) /\ Shape(pc')
<1>1. (DInv => pc \in Seq(FrameType) /\ Shape(pc))'
  BY ShapeNow, PTL
<1> QED  BY <1>1 DEF Shape

\* A routine that makes nothing leads to another one.
LEMMA OnwardHeld ==
  ASSUME DInv, DInv', HeldOK, UNCHANGED disk, todo = <<>>, todo' = <<>>,
         pc # <<>> => pc[1].r \notin {"content", "add", ".", "..", "removeFATChain"},
         pc' # <<>> => pc'[1].r \notin {"content", "add", ".", ".."}
  PROVE  HeldOK'
<1>1. /\ pc \in Seq(FrameType) /\ Shape(pc)
      /\ pc' \in Seq(FrameType) /\ Shape(pc')
  BY ShapeNow, ShapeNext DEF Shape
<1>2. Quiet(<<>>)
  BY DEF Quiet, Making
<1>3. Quiet(pc) /\ Quiet(pc')
  BY <1>1, <1>2, QuietShape
<1> QED  BY <1>3, QuietHeld

LEMMA NoWrites == Plain(<<>>) /\ <<>> \in Seq(Write) /\ \A w : ~Has(<<>>, w)
<1>1. DOMAIN <<>> = {} /\ <<>> \in Seq(Write)
  OBVIOUS
<1> QED  BY <1>1 DEF Plain, Has

LEMMA ListHeld == ASSUME DInv, DInv', HeldOK, list_files, ~halted' PROVE HeldOK'
<1>1. todo = <<>> /\ Running("list_files") /\ UNCHANGED disk /\ job \in JobType
  BY Begins DEF list_files
<1>2. CASE Then(<<>>, [job EXCEPT !.hit = Found]) /\ UNCHANGED <<todo, halted>>
  BY <1>1, <1>2, ReturnHeld
<1>3. CASE NextSector(<<>>) /\ job' = [job EXCEPT !.hit = Found]
  <2>1. job'.fst = job.fst /\ job'.cmd = job.cmd
    BY <1>1, <1>3 DEF JobType
  <2>2. "list_files" \in Walking /\ "readFile" \in Walking
    BY DEF Walking
  <2> HIDE DEF NextSector
  <2> QED  BY <1>1, <1>3, <2>1, <2>2, NoWrites, MoveHeld
<1> QED  BY <1>2, <1>3 DEF list_files

LEMMA ReadFileHeld == ASSUME DInv, DInv', HeldOK, readFile, ~halted' PROVE HeldOK'
<1>1. todo = <<>> /\ Running("readFile") /\ UNCHANGED disk /\ job \in JobType
  BY Begins DEF readFile
<1>2. CASE Return /\ UNCHANGED <<todo, halted>>
  BY <1>1, <1>2, ReturnHeld DEF Return
<1>3. CASE NextSector(<<>>) /\ job' = [job EXCEPT !.buffer = Append(@, Here.text)]
  <2>1. job'.fst = job.fst /\ job'.cmd = job.cmd
    BY <1>1, <1>3 DEF JobType
  <2>2. "list_files" \in Walking /\ "readFile" \in Walking
    BY DEF Walking
  <2> HIDE DEF NextSector
  <2> QED  BY <1>1, <1>3, <2>1, <2>2, NoWrites, MoveHeld
<1> QED  BY <1>2, <1>3 DEF readFile

LEMMA CdHeld == ASSUME DInv, DInv', HeldOK, change_directory PROVE HeldOK'
<1>1. todo = <<>> /\ Running("cd") /\ UNCHANGED disk /\ todo' = todo
  BY Begins DEF change_directory
<1>2. Then(<<>>, job)
  BY DEF change_directory, Return
<1> QED  BY <1>1, <1>2, ReturnHeld

LEMMA ReadHeld == ASSUME DInv, DInv', HeldOK, read_file PROVE HeldOK'
<1>1. /\ todo = <<>> /\ Running("read") /\ UNCHANGED disk /\ todo' = todo /\ pc[1].r = "read"
      /\ pc # <<>> /\ pc \in Seq(FrameType) /\ Shape(pc) /\ Tail(pc) \in Seq(FrameType)
  BY Begins DEF read_file
<1>2. CASE job.hit = NOWHERE
  <2>1. Then(<<>>, job)
    BY <1>2 DEF read_file
  <2> QED  BY <1>1, <2>1, ReturnHeld
<1>3. CASE job.hit # NOWHERE
  <2> DEFINE z == Frame("readFile", FstCluster(job.hit))
  <2>1. Tail(pc) = <<>>
    BY <1>1, Alone
  <2>2. Then(<<z>>, job)
    BY <1>3 DEF read_file
  <2>3. z.r = "readFile"
    BY DEF Frame
  <2> HIDE DEF z
  <2>4. <<z>> \o <<>> = <<z>>
    OBVIOUS
  <2>5. pc' = <<z>>
    BY <2>1, <2>2, <2>4 DEF Then
  <2>6. pc'[1].r = "readFile"
    BY <2>3, <2>5
  <2> QED  BY <1>1, <2>6, OnwardHeld
<1> QED  BY <1>2, <1>3

LEMMA CommandHeld == ASSUME DInv, DInv', HeldOK, Command PROVE HeldOK'
<1>1. ASSUME NEW cmd \in {"ls", "mkdir", "cd", "rm", "read", "write"}, NEW name, NEW content,
             process_cmd(cmd, name, content)
      PROVE  HeldOK'
  <2> DEFINE calls == <<"list_files">> \o Calls(cmd)
  <2>1. /\ pc = <<>> /\ todo = <<>> /\ todo' = <<>> /\ UNCHANGED disk
        /\ pc' = [k \in DOMAIN calls |-> Frame(calls[k], currentCluster)]
    BY <1>1 DEF process_cmd
  <2>2. DOMAIN calls = 1..Len(calls) /\ Len(calls) \in 1..3 /\ calls[1] = "list_files"
    BY Listing
  <2> HIDE DEF calls
  <2>3. pc'[1] = Frame("list_files", currentCluster)
    BY <2>1, <2>2
  <2>4. pc'[1].r = "list_files"
    BY <2>3 DEF Frame
  <2> QED  BY <2>1, <2>4, OnwardHeld
<1> QED  BY <1>1 DEF Command

LEMMA ContentHeld == ASSUME DInv, DInv', HeldOK, write_content, ~halted' PROVE HeldOK'
<1>1. /\ todo = <<>> /\ Running("content") /\ UNCHANGED disk /\ job \in JobType
      /\ pc # <<>> /\ pc \in Seq(FrameType) /\ Shape(pc) /\ Top = pc[1] /\ pc[1] \in FrameType
      /\ pc[1].r = "content"
  BY Begins DEF write_content
<1>2. CASE Return /\ UNCHANGED <<todo, halted>>
  <2>1. Len(pc) = 2 /\ pc[2].r = "add"
    BY <1>1 DEF Shape
  <2>2. /\ Len(Tail(pc)) = 1 /\ 1 \in DOMAIN Tail(pc) /\ Tail(pc)[1] = pc[2] /\ Tail(pc) # <<>>
        /\ 2 \in DOMAIN pc /\ \A i \in DOMAIN pc : i = 1 \/ i = 2
    <3>1. Len(Tail(pc)) = 1 /\ DOMAIN pc = 1..2 /\ Tail(pc) \in Seq(FrameType)
      BY <2>1, <1>1, Stack
    <3>2. \A u \in Seq(FrameType) : Len(u) = 1 => 1 \in DOMAIN u /\ u # <<>>
      OBVIOUS
    <3>3. 1 \in DOMAIN Tail(pc) /\ Tail(pc) # <<>>
      BY <3>1, <3>2
    <3>4. Tail(pc)[1] = pc[1 + 1]
      BY <3>3, <1>1, Stack
    <3>5. pc[1 + 1] = pc[2]
      OBVIOUS
    <3> QED  BY <3>1, <3>3, <3>4, <3>5
  <2>3. pc' = Tail(pc) /\ job' = job
    BY <1>1, <1>2, <2>2, DropsTop DEF Return
  <2>4. Making(pc', {"content", "add"}) /\ job'.fst = job.fst /\ ~Making(pc, {".."})
    BY <2>1, <2>2, <2>3, <1>1 DEF Making
  <2>5. AllDotted(Links, Recs, todo, pc, job) /\ Making(pc, {"add"})
    BY <2>1, <2>2 DEF HeldOK, Making
  <2>6. job.cmd # "mkdir"
    BY <2>4, <2>5 DEF AllDotted
  <2>7. todo' = <<>>
    BY <1>1, <1>2
  <2>8. MarkedOK(todo', pc', job')
    BY <2>7, NoWrites DEF MarkedOK
  <2> QED  BY <2>3, <2>4, <2>6, <2>7, <2>8, <1>1, NoWrites, PlainMeans, StepHeld
<1>3. CASE /\ job.buffer # <<>>
           /\ NextSector(<<SetSector(Top.cluster, Top.sector,
                             [ZeroSector EXCEPT !.text = Head(job.buffer)])>>)
           /\ job' = [job EXCEPT !.buffer = Tail(@)]
  <2> DEFINE v == [ZeroSector EXCEPT !.text = Head(job.buffer)]
             w == SetSector(Top.cluster, Top.sector, v)
             ws == <<w>>
  <2>1. job.buffer \in Seq(TextType)
    BY <1>1 DEF JobType
  <2>2. Head(job.buffer) \in TextType
    BY <2>1, <1>3
  <2>3. job'.fst = job.fst /\ job'.cmd = job.cmd
    BY <1>1, <1>3 DEF JobType
  <2>4. v \in SecType /\ \A p \in Pos : v.recs[p] = ZeroRec
    BY <2>2, ZeroSectorKnown DEF SecType
  <2>5. Top.cluster \in Cluster /\ Top.sector \in Sector
    <3>1. PICK home, rank, anc :
            DiskOK(Links, Recs, home, rank, anc, currentCluster, <<>>, pc, job)
      BY <1>1, Begins
    <3> QED  BY <1>1, <3>1, WalkingAt DEF Walking, FrameType
  <2> HIDE DEF v
  <2>6. w \in Write /\ w.w = "sector" /\ w.val = v
    BY <2>4, <2>5 DEF SetSector, Write, SectorWrite
  <2>7. NextSector(ws)
    BY <1>3 DEF v
  <2> HIDE DEF w
  <2>8. ws \in Seq(Write) /\ \A i \in DOMAIN ws : ws[i] = w
    BY <2>6
  <2> HIDE DEF ws
  <2>9. Plain(ws) /\ \A u : Has(ws, u) => u.w = "sector"
    BY <2>4, <2>6, <2>8 DEF Plain, Has
  <2>10. "content" \in Walking
    BY DEF Walking
  <2> QED  BY <2>3, <2>7, <2>8, <2>9, <2>10, <1>1, MoveHeld
<1> QED  BY <1>2, <1>3 DEF write_content

\* The records of a sector about to be written that hold something new.
LEMMA OneSector ==
  ASSUME NEW c \in Cluster, NEW s \in Sector, NEW v \in SecType, NEW q, q = <<SetSector(c, s, v)>>
  PROVE  /\ DOMAIN q = {1} /\ q[1].w = "sector" /\ q[1].cluster = c /\ q[1].sector = s
         /\ q[1].val = v /\ \A l, n : ~Has(q, SetEntry(l, n))
         /\ \A e : Stated(q, e) <=> \E o \in Pos : v.recs[o] = e
<1> DEFINE w == SetSector(c, s, v)
<1>1. w.w = "sector" /\ w.cluster = c /\ w.sector = s /\ w.val = v
  BY DEF SetSector
<1> HIDE DEF w
<1>2. DOMAIN q = {1} /\ q[1] = w
  <2>1. q = <<w>>
    BY DEF w
  <2>2. DOMAIN <<w>> = {1} /\ <<w>>[1] = w
    OBVIOUS
  <2> QED  BY ONLY <2>1, <2>2
<1> QED  BY <1>1, <1>2, SetEntryIs DEF Has, Stated

LEMMA RemoveHeld ==
  ASSUME DInv, DInv', HeldOK, NEW a \in {"rm", "rmold"}, removeEntryFromDirectory(a)
  PROVE  HeldOK'
<1>1. /\ todo = <<>> /\ Running(a) /\ UNCHANGED <<disk, currentCluster>> /\ job \in JobType
      /\ pc # <<>> /\ pc \in Seq(FrameType) /\ Shape(pc) /\ pc[1] \in FrameType /\ pc[1].r = a
      /\ Tail(pc) \in Seq(FrameType)
  BY Begins DEF removeEntryFromDirectory
<1>2. CASE job.hit = NOWHERE
  BY <1>1, <1>2, ReturnHeld DEF removeEntryFromDirectory, Return
<1>3. CASE job.hit # NOWHERE
  <2> DEFINE x == job.hit
             v == [data[x.cluster][x.sector] EXCEPT !.recs[x.pos].name = REMOVED]
             z == Frame("removeFATChain", Rec(x).cluster)
             t == <<z>> \o Tail(pc)
  <2>1. PICK home, rank, anc :
          /\ DiskOK(Links, Recs, home, rank, anc, currentCluster, <<>>, pc, job)
          /\ FrameOK(Links, Recs, home, anc, currentCluster, <<>>, job, pc[1])
    BY <1>1, Begins
  <2>2. /\ TableOK(Links, home, rank) /\ RecordsOK(Links, Recs, home)
        /\ PathOK(Recs, home, anc, currentCluster)
    BY <2>1 DEF DiskOK
  <2>3. HitOK(Recs, home, currentCluster, job) /\ job.name \in Names
    BY <1>1, <2>1 DEF FrameOK
  <2>4. x \in Place /\ home[x.cluster] = currentCluster /\ Recs[x].name \in Names
    BY <2>3, <1>1, <1>3, FoundKind
  <2>5. /\ x.cluster \in Cluster /\ x.sector \in Sector /\ x.pos \in Pos
        /\ x = Spot(x.cluster, x.sector, x.pos) /\ Recs[x] \in RecType /\ Rec(x) = Recs[x]
    <3>1. x.cluster \in Cluster /\ x.sector \in Sector /\ x.pos \in Pos
          /\ x = Spot(x.cluster, x.sector, x.pos)
      BY <2>4 DEF Place, Spot
    <3>2. Recs[x] \in RecType /\ Rec(x) = Recs[x]
      BY <2>2, <2>4 DEF RecordsOK, Recs
    <3> QED  BY <3>1, <3>2
  <2>6. /\ data[x.cluster][x.sector] \in SecType
        /\ \A p \in Pos : /\ Spot(x.cluster, x.sector, p) \in Place
                          /\ Recs[Spot(x.cluster, x.sector, p)] = data[x.cluster][x.sector].recs[p]
    BY <2>5, HereIs DEF DInv
  <2>7. /\ v \in SecType /\ v.recs[x.pos].name = REMOVED
        /\ \A o \in Pos \ {x.pos} : v.recs[o] = Recs[Spot(x.cluster, x.sector, o)]
    BY <2>5, <2>6 DEF SecType, RecType
  <2>8. InChain(Links, currentCluster, x.cluster)
    <3>1. currentCluster \in Cluster /\ home[currentCluster] = currentCluster
      BY <2>2, PathAnchored, AnchoredHome
    <3> QED  BY <3>1, <2>2, <2>4, <2>5, HomeInChain
  <2>9. todo' = <<SetSector(x.cluster, x.sector, v)>> /\ Then(<<z>>, job)
    BY <1>3 DEF removeEntryFromDirectory
  <2>10. z \in FrameType /\ z.r = "removeFATChain" /\ z.cluster = Recs[x].cluster
    <3>1. Rec(x).cluster \in {0} \cup Cluster /\ "removeFATChain" \in Routines
      BY <2>5 DEF Routines, RecType
    <3>2. /\ Frame("removeFATChain", Rec(x).cluster) \in FrameType
          /\ Frame("removeFATChain", Rec(x).cluster).r = "removeFATChain"
          /\ Frame("removeFATChain", Rec(x).cluster).cluster = Rec(x).cluster
      BY ONLY <3>1, FrameIs
    <3> QED  BY <3>2, <2>5
  <2> HIDE DEF v, z
  <2>11. t \in Seq(FrameType) /\ t # <<>> /\ t[1] = z
    BY <2>10, <1>1
  <2>12. pc' = t
    BY <2>9 DEF Then
  <2>13. /\ DOMAIN todo' = {1} /\ todo'[1].w = "sector" /\ todo'[1].cluster = x.cluster
         /\ todo'[1].sector = x.sector /\ todo'[1].val = v /\ \A l, n : ~Has(todo', SetEntry(l, n))
         /\ \A e : Stated(todo', e) <=> \E o \in Pos : v.recs[o] = e
    BY <2>5, <2>7, <2>9, OneSector
  <2> HIDE DEF t, x
  <2>14. Freed(pc', Recs[x].cluster)
    BY <2>10, <2>11, <2>12 DEF Freed
  <2>15. RemovalOK(Links, Recs, currentCluster', todo', pc')
    <3> SUFFICES ASSUME NEW o \in Pos, v.recs[o].name = REMOVED,
                        Recs[Spot(x.cluster, x.sector, o)].name \in Names
                 PROVE  o = x.pos
      BY <1>1, <2>5, <2>8, <2>13, <2>14 DEF RemovalOK
    <3> QED  BY <2>7, NamesKnown
  <2>16. Quiet(pc) /\ Quiet(pc')
    <3>1. pc' \in Seq(FrameType) /\ Shape(pc')
      BY ShapeNext
    <3> QED  BY <3>1, <1>1, <2>10, <2>11, <2>12, QuietShape
  <2>17. ASSUME NEW e \in RecType, Stated(todo', e), e.name \in Names
         PROVE  \E y \in Place : Recs[y] = e
    <3>1. PICK o \in Pos : v.recs[o] = e
      BY <2>17, <2>13
    <3>2. o # x.pos
      BY <3>1, <2>7, <2>17, NamesKnown
    <3> QED  BY <3>1, <3>2, <2>6, <2>7
  <2>18. MarkedOK(todo', pc', job') /\ ~Making(pc', {"add"})
    BY <2>13, <2>16 DEF MarkedOK, Quiet, Making
  <2> QED  BY <1>1, <2>15, <2>16, <2>17, <2>18, StepHeld DEF Quiet
<1> QED  BY <1>2, <1>3

\* A file or directory begins.
LEMMA NewChainHeld ==
  ASSUME DInv, DInv', HeldOK, NEW rr \in {"mkdir", "writeFile"}, Running(rr), ~halted',
         UNCHANGED disk, NEW rs, NewChain(rs),
         \/ /\ rr = "mkdir"
            /\ rs = <<Frame("add", currentCluster), Frame(".", FirstFree),
                      Frame("..", FirstFree)>>
         \/ /\ rr = "writeFile"
            /\ rs = <<Frame("content", FirstFree), Frame("add", currentCluster)>>
  PROVE  HeldOK'
<1> DEFINE n == FirstFree
           i == [job EXCEPT !.fst = n]
<1>1. /\ todo = <<>> /\ pc # <<>> /\ pc \in Seq(FrameType) /\ Shape(pc)
      /\ pc[1].r = rr /\ job \in JobType
  BY Begins
<1>2. PICK home, rank, anc :
        /\ DiskOK(Links, Recs, home, rank, anc, currentCluster, <<>>, pc, job)
        /\ FrameOK(Links, Recs, home, anc, currentCluster, <<>>, job, pc[1])
  BY Begins
<1>3. FreeClusters # {} /\ todo' = allocateFreeCluster(0) /\ Then(rs, i)
  BY DEF NewChain
<1>4. n \in Cluster /\ HandOut(<<>>, todo', n, 0)
  BY <1>3, FirstFreeIs, FirstHandOut
<1>5. i.fst = n /\ i.cmd = job.cmd
  BY <1>1 DEF JobType
<1>6. rr = "writeFile" => i.cmd = "write"
  BY <1>1, <1>2, <1>5 DEF FrameOK
<1>7. Plain(todo') /\ \A c \in Cluster : Has(todo', SetEntry(c, END_CLUSTER)) => c = n
  BY <1>4, NoWrites, HandOutHeld
<1>8. Tail(pc) = <<>>
  BY <1>1, Alone
<1>9. currentCluster \in {0} \cup Cluster /\ n \in {0} \cup Cluster
  <2>1. currentCluster \in Cluster
    BY <1>2, PathAnchored, AnchoredHome DEF DiskOK
  <2> QED  BY <1>4, <2>1
<1> HIDE DEF i
<1>10. /\ rs \in Seq(FrameType) /\ rs # <<>> /\ Making(rs, {"content", "add"})
       /\ rr = "mkdir" => Making(rs, {".."})
  <2> DEFINE a == Frame("add", currentCluster)
             b == Frame(".", n)
             c == Frame("..", n)
             d == Frame("content", n)
  <2>1. /\ a \in FrameType /\ b \in FrameType /\ c \in FrameType /\ d \in FrameType
        /\ a.r = "add" /\ c.r = ".."
    BY <1>9, FrameIs DEF Routines
  <2>2. CASE rr = "mkdir"
    <3>1. rs = <<a, b, c>>
      BY <2>2
    <3> HIDE DEF a, b, c, d
    <3>2. /\ rs \in Seq(FrameType) /\ rs # <<>> /\ rs[1] = a /\ rs[3] = c
          /\ 1 \in DOMAIN rs /\ 3 \in DOMAIN rs
      BY <2>1, <3>1
    <3> QED  BY <2>1, <3>2 DEF Making
  <2>3. CASE rr = "writeFile"
    <3>1. rs = <<d, a>>
      BY <2>3
    <3> HIDE DEF a, b, c, d
    <3>2. rs \in Seq(FrameType) /\ rs # <<>> /\ rs[2] = a /\ 2 \in DOMAIN rs
      BY <2>1, <3>1
    <3> QED  BY <2>1, <2>3, <3>2 DEF Making
  <2> QED  BY <2>2, <2>3
<1>11. pc' = rs /\ job' = i
  <2>1. rs \o <<>> = rs
    BY <1>10
  <2> QED  BY <2>1, <1>3, <1>8, <1>10 DEF Then
<1>12. MarkedOK(todo', pc', job')
  BY <1>5, <1>7, <1>10, <1>11 DEF MarkedOK
<1>13. Quiet(pc)
  BY <1>1, QuietShape
<1>14. ~(pc[1].r = "removeFATChain")
  BY <1>1
<1>15. Making(pc', {"add"}) /\ job'.cmd = "mkdir" => Making(pc', {".."})
  BY <1>6, <1>10, <1>11
<1> HIDE DEF n
<1> QED  BY <1>1, <1>7, <1>12, <1>13, <1>14, <1>15, PlainMeans, StepHeld DEF Quiet

LEMMA MkdirHeld == ASSUME DInv, DInv', HeldOK, mkdir, ~halted' PROVE HeldOK'
<1>1. todo = <<>> /\ Running("mkdir") /\ UNCHANGED disk
  BY Begins DEF mkdir
<1>2. CASE Return /\ UNCHANGED <<todo, halted>>
  BY <1>1, <1>2, ReturnHeld DEF Return
<1>3. CASE NewChain(<<Frame("add", currentCluster), Frame(".", FirstFree),
                      Frame("..", FirstFree)>>)
  BY <1>1, <1>3, NewChainHeld
<1> QED  BY <1>2, <1>3 DEF mkdir

LEMMA WriteFileHeld == ASSUME DInv, DInv', HeldOK, writeFile, ~halted' PROVE HeldOK'
<1>1. /\ Running("writeFile") /\ UNCHANGED disk
      /\ NewChain(<<Frame("content", FirstFree), Frame("add", currentCluster)>>)
  BY DEF writeFile
<1> QED  BY <1>1, NewChainHeld

LEMMA AddHeld ==
  ASSUME DInv, DInv', HeldOK, NEW a \in {"add", ".", ".."}, addFileToDirectory(a), ~halted'
  PROVE  HeldOK'
<1> DEFINE c == Top.cluster
           s == Top.sector
<1>1. /\ todo = <<>> /\ pc # <<>> /\ job \in JobType /\ Shape(pc) /\ Running(a)
      /\ pc \in Seq(FrameType) /\ Top = pc[1] /\ Top \in FrameType /\ Top.r = a
      /\ Tail(pc) \in Seq(FrameType) /\ UNCHANGED <<disk, currentCluster>>
  BY Begins DEF addFileToDirectory
<1>2. PICK home, rank, anc :
        /\ DiskOK(Links, Recs, home, rank, anc, currentCluster, <<>>, pc, job)
        /\ FrameOK(Links, Recs, home, anc, currentCluster, <<>>, job, pc[1])
  BY Begins DEF addFileToDirectory
<1>3. /\ c \in Cluster /\ a \in Walking
      /\ a = "add" => home[c] = currentCluster
      /\ a # "add" => home[c] = job.fst
  BY <1>1, <1>2, WalkingAt DEF Walking
<1>4. /\ s \in Sector /\ Here \in SecType
      /\ \A p \in Pos : /\ Spot(c, s, p) \in Place /\ Recs[Spot(c, s, p)] = Here.recs[p]
  BY <1>1, <1>3, HereIs DEF Here, FrameType, DInv
<1>5. CASE Unused = {} /\ NextSector(<<>>) /\ UNCHANGED job
  BY <1>1, <1>3, <1>5, NoWrites, MoveHeld
<1>6. CASE /\ Unused # {}
           /\ todo' = <<SetSector(c, s, [Here EXCEPT !.recs[Least(Unused)] = Entry(a)])>>
           /\ Return /\ UNCHANGED halted
  <2> DEFINE p == Least(Unused)
             e == Entry(a)
             v == [Here EXCEPT !.recs[p] = e]
             t == Tail(pc)
  <2>1. p \in Pos
    <3>1. Unused \in SUBSET Nat
      BY Fat32Assumption DEF Unused, Pos
    <3>2. p \in Unused
      BY <3>1, <1>6, LeastIn
    <3> QED  BY <3>2 DEF Unused
  <2>2. todo' = <<SetSector(c, s, v)>>
    BY <1>6
  <2> HIDE DEF p
  <2>3. /\ TableOK(Links, home, rank) /\ RecordsOK(Links, Recs, home)
        /\ PathOK(Recs, home, anc, currentCluster)
    BY <1>2 DEF DiskOK
  <2>4. e \in RecType
    <3>1. currentCluster \in Cluster
      BY <2>3, PathAnchored, AnchoredHome
    <3> QED  BY <3>1, <1>1, <1>2, <1>3, EntryAdded
  <2>5. /\ a = "add" => /\ e.name = job.name /\ e.name \in Names /\ e.cluster = job.fst
                        /\ e.dir = (job.cmd = "mkdir")
        /\ a = "." => e.name = DOT
        /\ a = ".." => e.name = DOTDOT
    <3>1. a = "add" => job.name \in Names
      BY <1>1, <1>2 DEF FrameOK
    <3> QED  BY <3>1 DEF Entry
  <2> HIDE DEF e
  <2>6. /\ v \in SecType /\ v.recs[p] = e
        /\ \A o \in Pos \ {p} : v.recs[o] = Recs[Spot(c, s, o)]
    BY <2>1, <2>4, <1>4 DEF SecType
  <2> HIDE DEF v
  <2>7. /\ DOMAIN todo' = {1} /\ todo'[1].w = "sector" /\ todo'[1].cluster = c
        /\ todo'[1].sector = s /\ todo'[1].val = v /\ \A l, m : ~Has(todo', SetEntry(l, m))
        /\ \A b : Stated(todo', b) <=> \E o \in Pos : v.recs[o] = b
    BY <1>3, <1>4, <2>2, <2>6, OneSector
  <2>8. pc' = t /\ job' = IF t = <<>> THEN NoJob ELSE job
    BY <1>1, <1>6, DropsTop DEF Return
  <2>9. /\ \A k \in DOMAIN t : t[k].r \in {".", ".."} /\ t # <<>>
        /\ a # "add" => ~Making(pc, {"content", "add"})
        /\ a # ".." /\ Making(pc, {".."}) => Making(t, {".."}) /\ t # <<>>
    <3>1. \A k \in DOMAIN t : /\ k + 1 \in DOMAIN pc /\ k + 1 # 1 /\ t[k] = pc[k + 1]
      BY <1>1, Stack
    <3>2. \A k \in DOMAIN pc : k # 1 => a \in {"add", "."} /\ pc[k].r \in {".", ".."}
      BY <1>1, OnTop
    <3>3. \A k \in DOMAIN pc : k # 1 => k - 1 \in DOMAIN t /\ t[k - 1] = pc[k] /\ t # <<>>
      BY <1>1
    <3> HIDE DEF t
    <3>4. \A k \in DOMAIN t : t[k].r \in {".", ".."} /\ t # <<>>
      BY <3>1, <3>2
    <3>5. a # "add" => ~Making(pc, {"content", "add"})
      BY <3>2, <1>1 DEF Making
    <3>6. a # ".." /\ Making(pc, {".."}) => Making(t, {".."}) /\ t # <<>>
      BY <3>3, <1>1 DEF Making
    <3> QED  BY <3>4, <3>5, <3>6
  <2> HIDE DEF t
  <2>10. RemovalOK(Links, Recs, currentCluster', todo', pc')
    <3> SUFFICES ASSUME NEW o \in Pos, v.recs[o].name = REMOVED,
                        Recs[Spot(c, s, o)].name \in Names
                 PROVE  FALSE
      BY <2>7 DEF RemovalOK
    <3>1. e.name # REMOVED
      BY <2>5, NamesKnown
    <3> QED  BY <3>1, <2>6, NamesKnown
  <2>11. MarkedOK(todo', pc', job') /\ ~Making(pc', {"add"})
    BY <2>7, <2>8, <2>9 DEF MarkedOK, Making
  <2>12. AllDotted(Links, Recs, todo, pc, job)
    BY DEF HeldOK
  <2>13. ASSUME NEW b \in RecType, Stated(todo', b), b.name \in Names, b.dir
         PROVE  \/ \E x \in Place : Recs[x] = b
                \/ Making(pc', {".."}) /\ b.cluster = job'.fst
    <3>1. PICK o \in Pos : v.recs[o] = b
      BY <2>13, <2>7
    <3>2. CASE o # p
      BY <3>1, <3>2, <2>6, <1>4
    <3>3. CASE o = p
      <4>1. b = e /\ a = "add"
        BY <3>1, <3>3, <2>5, <2>6, <2>13, NamesKnown
      <4>2. Making(pc, {"add"}) /\ job.cmd = "mkdir"
        BY <4>1, <2>5, <2>13, <1>1, Stack DEF Making
      <4>3. Making(pc, {".."})
        BY <4>2, <2>12 DEF AllDotted
      <4> QED  BY <4>1, <4>3, <2>5, <2>8, <2>9
    <3> QED  BY <3>2, <3>3
  <2>14. ASSUME Making(pc, {"content", "add"}) PROVE Named(todo', job.fst)
    <3>1. a = "add"
      BY <2>14, <2>9
    <3> QED  BY <3>1, <2>1, <2>4, <2>5, <2>6, <2>7 DEF Named
  <2>15. ASSUME Making(pc, {".."})
         PROVE  \/ Making(pc', {".."}) /\ job'.fst = job.fst
                \/ \E i \in DOMAIN todo', o \in Pos :
                     /\ todo'[i].w = "sector" /\ todo'[i].val.recs[o].name = DOTDOT
                     /\ InChain(Links, job.fst, todo'[i].cluster)
    <3>1. CASE a # ".."
      BY <3>1, <2>8, <2>9, <2>15
    <3>2. CASE a = ".."
      <4>1. job.fst \in Cluster /\ At(Links, home, <<>>, job.fst, job.fst)
        BY <3>2, <1>1, <1>2 DEF FrameOK
      <4>2. home[job.fst] = job.fst
        BY <4>1, AtRest
      <4>3. InChain(Links, job.fst, c)
        BY <3>2, <4>1, <4>2, <1>3, <2>3, HomeInChain
      <4> QED  BY <3>2, <4>3, <2>1, <2>5, <2>6, <2>7
    <3> QED  BY <3>1, <3>2
  <2>16. ~(pc # <<>> /\ pc[1].r = "removeFATChain")
    BY <1>1
  <2> HIDE DEF c, s
  <2> QED  BY <1>1, <2>10, <2>11, <2>13, <2>14, <2>15, <2>16, StepHeld
<1> QED  BY <1>5, <1>6 DEF addFileToDirectory

LEMMA InChainBegins ==
  ASSUME NEW f \in [Entries -> FatValue], NEW h \in FatValue, NEW c \in Cluster, InChain(f, h, c)
  PROVE  h \in Cluster
<1>1. PICK k \in Nat : NthOf(f, h, k) = c
  BY DEF InChain
<1>2. 0 \in 0..k
  BY <1>1
<1>3. NthOf(f, h, 0) \in Cluster
  BY <1>1, <1>2, NthBefore
<1> QED  BY <1>3, NthStep

\* removeFATChain frees a cluster and goes on with the rest of its chain.
LEMMA FreeHeld == ASSUME DInv, DInv', HeldOK, removeFATChain PROVE HeldOK'
<1> DEFINE x == pc[1]
           c == x.cluster
           d == Links[c]
<1>1. /\ todo = <<>> /\ pc # <<>> /\ Shape(pc) /\ pc \in Seq(FrameType)
      /\ x \in FrameType /\ x.r = "removeFATChain" /\ Top = x /\ UNCHANGED <<disk, currentCluster>>
  BY Begins DEF removeFATChain
<1>2. Links' = Links /\ Recs' = Recs
  BY <1>1, SameDisk
<1>3. PICK home, rank, anc :
        DiskOK(Links, Recs, home, rank, anc, currentCluster, <<>>, pc, job)
  BY Begins DEF removeFATChain
<1>4. /\ Links \in [Entries -> FatValue]
      /\ \A b \in Cluster : Links[b] \in {FREE, END_CLUSTER} \cup Cluster
  BY <1>3 DEF DiskOK, TableOK
<1>5. /\ todo' = updateEveryFat(c, FREE)
      /\ IF d < END_CLUSTERS THEN MoveTo(d, 0) /\ UNCHANGED job ELSE Return
  BY <1>1 DEF removeFATChain, Links
<1>6. c \in {0} \cup Cluster /\ c \in Entries
  BY <1>1, Numbers DEF FrameType
<1>7. /\ todo' \in Seq(Write) /\ Has(todo', SetEntry(c, FREE)) /\ Plain(todo')
      /\ \A b : ~Has(todo', SetEntry(b, END_CLUSTER))
  <2>1. /\ todo' \in Seq(Write) /\ Has(todo', SetEntry(c, FREE))
        /\ todo'[1] = SetEntry(c, FREE) /\ \A i \in DOMAIN todo' : i # 1 => todo'[i].w = "copy"
    BY <1>5, <1>6, UpdateWrites
  <2>2. todo'[1].w = "entry" /\ todo'[1].val = FREE
    BY <2>1 DEF SetEntry
  <2> QED  BY <2>1, <2>2, SetEntryIs, Numbers DEF Has, Plain
<1>8. Quiet(pc) /\ Quiet(Tail(pc))
  BY <1>1, QuietShape
<1>9. Quiet(pc') /\ (d \in Cluster => Freed(pc', d))
  <2>1. CASE d < END_CLUSTERS
    <3> DEFINE z == [x EXCEPT !.cluster = d, !.sector = 0]
    <3>1. d \in FatValue /\ 0 \in Sector
      BY <1>4, <1>6, Fat32Assumption DEF Sector
    <3>2. d \in {0} \cup Cluster
      BY <3>1, <2>1 DEF FatValue, FREE, END_CLUSTER, MEDIA, END_CLUSTERS
    <3>3. z \in FrameType /\ z.r = "removeFATChain" /\ z.cluster = d
      BY <3>1, <3>2, <1>1 DEF FrameType
    <3>4. pc' = <<z>> \o Tail(pc)
      BY <1>1, <1>5, <2>1 DEF MoveTo
    <3> HIDE DEF z, x, c, d
    <3>5. pc' # <<>> /\ pc'[1] = z /\ \A rs : Making(pc', rs) <=> Making(pc, rs)
      BY <3>3, <3>4, <1>1, Replaced, MakingOn DEF x
    <3> QED  BY <3>3, <3>5, <1>8 DEF Quiet, Freed
  <2>2. CASE ~(d < END_CLUSTERS)
    <3>1. pc' = Tail(pc)
      BY <1>1, <1>5, <2>2, DropsTop DEF Return
    <3>2. d \notin Cluster
      BY <2>2, Numbers
    <3> QED  BY <3>1, <3>2, <1>8
  <2> QED  BY <2>1, <2>2
<1> HIDE DEF d
<1>10. /\ AllDotted(Links, Recs, todo, pc, job)
       /\ Excused \/ (AllReached /\ AllKept(Links, Recs, todo, pc, job))
  BY DEF HeldOK
<1>11. RemovalOK(Links, Recs, currentCluster', todo', pc') /\ MarkedOK(todo', pc', job')
  BY <1>7, PlainMeans DEF MarkedOK
<1>12. AllDotted(Links, Recs, todo', pc', job')
  <2>1. ASSUME NEW h, Dotted(Links, Recs, todo, pc, job, h)
        PROVE  Dotted(Links, Recs, todo', pc', job', h)
    <3>1. DOMAIN todo = {}
      BY <1>1
    <3> QED  BY <2>1, <3>1, <1>8 DEF Dotted, Quiet
  <2>2. ~Making(pc', {"add"}) /\ \A e : Stated(todo', e) => e.name \notin Names
    BY <1>7, <1>9, PlainMeans DEF Quiet, Making
  <2> QED  BY <2>1, <2>2, <1>10 DEF AllDotted
<1>13. ASSUME AllKept(Links, Recs, todo, pc, job) PROVE AllKept(Links, Recs, todo', pc', job')
  <2> SUFFICES ASSUME NEW b \in Cluster, Links[b] # FREE
               PROVE  Kept(Links, Recs, todo', pc', job', b)
    BY DEF AllKept
  <2>1. Kept(Links, Recs, todo, pc, job, b)
    BY <1>13 DEF AllKept
  <2>2. (\A w : ~Has(todo, w)) /\ \A h : ~Named(todo, h)
    BY <1>1, NoWrites, PlainMeans
  <2>3. PICK h \in Cluster : Held(Recs, todo, pc, job, h) /\ InChain(Links, h, b)
    BY <2>1, <2>2 DEF Kept
  <2>4. CASE Anchored(Recs, h)
    BY <2>3, <2>4 DEF Kept, Held
  <2>5. CASE Freed(pc, h)
    <3>1. h = c /\ c \in Cluster
      BY <2>5 DEF Freed
    <3>2. CASE b = c
      BY <3>2, <1>7 DEF Kept
    <3>3. CASE b # c
      <4>1. InChain(Links, Links[c], b) /\ Links[c] \in FatValue
        BY <3>1, <3>3, <2>3, <1>4, <1>6, InChainRest
      <4>2. InChain(Links, d, b) /\ d \in Cluster
        BY <4>1, <1>4, InChainBegins DEF d
      <4> QED  BY <4>2, <1>9 DEF Kept, Held
    <3> QED  BY <3>2, <3>3
  <2> QED  BY <2>2, <2>3, <2>4, <2>5, <1>8 DEF Held, Quiet
<1> QED  BY <1>1, <1>2, <1>10, <1>11, <1>12, <1>13, SameDirectories DEF HeldOK

----------------------------------------------------------------------------
\* The invariant.

LEMMA KeptInit == ASSUME Init, DInv PROVE KInv
<1>1. pc = <<>> /\ todo = <<>> /\ Links = [c \in Entries |-> CASE c = 0 -> MEDIA
          [] c \in {1, ROOT} -> END_CLUSTER [] OTHER -> FREE]
  BY OneCopy DEF Init, Links
<1>2. \A c \in Cluster : Links[c] # FREE => c = ROOT
  BY <1>1, Numbers DEF Cluster
<1>3. \A rs : ~Making(pc, rs)
  BY <1>1 DEF Making
<1>4. (\A w : ~Has(todo, w)) /\ Plain(todo)
  BY <1>1, NoWrites
<1>5. ASSUME NEW x \in Place, Recs[x].name \in Names
      PROVE  x.cluster = ROOT /\ ~Recs[x].dir
  <2>1. PICK recs \in [Pos -> {ZeroRec} \cup {[ZeroRec EXCEPT !.name = n] : n \in Foreign}] :
          data = [c \in Cluster |-> [s \in Sector |->
                    IF c = ROOT /\ s = 0 THEN [ZeroSector EXCEPT !.recs = recs] ELSE ZeroSector]]
    BY DEF Init
  <2>2. x.cluster \in Cluster /\ x.sector \in Sector /\ x.pos \in Pos
    BY DEF Place
  <2>3. Recs[x] = data[x.cluster][x.sector].recs[x.pos]
    BY DEF Recs, Rec
  <2>4. CASE x.cluster = ROOT /\ x.sector = 0
    <3>1. Recs[x] = recs[x.pos]
      BY <2>1, <2>2, <2>3, <2>4 DEF ZeroSector
    <3>2. \A n : [ZeroRec EXCEPT !.name = n].dir = FALSE
      BY DEF ZeroRec
    <3> QED  BY <3>1, <3>2, <2>2, <2>4, <2>1 DEF ZeroRec
  <2>5. CASE ~(x.cluster = ROOT /\ x.sector = 0)
    <3>1. Recs[x] = ZeroRec
      BY <2>1, <2>2, <2>3, <2>5 DEF ZeroSector
    <3> QED  BY <3>1, <1>5, NamesKnown DEF ZeroRec
  <2> QED  BY <2>4, <2>5
<1>6. /\ RemovalOK(Links, Recs, currentCluster, todo, pc) /\ MarkedOK(todo, pc, job)
      /\ AllDotted(Links, Recs, todo, pc, job)
  BY <1>3, <1>4, <1>5, PlainMeans DEF MarkedOK, AllDotted
<1>7. AllKept(Links, Recs, todo, pc, job)
  <2>1. InChain(Links, ROOT, ROOT)
    <3>1. Links \in [Entries -> FatValue] /\ ROOT \in FatValue
      BY Numbers, OneCopy DEF DInv, Types, Links
    <3> QED  BY <3>1, InChainFirst
  <2> QED  BY <2>1, <1>2, Numbers DEF AllKept, Kept, Held, Anchored
<1>8. AllReached
  <2>1. PICK home, rank, anc :
          DiskOK(Links, Recs, home, rank, anc, currentCluster, todo, pc, job)
    BY Unprimed
  <2>2. TableOK(Links, home, rank) /\ RecordsOK(Links, Recs, home) /\ Types
    BY <2>1 DEF DiskOK, DInv
  <2>3. ROOT \in Directories /\ ROOT \in Chain(ROOT)
    <3>1. Anchored(Recs, ROOT)
      BY DEF Anchored
    <3> QED  BY <3>1, <2>2, AnchoredChain, DirectoriesAre
  <2> QED  BY <2>3, <1>5 DEF AllReached
<1> QED  BY <1>6, <1>7, <1>8 DEF KInv, HeldOK

LEMMA KeptNext ==
  ASSUME DInv, DInv', (KindsApart => InDirectory)', KInv, [Next]_vars
  PROVE  KInv'
<1> SUFFICES ASSUME cuts' = 0, ~halted' PROVE HeldOK'
  BY DEF KInv
<1>0. cuts \in Nat /\ cuts' \in Nat
  BY Fat32Assumption DEF DInv, Types
<1>1. ASSUME NEW rr, Running(rr), cuts' = cuts PROVE HeldOK
  BY <1>1 DEF KInv, Running
<1>2. CASE UNCHANGED vars
  <2>1. HeldOK
    BY <1>2 DEF KInv, vars
  <2>2. /\ UNCHANGED <<todo, pc, job, currentCluster>> /\ UNCHANGED disk
    BY <1>2 DEF vars
  <2>3. Links' = Links /\ Recs' = Recs
    BY <2>2, SameDisk
  <2>4. (Excused => Excused') /\ (AllReached => AllReached')
    BY <2>2, SameDirectories
  <2> QED  BY <2>1, <2>2, <2>3, <2>4 DEF HeldOK
<1>3. CASE Command
  <2>1. HeldOK
    BY <1>3 DEF Command, process_cmd, KInv
  <2> QED  BY <1>3, <2>1, CommandHeld
<1>4. CASE writeDiskSector
  <2>1. HeldOK
    BY <1>4 DEF writeDiskSector, KInv
  <2> QED  BY <1>4, <2>1, WriteHeld
<1>5. CASE list_files
  BY <1>1, <1>5, ListHeld DEF list_files
<1>6. CASE removeFATChain
  BY <1>1, <1>6, FreeHeld DEF removeFATChain
<1>7. ASSUME NEW r \in {"add", ".", ".."}, addFileToDirectory(r) PROVE HeldOK'
  BY <1>1, <1>7, AddHeld DEF addFileToDirectory
<1>8. ASSUME NEW r \in {"rm", "rmold"}, removeEntryFromDirectory(r) PROVE HeldOK'
  BY <1>1, <1>8, RemoveHeld DEF removeEntryFromDirectory
<1>9. CASE mkdir
  BY <1>1, <1>9, MkdirHeld DEF mkdir
<1>10. CASE change_directory
  BY <1>1, <1>10, CdHeld DEF change_directory
<1>11. CASE writeFile
  BY <1>1, <1>11, WriteFileHeld DEF writeFile
<1>12. CASE write_content
  BY <1>1, <1>12, ContentHeld DEF write_content
<1>13. CASE read_file
  BY <1>1, <1>13, ReadHeld DEF read_file
<1>14. CASE readFile
  BY <1>1, <1>14, ReadFileHeld DEF readFile
<1>15. CASE PowerCut
  BY <1>0, <1>15 DEF PowerCut
<1>16. CASE Stopped
  BY <1>2, <1>16 DEF Stopped
<1> QED  BY <1>2, <1>3, <1>4, <1>5, <1>6, <1>7, <1>8, <1>9, <1>10, <1>11, <1>12, <1>13,
             <1>14, <1>15, <1>16 DEF Next, Driver

\* While no power cut came and the disk is not full, every cluster in use is
\* held by a record, or by what the running command still has to do, and
\* every directory has its `..' or will get it.
THEOREM KeptInvariance == Spec => []KInv
<1>1. Init /\ DInv => KInv
  BY KeptInit
<1>2. DInv /\ DInv' /\ (KindsApart => InDirectory)' /\ KInv /\ [Next]_vars => KInv'
  BY KeptNext
<1> QED  BY <1>1, <1>2, DiskInvariance, ShellInDirectory, PTL DEF Spec

\* Between two commands nobody but a record holds a cluster.
LEMMA HeldAtRest ==
  ASSUME DInv, KInv, Idle, cuts = 0
  PROVE  /\ HeldOK /\ \A e : ~Stated(todo, e)
         /\ \A h : Held(Recs, todo, pc, job, h) => Anchored(Recs, h)
         /\ \A w : ~Has(todo, w)
         /\ \A rs : ~Making(pc, rs)
<1>1. pc = <<>> /\ todo = <<>> /\ HeldOK
  BY DEF Idle, KInv
<1>2. (\A rs : ~Making(pc, rs)) /\ (\A w : ~Has(todo, w)) /\ \A e : ~Stated(todo, e)
  BY <1>1 DEF Making, Has, Stated
<1>3. \A h : Held(Recs, todo, pc, job, h) => Anchored(Recs, h)
  BY <1>1, <1>2 DEF Held, Named, Freed
<1> QED  BY <1>1, <1>2, <1>3

LEMMA LeakFree == ASSUME DInv, KInv, NoSharing, KindsApart PROVE NoLeak
<1> SUFFICES ASSUME Idle, cuts = 0, ~DirectoryRemoved
             PROVE  Cluster \ FreeClusters = Reached
  BY DEF NoLeak
<1>1. PICK home, rank, anc :
        DiskOK(Links, Recs, home, rank, anc, currentCluster, todo, pc, job)
  BY Unprimed
<1>2. TableOK(Links, home, rank) /\ RecordsOK(Links, Recs, home) /\ Types
  BY <1>1 DEF DiskOK, DInv
<1>3. AllReached /\ AllKept(Links, Recs, todo, pc, job)
  BY HeldAtRest DEF HeldOK, Excused
<1>4. ASSUME NEW c \in Cluster, Links[c] # FREE PROVE c \in Reached
  <2>1. Kept(Links, Recs, todo, pc, job, c)
    BY <1>3, <1>4 DEF AllKept
  <2>2. PICK h \in Cluster : Anchored(Recs, h) /\ InChain(Links, h, c)
    BY <2>1, HeldAtRest DEF Kept
  <2>3. c \in Chain(h)
    BY <2>2, <1>2, AnchoredChain
  <2>4. CASE h = ROOT
    BY <2>3, <2>4 DEF Reached
  <2>5. CASE h # ROOT
    <3>1. PICK x \in Place : Recs[x].name \in Names /\ Recs[x].cluster = h
      BY <2>2, <2>5 DEF Anchored, Owned, Owner
    <3>2. PICK g \in Directories : x.cluster \in Chain(g)
      BY <3>1, <1>3 DEF AllReached
    <3>3. Rec(x) = Recs[x]
      BY DEF Recs
    <3>4. x \in Places(g)
      BY <3>1, <3>2, <3>3 DEF Places, Place
    <3> QED  BY <3>1, <3>2, <3>3, <3>4, <2>3 DEF Reached, Live
  <2> QED  BY <2>4, <2>5
<1>5. \A c \in Reached : c \in Cluster /\ Links[c] # FREE
  BY DEF NoSharing, Links
<1> QED  BY <1>4, <1>5 DEF FreeClusters, Links

\* Nothing leaks: whatever was created, written over and removed, with any
\* names and any number of clusters, every cluster the table calls used is in
\* the chain of a file or directory one can reach.  allocateFreeCluster,
\* addFileToDirectory and removeFATChain never lose one between them.  That
\* the shell takes no text file for a directory is a condition: what mkdir
\* puts into one is out of reach.
THEOREM NothingLeaks == Spec => [](KindsApart => NoLeak)
<1>1. DInv /\ KInv /\ NoSharing => (KindsApart => NoLeak)
  BY LeakFree
<1> QED  BY <1>1, DiskInvariance, KeptInvariance, ChainsApart, PTL

LEMMA ParentsNamed == ASSUME DInv, KInv PROVE Parents
<1> SUFFICES ASSUME Idle, cuts = 0, NEW h \in Directories, NEW x \in Places(h), Rec(x).dir
             PROVE  \E y \in [cluster: Chain(Rec(x).cluster), sector: Sector, pos: Pos] :
                      Rec(y).name = DOTDOT /\ Rec(y).cluster = h
  BY DEF Parents
<1>1. PICK home, rank, anc :
        DiskOK(Links, Recs, home, rank, anc, currentCluster, todo, pc, job)
  BY Unprimed
<1>2. TableOK(Links, home, rank) /\ RecordsOK(Links, Recs, home) /\ Types
  BY <1>1 DEF DiskOK, DInv
<1>3. Anchored(Recs, h)
  BY <1>2, DirectoriesAnchored
<1>4. /\ x \in Place /\ Recs[x].name \in Names /\ Recs[x] = Rec(x) /\ Recs[x].dir
      /\ Recs[x].cluster \in Cluster /\ x.cluster \in Chain(h)
  <2>1. x \in Place /\ Recs[x].name \in Names /\ Recs[x] = Rec(x) /\ Recs[x] \in RecType
    BY <1>2, PlacesIn
  <2>2. Recs[x].cluster # 0
    BY <2>1, <1>2 DEF RecordsOK
  <2> QED  BY <2>1, <2>2 DEF RecType, Places
<1> DEFINE g == Recs[x].cluster
<1>5. Anchored(Recs, g)
  BY <1>4, Numbers DEF Anchored, Owned, Owner
<1>6. AllDotted(Links, Recs, todo, pc, job) /\ DOMAIN todo = {} /\ \A rs : ~Making(pc, rs)
  BY HeldAtRest DEF HeldOK, Idle
<1>7. PICK y \in Place : InChain(Links, g, y.cluster) /\ Recs[y].name = DOTDOT
  BY <1>4, <1>6 DEF AllDotted, Dotted
<1>8. /\ y.cluster \in Cluster /\ y.cluster \in Chain(g) /\ home[y.cluster] = g
      /\ home[x.cluster] = h
  BY <1>2, <1>3, <1>4, <1>5, <1>7, AnchoredChain, PlaceCluster
<1>9. Recs[y].cluster = h
  BY <1>2, <1>3, <1>4, <1>7, <1>8, Numbers DEF RecordsOK, Owner
<1>10. Rec(y) = Recs[y] /\ y \in [cluster: Chain(g), sector: Sector, pos: Pos]
  BY <1>8 DEF Recs, Place
<1> QED  BY <1>4, <1>7, <1>9, <1>10

\* Every directory leads back: whatever mkdir, rm and cd did, `..' of each
\* directory one can reach names the directory it is listed in.
THEOREM ParentsKept == Spec => []Parents
<1>1. DInv /\ KInv => Parents
  BY ParentsNamed
<1> QED  BY <1>1, DiskInvariance, KeptInvariance, PTL
=============================================================================
