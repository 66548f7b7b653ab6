--------------------------- MODULE Fat32DiskProofs ---------------------------
(***************************************************************************)
(* Whom the clusters of the disk belong to: proofs of NoSharing,           *)
(* InDirectory and TypeOK of module Fat32.                                 *)
(*                                                                         *)
(* The argument follows three things the driver does not keep.  home: the  *)
(* first cluster of the chain a cluster belongs to, 0 for one that is free *)
(* or lost.  rank: a number that grows along every chain.  anc: the        *)
(* directories from the root down to the current one.  Every predicate     *)
(* below takes what it is about as a parameter: f is the table, r gives    *)
(* the record at each place, q is the queue of sector writes.              *)
(***************************************************************************)
EXTENDS Fat32, FiniteSetTheorems, WellFoundedInduction, NaturalsInduction, TLAPS

Place == [cluster: Cluster, sector: Sector, pos: Pos]

Links == fat[1]
Recs  == [x \in Place |-> Rec(x)]

Owner(r, x, c)  == r[x].name \in Names /\ r[x].cluster = c
Owned(r, c)     == \E x \in Place : Owner(r, x, c)
Anchored(r, c)  == c = ROOT \/ (c # 0 /\ Owned(r, c))

\* The table: a chain stays within one home, its clusters are in use, no two
\* chains meet, and only a head has no cluster before it.
TableOK(f, home, rank) ==
  /\ f \in [Entries -> FatValue]
  /\ \A c \in Cluster : f[c] \in {FREE, END_CLUSTER} \cup Cluster
  /\ f[0] \in {MEDIA, FREE}
  /\ home \in [Cluster -> {0} \cup Cluster] /\ rank \in [Cluster -> Nat]
  /\ \A b, c \in Cluster : f[b] = c =>
       /\ home[c] = home[b] /\ home[c] # c
       /\ rank[b] < rank[c] /\ f[c] # FREE
  /\ \A b, c \in Cluster : f[b] = f[c] /\ f[b] \in Cluster => b = c
  /\ \A c \in Cluster : home[c] \notin {0, c} =>
       home[home[c]] = home[c] /\ \E b \in Cluster : f[b] = c

\* The records: those of files and directories name heads in use, each
\* another one, none the root; `.' and `..' name what they should in every
\* directory that can be reached.
RecordsOK(f, r, home) ==
  /\ r \in [Place -> RecType]
  /\ \A x \in Place : r[x].name \in Names =>
       /\ r[x].dir <=> r[x].name \notin Text
       /\ r[x].dir => r[x].cluster # 0
       /\ r[x].cluster # 0 => /\ home[r[x].cluster] = r[x].cluster
                              /\ f[r[x].cluster] # FREE /\ r[x].cluster # ROOT
  /\ \A x, y \in Place :
       /\ r[x].name \in Names /\ r[y].name \in Names
       /\ r[x].cluster = r[y].cluster /\ r[x].cluster # 0
       => x = y
  /\ home[ROOT] = ROOT /\ f[ROOT] # FREE
  /\ \A x \in Place : r[x].name = DOT /\ Anchored(r, home[x.cluster])
       => r[x].cluster = home[x.cluster]
  /\ \A x \in Place : r[x].name = DOTDOT => home[x.cluster] # ROOT
  /\ \A x, y \in Place :
       /\ r[x].name = DOTDOT /\ home[x.cluster] # 0
       /\ Owner(r, y, home[x.cluster]) /\ Anchored(r, home[y.cluster])
       => r[x].cluster = home[y.cluster]

\* anc leads from the root to cur, through directories unless cd may have
\* taken a text file for one.
PathOK(r, home, anc, cur) ==
  /\ anc \in Seq(Cluster) /\ Len(anc) > 0
  /\ anc[1] = ROOT /\ anc[Len(anc)] = cur
  /\ \A i, j \in 1..Len(anc) : anc[i] = anc[j] => i = j
  /\ \A i \in 1..(Len(anc) - 1) :
       \E x \in Place : /\ Owner(r, x, anc[i + 1]) /\ (KindsApart => r[x].dir)
                        /\ home[x.cluster] = anc[i]

OnPath(anc, c) == \E i \in 1..Len(anc) : anc[i] = c

----------------------------------------------------------------------------
\* The queue.

TextType == STRING \cup {""}
SecType  == [text: TextType, recs: [Pos -> RecType]]

EntryWrite  == [w: {"entry"}, cluster: Entries, val: {FREE, END_CLUSTER} \cup Cluster]
CopyWrite   == [w: {"copy"}, cluster: Entries, copy: 2..nbFats]
SectorWrite == [w: {"sector"}, cluster: Cluster, sector: Sector, val: SecType]
Write       == EntryWrite \cup CopyWrite \cup SectorWrite

\* No record but blank ones is about to be written.
Plain(q) ==
  \A i \in DOMAIN q : q[i].w = "sector" => \A p \in Pos : q[i].val.recs[p] = ZeroRec

Has(q, w) == \E i \in DOMAIN q : q[i] = w

Spot(c, s, p) == [cluster |-> c, sector |-> s, pos |-> p]

Blank(r, home, c) == \A y \in Place : home[y.cluster] = c => r[y] = ZeroRec

\* The records of cluster c are blank, or will be.
Wiped(r, q, c) ==
  \A y \in Place : y.cluster = c =>
    r[y] = ZeroRec \/ Has(q, SetSector(c, y.sector, ZeroSector))

MarkOK(f, c) == c \in Cluster /\ f[c] \in {FREE, END_CLUSTER}

Used(f, q, c) == f[c] # FREE \/ Has(q, SetEntry(c, END_CLUSTER))

\* Cluster n, marked, wiped and alone, is put behind l.
LinkOK(f, r, home, q, fst, l, n) ==
  /\ l \in Cluster /\ n \in Cluster /\ f[l] = END_CLUSTER
  /\ home[l] \notin {0, n} /\ home[n] = n /\ n # ROOT /\ n # fst
  /\ \A c \in Cluster : home[c] = n => c = n
  /\ ~Owned(r, n)
  /\ f[n] = END_CLUSTER \/ Has(q, SetEntry(n, END_CLUSTER))
  /\ Wiped(r, q, n)

\* The head of a chain nobody names any more.
FreeOK(f, r, home, anc, c) ==
  \/ c = 0
  \/ /\ c \in Cluster /\ c # ROOT /\ f[c] # FREE /\ home[c] = c
     /\ ~Owned(r, c) /\ ~OnPath(anc, c)

EntryOK(f, r, home, anc, q, fst, i) ==
  CASE q[i].val = END_CLUSTER -> MarkOK(f, q[i].cluster)
    [] q[i].val = FREE -> /\ i = 1 /\ FreeOK(f, r, home, anc, q[i].cluster)
                          /\ \A m \in DOMAIN q : m # 1 => q[m].w = "copy"
    [] OTHER -> /\ LinkOK(f, r, home, q, fst, q[i].cluster, q[i].val)
                /\ \A m \in DOMAIN q : m > i => q[m].w = "copy"

\* A record of a file or directory, of `.' and of `..' put into cluster c.
NameAdded(f, r, home, cur, c, e) ==
  /\ e.name \in Names /\ (e.dir <=> e.name \notin Text)
  /\ e.cluster \in Cluster /\ e.cluster # ROOT
  /\ home[e.cluster] = e.cluster /\ f[e.cluster] # FREE
  /\ ~Owned(r, e.cluster) /\ Blank(r, home, e.cluster)
  /\ home[c] = cur

DotAdded(home, c, e) == e.name = DOT /\ e.cluster = home[c]

DotDotAdded(r, home, c, e) ==
  /\ e.name = DOTDOT /\ home[c] # ROOT
  /\ \A y \in Place : Owner(r, y, home[c]) => e.cluster = home[y.cluster]

NameRemoved(r, anc, x, e) ==
  /\ r[x].name \in Names /\ ~OnPath(anc, r[x].cluster)
  /\ e = [r[x] EXCEPT !.name = REMOVED]

RecordOK(f, r, home, anc, cur, x, e) ==
  \/ /\ r[x].name = UNUSED
     /\ \/ NameAdded(f, r, home, cur, x.cluster, e)
        \/ DotAdded(home, x.cluster, e)
        \/ DotDotAdded(r, home, x.cluster, e)
  \/ NameRemoved(r, anc, x, e)

\* A sector written blank belongs to nobody yet; otherwise one record changes.
SectorOK(f, r, home, anc, cur, q, i) ==
  LET c == q[i].cluster
      s == q[i].sector
      v == q[i].val
  IN  \/ (\A p \in Pos : v.recs[p] = ZeroRec) /\ ~Anchored(r, home[c])
      \/ /\ Len(q) = 1
         /\ \E p \in Pos :
              /\ RecordOK(f, r, home, anc, cur, Spot(c, s, p), v.recs[p])
              /\ \A o \in Pos \ {p} : v.recs[o] = r[Spot(c, s, o)]

QueueOK(f, r, home, anc, cur, q, fst) ==
  /\ q \in Seq(Write)
  /\ \A i \in DOMAIN q :
       /\ q[i].w = "entry" => EntryOK(f, r, home, anc, q, fst, i)
       /\ q[i].w = "sector" => SectorOK(f, r, home, anc, cur, q, i)

----------------------------------------------------------------------------
\* The routines.

Routines == {"list_files", "mkdir", "cd", "rm", "rmold", "writeFile", "read",
             "readFile", "removeFATChain", "add", ".", "..", "content"}
FrameType == [r: Routines, cluster: {0} \cup Cluster, sector: Sector]
JobType   == [cmd: {"", "ls", "mkdir", "cd", "rm", "write", "read"},
              name: Names \cup Dots \cup {""}, content: Seq(TextType),
              hit: Place \cup {NOWHERE}, fst: {0} \cup Cluster,
              buffer: Seq(TextType)]

Shape(p) ==
  \/ p = <<>>
  \/ Len(p) = 1 /\ p[1].r \in {"list_files", "mkdir", "cd", "rm", "writeFile", "read",
                               "readFile", "removeFATChain", "add", ".."}
  \/ Len(p) = 2 /\ \/ p[1].r = "list_files" /\ p[2].r \in {"mkdir", "cd", "rm", "read"}
                   \/ p[1].r \in {"rmold", "removeFATChain"} /\ p[2].r = "writeFile"
                   \/ p[1].r = "content" /\ p[2].r = "add"
                   \/ p[1].r = "." /\ p[2].r = ".."
  \/ Len(p) = 3 /\ \/ p[1].r = "list_files" /\ p[2].r = "rmold" /\ p[3].r = "writeFile"
                   \/ p[1].r = "add" /\ p[2].r = "." /\ p[3].r = ".."

\* Cluster c belongs to the chain of g, or is about to.
At(f, home, q, c, g) ==
  /\ c \in Cluster /\ Used(f, q, c)
  /\ home[c] = g \/ \E l \in Cluster : Has(q, SetEntry(l, c)) /\ home[l] = g

\* The record found is in the current directory and has the name sought.
HitOK(r, home, cur, j) ==
  j.hit # NOWHERE =>
    /\ home[j.hit.cluster] = cur /\ r[j.hit].name \in Names \cup Dots
    /\ Prefix[r[j.hit].name] = Prefix[j.name]

HitFst(r, j) == IF r[j.hit].cluster = 0 THEN ROOT ELSE r[j.hit].cluster

\* The chain of a file or directory in the making.
FreshOK(f, r, home, q, j) ==
  /\ j.fst \in Cluster /\ j.fst # ROOT /\ home[j.fst] = j.fst
  /\ Used(f, q, j.fst) /\ ~Owned(r, j.fst)
  /\ \A y \in Place : home[y.cluster] = j.fst =>
       r[y] = ZeroRec \/ Has(q, SetSector(y.cluster, y.sector, ZeroSector))

\* Nothing is about to be written but for a removal.
OnlyRemoval(r, anc, q) ==
  /\ \A i \in DOMAIN q : q[i].w = "entry" => q[i].val = FREE
  /\ \A i \in DOMAIN q : q[i].w = "sector" =>
       /\ Len(q) = 1
       /\ \E p \in Pos :
            /\ NameRemoved(r, anc, Spot(q[i].cluster, q[i].sector, p), q[i].val.recs[p])
            /\ \A o \in Pos \ {p} :
                 q[i].val.recs[o] = r[Spot(q[i].cluster, q[i].sector, o)]

\* Nobody names cluster c any more once the first write is done.
DoomedOK(f, r, home, anc, q, c) ==
  \/ c = 0
  \/ /\ c \in Cluster /\ c # ROOT /\ f[c] # FREE /\ ~OnPath(anc, c)
     /\ IF q # <<>> /\ q[1].w = "entry" /\ q[1].val = FREE
        THEN q[1].cluster \in Cluster /\ f[q[1].cluster] = c
        ELSE home[c] = c
     /\ \A y \in Place : Owner(r, y, c) =>
          /\ q # <<>> /\ q[1].w = "sector" /\ q[1].cluster = y.cluster
          /\ q[1].sector = y.sector /\ q[1].val.recs[y.pos].name = REMOVED

Freeing == {"removeFATChain", "writeFile"}

FrameOK(f, r, home, anc, cur, q, j, x) ==
  /\ x.r \in {"list_files", "mkdir", "cd", "rm", "rmold", "read"} => HitOK(r, home, cur, j)
  /\ x.r \in {"list_files", "add"} => At(f, home, q, x.cluster, cur)
  /\ x.r = "readFile" =>
       /\ j.hit # NOWHERE /\ HitOK(r, home, cur, j) /\ r[j.hit].name \in Names
       /\ At(f, home, q, x.cluster, HitFst(r, j))
  /\ x.r \in {"content", "add"} => FreshOK(f, r, home, q, j)
  /\ x.r \in {"content", ".", ".."} => At(f, home, q, x.cluster, j.fst)
  /\ x.r \in {".", ".."} =>
       /\ j.fst \in Cluster /\ j.fst # ROOT /\ At(f, home, q, j.fst, j.fst)
       /\ \A y \in Place : Owner(r, y, j.fst) => home[y.cluster] = cur
  /\ x.r = "removeFATChain" =>
       DoomedOK(f, r, home, anc, q, x.cluster) /\ OnlyRemoval(r, anc, q)
  /\ x.r \notin Freeing =>
       \A i \in DOMAIN q : ~(q[i].w = "entry" /\ q[i].val = FREE)
  /\ x.r \notin Freeing \cup {".", ".."} => Plain(q)
  /\ x.r \notin {"content", "add", ".", ".."} => j.fst = 0
  /\ x.r = "mkdir" => j.name \in Names \ Text /\ j.cmd = "mkdir"
  /\ x.r = "cd" => j.name \in CdNames
  /\ x.r \in {"rm", "rmold"} => j.name \in Names
  /\ x.r = "read" => j.name \in Text
  /\ x.r = "writeFile" => j.name \in Text /\ j.cmd = "write"
  /\ x.r = "add" => j.name \in Names /\ (j.cmd = "mkdir" <=> j.name \notin Text)

FramesOK(f, r, home, anc, cur, q, p, j) ==
  /\ p \in Seq(FrameType) /\ j \in JobType /\ Shape(p)
  /\ \A i \in DOMAIN p : FrameOK(f, r, home, anc, cur, q, j, p[i])

----------------------------------------------------------------------------
Types ==
  /\ fat \in [Copy -> [Entries -> FatValue]]
  /\ data \in [Cluster -> [Sector -> SecType]]
  /\ halted \in BOOLEAN /\ cuts \in 0..MaxCuts

DiskOK(f, r, home, rank, anc, cur, q, p, j) ==
  /\ TableOK(f, home, rank) /\ RecordsOK(f, r, home)
  /\ PathOK(r, home, anc, cur)
  /\ QueueOK(f, r, home, anc, cur, q, j.fst)
  /\ FramesOK(f, r, home, anc, cur, q, p, j)

DInv ==
  /\ Types
  /\ \E home \in [Cluster -> {0} \cup Cluster], rank \in [Cluster -> Nat],
        anc \in Seq(Cluster) :
       DiskOK(Links, Recs, home, rank, anc, currentCluster, todo, pc, job)

----------------------------------------------------------------------------
\* Sequences.

IsSeq(q) == q \in Seq({q[i] : i \in DOMAIN q})

LEMMA FunctionSeq ==
  ASSUME NEW S, NEW n \in Nat, NEW q \in [1..n -> S]
  PROVE  q \in Seq(S) /\ Len(q) = n
OBVIOUS

\* Every sequence is one of its own elements.
LEMMA SeqOfElements ==
  ASSUME NEW S, NEW q \in Seq(S)
  PROVE  IsSeq(q) /\ Len(q) \in Nat
<1> DEFINE R == {q[i] : i \in DOMAIN q}
<1>1. Len(q) \in Nat /\ DOMAIN q = 1..Len(q) /\ q \in [1..Len(q) -> S]
  OBVIOUS
<1>2. q = [i \in 1..Len(q) |-> q[i]]
  BY <1>1
<1>3. q \in [1..Len(q) -> R]
  BY <1>1, <1>2
<1> HIDE DEF R
<1>4. q \in Seq(R)
  BY <1>1, <1>3, FunctionSeq
<1> QED  BY <1>1, <1>4 DEF IsSeq, R

\* The elements of two sequences joined.
LEMMA JoinedElements ==
  ASSUME NEW s, IsSeq(s), NEW t, IsSeq(t)
  PROVE  /\ IsSeq(s \o t) /\ Len(s) \in Nat /\ Len(t) \in Nat
         /\ Len(s \o t) = Len(s) + Len(t)
         /\ \A i \in 1..Len(s) : (s \o t)[i] = s[i]
         /\ \A i \in 1..Len(t) : (s \o t)[Len(s) + i] = t[i]
<1> DEFINE S == {s[i] : i \in DOMAIN s} \cup {t[i] : i \in DOMAIN t}
<1>1. s \in Seq(S) /\ t \in Seq(S)
  <2>1. s \in Seq({s[i] : i \in DOMAIN s}) /\ t \in Seq({t[i] : i \in DOMAIN t})
    BY DEF IsSeq
  <2>2. \A A, B : \A q \in Seq(A) : A \subseteq B => q \in Seq(B)
    <3> TAKE A, B
    <3> TAKE q \in Seq(A)
    <3> HAVE A \subseteq B
    <3>1. Len(q) \in Nat /\ q \in [1..Len(q) -> B]
      OBVIOUS
    <3> QED  BY <3>1, FunctionSeq
  <2> QED  BY <2>1, <2>2
<1> HIDE DEF S
<1>2. s \o t \in Seq(S)
  BY <1>1
<1>3. /\ Len(s) \in Nat /\ Len(t) \in Nat /\ Len(s \o t) = Len(s) + Len(t)
      /\ \A i \in 1..Len(s) : (s \o t)[i] = s[i]
      /\ \A i \in 1..Len(t) : (s \o t)[Len(s) + i] = t[i]
  BY <1>1
<1>4. IsSeq(s \o t)
  BY <1>2, SeqOfElements
<1> QED  BY <1>3, <1>4

----------------------------------------------------------------------------
\* Numbers.

LEMMA Numbers ==
  /\ Cluster \subseteq Entries /\ ROOT \in Cluster /\ 0 \in Entries
  /\ 0 \notin Cluster /\ END_CLUSTER \notin Cluster /\ MEDIA \notin Cluster
  /\ END_CLUSTER # FREE /\ MEDIA # FREE /\ END_CLUSTER # MEDIA /\ FREE = 0
  /\ \A c \in Cluster : c \in Int /\ c < END_CLUSTERS
  /\ END_CLUSTER >= END_CLUSTERS /\ MEDIA >= END_CLUSTERS
  /\ FREE < END_CLUSTERS
  /\ FatValue = {FREE, END_CLUSTER, MEDIA} \cup Cluster
BY Fat32Assumption DEF Cluster, Entries, ROOT, END_CLUSTER, END_CLUSTERS, MEDIA, FREE, FatValue

----------------------------------------------------------------------------
\* What the writes to the table, and the hand-out of a cluster, do to the
\* homes.

\* Cluster n gets behind l.
Joined(home, l, n) == [home EXCEPT ![n] = home[l]]
Raised(rank, l, n) == [rank EXCEPT ![n] = rank[l] + 1]

\* Head c leaves its chain, which goes on at d, if at all.
Beheaded(home, c, d) ==
  [x \in Cluster |-> IF x = c THEN 0
                     ELSE IF home[x] = c THEN IF d \in Cluster THEN d ELSE 0
                     ELSE home[x]]

\* Cluster c is handed out.
Adopted(home, c) ==
  [x \in Cluster |-> IF x = c THEN c ELSE IF home[x] = c THEN 0 ELSE home[x]]

LEMMA MarkTable ==
  ASSUME NEW f, NEW home, NEW rank, TableOK(f, home, rank), NEW c, MarkOK(f, c)
  PROVE  TableOK([f EXCEPT ![c] = END_CLUSTER], home, rank)
BY Numbers DEF TableOK, MarkOK

LEMMA LinkTable ==
  ASSUME NEW f, NEW home, NEW rank, TableOK(f, home, rank),
         NEW l \in Cluster, NEW n \in Cluster, f[l] = END_CLUSTER, f[n] = END_CLUSTER,
         home[l] \notin {0, n}, home[n] = n, \A c \in Cluster : home[c] = n => c = n
  PROVE  TableOK([f EXCEPT ![l] = n], Joined(home, l, n), Raised(rank, l, n))
<1> DEFINE g == [f EXCEPT ![l] = n]
           h == Joined(home, l, n)
           k == Raised(rank, l, n)
<1>1. /\ f \in [Entries -> FatValue] /\ home \in [Cluster -> {0} \cup Cluster]
      /\ rank \in [Cluster -> Nat] /\ l # n
  BY DEF TableOK
<1>2. /\ g \in [Entries -> FatValue] /\ g[l] = n /\ \A c \in Entries \ {l} : g[c] = f[c]
      /\ h \in [Cluster -> {0} \cup Cluster] /\ h[n] = home[l]
      /\ \A c \in Cluster \ {n} : h[c] = home[c]
      /\ k \in [Cluster -> Nat] /\ k[n] = rank[l] + 1
      /\ \A c \in Cluster \ {n} : k[c] = rank[c]
  BY <1>1, Numbers DEF Joined, Raised
<1> HIDE DEF g, h, k
<1>3. ASSUME NEW b \in Cluster, NEW c \in Cluster, g[b] = c
      PROVE  /\ h[c] = h[b] /\ h[c] # c /\ k[b] < k[c] /\ g[c] # FREE
             /\ \A a \in Cluster : g[a] = c => a = b
  <2>1. CASE b = l
    <3>1. \A a \in Cluster : f[a] # n
      BY DEF TableOK
    <3> QED  BY <2>1, <3>1, <1>1, <1>2, <1>3, Numbers DEF TableOK
  <2>2. CASE b # l
    <3>1. f[b] = c /\ b # n /\ c # n
      BY <2>2, <1>2, <1>3, Numbers DEF TableOK
    <3> QED  BY <2>2, <3>1, <1>1, <1>2, <1>3, Numbers DEF TableOK
  <2> QED  BY <2>1, <2>2
<1>4. ASSUME NEW c \in Cluster, h[c] \notin {0, c}
      PROVE  h[h[c]] = h[c] /\ \E b \in Cluster : g[b] = c
  <2>1. CASE c = n
    <3>1. home[l] \in Cluster /\ home[home[l]] = home[l]
      BY <1>1 DEF TableOK
    <3> QED  BY <2>1, <3>1, <1>1, <1>2
  <2>2. CASE c # n
    <3>1. /\ home[c] \in Cluster /\ home[c] # n /\ home[home[c]] = home[c]
          /\ \E b \in Cluster : f[b] = c
      BY <2>2, <1>1, <1>2, <1>4 DEF TableOK
    <3>2. PICK b \in Cluster : f[b] = c
      BY <3>1
    <3>3. b # l
      BY <3>2, Numbers
    <3> QED  BY <2>2, <3>1, <3>2, <3>3, <1>1, <1>2, Numbers
  <2> QED  BY <2>1, <2>2
<1>5. /\ \A c \in Cluster : g[c] \in {FREE, END_CLUSTER} \cup Cluster
      /\ g[0] \in {MEDIA, FREE}
  BY <1>2, Numbers DEF TableOK
<1>6. TableOK(g, h, k)
  BY <1>2, <1>3, <1>4, <1>5 DEF TableOK
<1> QED  BY <1>6 DEF g, h, k

LEMMA FreeTable ==
  ASSUME NEW f, NEW home, NEW rank, TableOK(f, home, rank),
         NEW c \in Cluster, home[c] = c
  PROVE  TableOK([f EXCEPT ![c] = FREE], Beheaded(home, c, f[c]), rank)
<1> DEFINE g == [f EXCEPT ![c] = FREE]
           h == Beheaded(home, c, f[c])
<1>1. /\ f \in [Entries -> FatValue] /\ home \in [Cluster -> {0} \cup Cluster]
      /\ rank \in [Cluster -> Nat] /\ \A b \in Cluster : f[b] # c
  BY DEF TableOK
<1>2. /\ g \in [Entries -> FatValue] /\ g[c] = FREE /\ \A b \in Entries \ {c} : g[b] = f[b]
      /\ h \in [Cluster -> {0} \cup Cluster] /\ h[c] = 0
      /\ \A b \in Cluster \ {c} : h[b] = IF home[b] = c
                                         THEN IF f[c] \in Cluster THEN f[c] ELSE 0
                                         ELSE home[b]
  BY <1>1, Numbers DEF Beheaded
<1> HIDE DEF g, h
<1>3. ASSUME NEW b \in Cluster, NEW d \in Cluster, g[b] = d
      PROVE  /\ h[d] = h[b] /\ h[d] # d /\ rank[b] < rank[d] /\ g[d] # FREE
             /\ \A a \in Cluster : g[a] = d => a = b
  <2>1. b # c /\ d # c /\ f[b] = d
    BY <1>1, <1>2, <1>3, Numbers
  <2>2. f[c] # d
    BY <2>1 DEF TableOK
  <2> QED  BY <2>1, <2>2, <1>1, <1>2, <1>3, Numbers DEF TableOK
<1>4. ASSUME NEW b \in Cluster, h[b] \notin {0, b}
      PROVE  h[h[b]] = h[b] /\ \E a \in Cluster : g[a] = b
  <2>1. b # c /\ home[b] \notin {0, b}
    BY <1>1, <1>2, <1>4, Numbers
  <2>2. home[home[b]] = home[b] /\ home[b] \in Cluster /\ \E a \in Cluster : f[a] = b
    BY <2>1, <1>1 DEF TableOK
  <2>3. PICK a \in Cluster : f[a] = b
    BY <2>2
  <2>4. f[c] # b
    BY <1>2, <1>4, <2>1 DEF TableOK
  <2>5. g[a] = b
    BY <2>3, <2>4, <1>2, Numbers
  <2>6. h[h[b]] = h[b]
    <3>1. CASE home[b] = c
      <4>1. f[c] \in Cluster /\ home[f[c]] = c /\ f[c] # c
        BY <3>1, <1>1, <1>2, <1>4, <2>1 DEF TableOK
      <4> QED  BY <3>1, <4>1, <1>2, <2>1
    <3>2. CASE home[b] # c
      BY <3>2, <2>1, <2>2, <1>2
    <3> QED  BY <3>1, <3>2
  <2> QED  BY <2>5, <2>6
<1>5. /\ \A b \in Cluster : g[b] \in {FREE, END_CLUSTER} \cup Cluster
      /\ g[0] \in {MEDIA, FREE}
  BY <1>2, Numbers DEF TableOK
<1>6. TableOK(g, h, rank)
  BY <1>1, <1>2, <1>3, <1>4, <1>5 DEF TableOK
<1> QED  BY <1>6 DEF g, h

LEMMA MediaTable ==
  ASSUME NEW f, NEW home, NEW rank, TableOK(f, home, rank)
  PROVE  TableOK([f EXCEPT ![0] = FREE], home, rank)
BY Numbers DEF TableOK

\* A cluster that is free has no home, or is its own.
LEMMA FreeHome ==
  ASSUME NEW f, NEW home, NEW rank, TableOK(f, home, rank), NEW c \in Cluster, f[c] = FREE
  PROVE  home[c] \in {0, c} /\ \A b \in Cluster : f[b] # c
BY Numbers DEF TableOK

LEMMA AdoptTable ==
  ASSUME NEW f, NEW home, NEW rank, TableOK(f, home, rank), NEW c \in Cluster, f[c] = FREE
  PROVE  /\ TableOK(f, Adopted(home, c), rank)
         /\ \A x \in Cluster : Adopted(home, c)[x] = c <=> x = c
         /\ \A x \in Cluster : home[x] # c => x = c \/ Adopted(home, c)[x] = home[x]
<1> DEFINE h == Adopted(home, c)
<1>1. /\ f \in [Entries -> FatValue] /\ home \in [Cluster -> {0} \cup Cluster]
      /\ rank \in [Cluster -> Nat] /\ \A b \in Cluster : f[b] # c
  BY FreeHome DEF TableOK
<1>2. /\ h \in [Cluster -> {0} \cup Cluster] /\ h[c] = c
      /\ \A b \in Cluster \ {c} : h[b] = IF home[b] = c THEN 0 ELSE home[b]
  BY <1>1 DEF Adopted
<1> HIDE DEF h
<1>3. ASSUME NEW b \in Cluster, NEW d \in Cluster, f[b] = d
      PROVE  h[d] = h[b] /\ h[d] # d
  <2>1. b # c /\ d # c
    BY <1>1, <1>3, Numbers
  <2> QED  BY <2>1, <1>1, <1>2, <1>3, Numbers DEF TableOK
<1>4. ASSUME NEW b \in Cluster, h[b] \notin {0, b}
      PROVE  h[h[b]] = h[b] /\ \E a \in Cluster : f[a] = b
  BY <1>1, <1>2, <1>4, Numbers DEF TableOK
<1>5. TableOK(f, h, rank)
  BY <1>1, <1>2, <1>3, <1>4 DEF TableOK
<1> QED  BY <1>2, <1>5, Numbers DEF h

----------------------------------------------------------------------------
\* The same for the records.

\* Every change of the table and of the homes below leaves the homes of
\* anchored chains alone, and their clusters in use.
LEMMA AnchoredHome ==
  ASSUME NEW f, NEW r, NEW home, RecordsOK(f, r, home), NEW c, Anchored(r, c)
  PROVE  c \in Cluster /\ home[c] = c /\ f[c] # FREE
<1>1. CASE c = ROOT
  BY <1>1, Numbers DEF RecordsOK
<1>2. CASE c # ROOT
  <2>1. PICK x \in Place : r[x].name \in Names /\ r[x].cluster = c /\ c # 0
    BY <1>2 DEF Anchored, Owned, Owner
  <2>2. r[x] \in RecType
    BY DEF RecordsOK
  <2> QED  BY <2>1, <2>2 DEF RecordsOK, RecType
<1> QED  BY <1>1, <1>2

LEMMA AnchoredIs ==
  ASSUME NEW r, NEW c, c \notin {0, ROOT}, ~Owned(r, c)
  PROVE  ~Anchored(r, c)
BY DEF Anchored

\* A change of the table.
LEMMA TableRecords ==
  ASSUME NEW f, NEW r, NEW home, RecordsOK(f, r, home), NEW c \in Entries, NEW v,
         f \in [Entries -> FatValue],
         v # FREE \/ c = 0 \/ (~Owned(r, c) /\ c # ROOT)
  PROVE  RecordsOK([f EXCEPT ![c] = v], r, home)
<1> DEFINE g == [f EXCEPT ![c] = v]
<1>1. \A d \in Entries : d # c => g[d] = f[d]
  OBVIOUS
<1>2. g[c] = v
  OBVIOUS
<1> HIDE DEF g
<1>3. ASSUME NEW x \in Place, r[x].name \in Names, r[x].cluster # 0
      PROVE  g[r[x].cluster] # FREE
  <2>1. r[x].cluster \in Cluster /\ Owned(r, r[x].cluster) /\ f[r[x].cluster] # FREE
    BY <1>3 DEF RecordsOK, RecType, Owned, Owner
  <2> QED  BY <2>1, <1>1, <1>2, <1>3, Numbers
<1>4. g[ROOT] # FREE
  BY <1>1, <1>2, Numbers DEF RecordsOK
<1> QED  BY <1>3, <1>4 DEF RecordsOK, g

LEMMA PlaceCluster == \A x \in Place : x.cluster \in Cluster
BY DEF Place

LEMMA AdoptRecords ==
  ASSUME NEW f, NEW r, NEW home, NEW rank, TableOK(f, home, rank), RecordsOK(f, r, home),
         NEW c \in Cluster, f[c] = FREE
  PROVE  RecordsOK(f, r, Adopted(home, c)) /\ ~Owned(r, c) /\ c # ROOT
<1> DEFINE h == Adopted(home, c)
<1>1. ~Anchored(r, c)
  BY AnchoredHome
<1>2. ~Owned(r, c) /\ c # ROOT
  BY <1>1, Numbers DEF Anchored
<1>3. home[c] \in {0, c}
  BY FreeHome
<1>4. /\ \A x \in Cluster : h[x] = c <=> x = c
      /\ \A x \in Cluster : home[x] # c => x = c \/ h[x] = home[x]
  BY AdoptTable
<1>5. /\ \A x \in Cluster : h[x] \notin {0, c} => h[x] = home[x]
      /\ \A x \in Cluster : home[x] \notin {0, c} => h[x] = home[x]
      /\ \A x \in Cluster : home[x] = x => h[x] = x \/ home[x] = c
  BY <1>3, Numbers DEF Adopted
<1> HIDE DEF h
<1>6. ASSUME NEW x \in Place, Anchored(r, h[x.cluster])
      PROVE  h[x.cluster] = home[x.cluster]
  <2>1. h[x.cluster] \notin {0, c}
    BY <1>1, <1>6, Numbers DEF Anchored
  <2> QED  BY <2>1, <1>5, PlaceCluster
<1>7. ASSUME NEW x \in Place, r[x].name \in Names, r[x].cluster # 0
      PROVE  h[r[x].cluster] = r[x].cluster
  <2>1. /\ r[x].cluster \in Cluster /\ home[r[x].cluster] = r[x].cluster
        /\ f[r[x].cluster] # FREE
    BY <1>7 DEF RecordsOK, RecType
  <2> QED  BY <2>1, <1>5, Numbers
<1>8. h[ROOT] = ROOT
  BY <1>2, <1>5, Numbers DEF RecordsOK
<1>9. ASSUME NEW x \in Place, r[x].name = DOTDOT PROVE h[x.cluster] # ROOT
  <2>1. home[x.cluster] # ROOT
    BY <1>9 DEF RecordsOK
  <2> QED  BY <2>1, <1>2, <1>5, PlaceCluster, Numbers
<1>10. ASSUME NEW x \in Place, NEW y \in Place, r[x].name = DOTDOT, h[x.cluster] # 0,
              Owner(r, y, h[x.cluster]), Anchored(r, h[y.cluster])
       PROVE  r[x].cluster = h[y.cluster]
  <2>1. h[x.cluster] # c
    BY <1>10, <1>2 DEF Owned
  <2>2. h[x.cluster] = home[x.cluster]
    BY <2>1, <1>5, <1>10, PlaceCluster
  <2>3. h[y.cluster] = home[y.cluster]
    BY <1>6, <1>10
  <2> QED  BY <2>2, <2>3, <1>10 DEF RecordsOK
<1>11. ASSUME NEW x \in Place, r[x].name = DOT, Anchored(r, h[x.cluster])
       PROVE  r[x].cluster = h[x.cluster]
  BY <1>6, <1>11 DEF RecordsOK
<1>12. RecordsOK(f, r, h)
  BY <1>7, <1>8, <1>9, <1>10, <1>11 DEF RecordsOK
<1> QED  BY <1>2, <1>12 DEF h

LEMMA JoinRecords ==
  ASSUME NEW f, NEW r, NEW home, RecordsOK(f, r, home),
         home \in [Cluster -> {0} \cup Cluster],
         NEW l \in Cluster, NEW n \in Cluster,
         \A y \in Place : y.cluster = n => r[y] = ZeroRec,
         ~Owned(r, n), n # ROOT
  PROVE  RecordsOK(f, r, Joined(home, l, n))
<1> DEFINE h == Joined(home, l, n)
<1>1. \A x \in Cluster : x # n => h[x] = home[x]
  BY DEF Joined
<1> HIDE DEF h
<1>2. \A x \in Place : r[x] # ZeroRec => h[x.cluster] = home[x.cluster]
  BY <1>1, PlaceCluster
<1>3. ZeroRec.name = UNUSED /\ UNUSED \notin Names \cup {DOT, DOTDOT}
  BY Fat32Assumption DEF ZeroRec, UNUSED, DOT, DOTDOT, Dots
<1>4. \A x \in Place : r[x].name \in Names \cup {DOT, DOTDOT} => h[x.cluster] = home[x.cluster]
  BY <1>2, <1>3
<1>5. ASSUME NEW x \in Place, r[x].name \in Names, r[x].cluster # 0
      PROVE  h[r[x].cluster] = r[x].cluster
  <2>1. /\ r[x].cluster \in Cluster /\ home[r[x].cluster] = r[x].cluster
        /\ r[x].cluster # n
    BY <1>5 DEF RecordsOK, RecType, Owned, Owner
  <2> QED  BY <2>1, <1>1
<1>6. h[ROOT] = ROOT
  BY <1>1, Numbers DEF RecordsOK
<1>7. \A x \in Place : r[x].name = DOTDOT => h[x.cluster] # ROOT
  BY <1>4 DEF RecordsOK
<1>8. \A x \in Place : r[x].name = DOT /\ Anchored(r, h[x.cluster])
        => r[x].cluster = h[x.cluster]
  BY <1>4 DEF RecordsOK
<1>9. \A x, y \in Place :
        /\ r[x].name = DOTDOT /\ h[x.cluster] # 0
        /\ Owner(r, y, h[x.cluster]) /\ Anchored(r, h[y.cluster])
        => r[x].cluster = h[y.cluster]
  BY <1>4 DEF RecordsOK, Owner
<1>10. RecordsOK(f, r, h)
  BY <1>5, <1>6, <1>7, <1>8, <1>9 DEF RecordsOK
<1> QED  BY <1>10 DEF h

LEMMA BeheadRecords ==
  ASSUME NEW f, NEW r, NEW home, NEW rank, TableOK(f, home, rank), RecordsOK(f, r, home),
         NEW c \in Cluster, home[c] = c, ~Owned(r, c), c # ROOT
  PROVE  RecordsOK([f EXCEPT ![c] = FREE], r, Beheaded(home, c, f[c]))
<1> DEFINE h == Beheaded(home, c, f[c])
<1>1. /\ h[c] = 0
      /\ \A b \in Cluster \ {c} : h[b] = IF home[b] = c
                                         THEN IF f[c] \in Cluster THEN f[c] ELSE 0
                                         ELSE home[b]
  BY DEF Beheaded
<1>2. \A d \in Cluster : f[c] = d => ~Anchored(r, d) /\ home[d] = c /\ d # c /\ d # ROOT
  <2> TAKE d \in Cluster
  <2> HAVE f[c] = d
  <2>1. home[d] = c /\ d # c
    BY DEF TableOK
  <2> QED  BY <2>1, AnchoredHome DEF RecordsOK, Anchored
<1>3. ~Anchored(r, c) /\ ~Anchored(r, 0)
  BY Numbers DEF Anchored
<1> HIDE DEF h
<1>4. ASSUME NEW x \in Cluster, home[x] # c PROVE h[x] = home[x]
  BY <1>1, <1>4
<1>5. ASSUME NEW x \in Cluster, Owned(r, h[x]) \/ h[x] = ROOT PROVE h[x] = home[x] \/ h[x] = 0
  <2>1. h[x] # 0 => Anchored(r, h[x])
    BY <1>5 DEF Anchored
  <2> QED  BY <2>1, <1>1, <1>2
<1>6. RecordsOK(f, r, h)
  <2>1. ASSUME NEW x \in Place, Anchored(r, h[x.cluster])
        PROVE  h[x.cluster] = home[x.cluster]
    BY <1>5, <2>1, <1>3, PlaceCluster DEF Anchored
  <2>2. ASSUME NEW x \in Place, r[x].name \in Names, r[x].cluster # 0
        PROVE  h[r[x].cluster] = r[x].cluster
    <3>1. /\ r[x].cluster \in Cluster /\ home[r[x].cluster] = r[x].cluster
          /\ r[x].cluster # c
      BY <2>2 DEF RecordsOK, RecType, Owned, Owner
    <3> QED  BY <3>1, <1>4
  <2>3. h[ROOT] = ROOT
    BY <1>4, Numbers DEF RecordsOK
  <2>4. ASSUME NEW x \in Place, r[x].name = DOTDOT PROVE h[x.cluster] # ROOT
    <3>1. home[x.cluster] # ROOT /\ x.cluster \in Cluster
      BY <2>4, PlaceCluster DEF RecordsOK
    <3> QED  BY <3>1, <1>5, Numbers
  <2>5. ASSUME NEW x \in Place, NEW y \in Place, r[x].name = DOTDOT, h[x.cluster] # 0,
               Owner(r, y, h[x.cluster]), Anchored(r, h[y.cluster])
        PROVE  r[x].cluster = h[y.cluster]
    <3>1. h[x.cluster] = home[x.cluster]
      BY <2>5, <1>5, PlaceCluster DEF Owned
    <3>2. h[y.cluster] = home[y.cluster]
      BY <2>1, <2>5
    <3> QED  BY <3>1, <3>2, <2>5 DEF RecordsOK
  <2>6. \A x \in Place : r[x].name = DOT /\ Anchored(r, h[x.cluster])
          => r[x].cluster = h[x.cluster]
    BY <2>1 DEF RecordsOK
  <2> QED  BY <2>2, <2>3, <2>4, <2>5, <2>6 DEF RecordsOK
<1>7. RecordsOK([f EXCEPT ![c] = FREE], r, h)
  BY <1>6, TableRecords, Numbers DEF TableOK
<1> QED  BY <1>7 DEF h

----------------------------------------------------------------------------
\* Writes of directory sectors.

LEMMA NamesKnown ==
  /\ ZeroRec \in RecType /\ ZeroRec.name = UNUSED /\ ZeroRec.cluster = 0
  /\ UNUSED \notin Names \cup {DOT, DOTDOT, REMOVED}
  /\ REMOVED \notin Names \cup {DOT, DOTDOT}
  /\ Names \cap {DOT, DOTDOT} = {} /\ DOT # DOTDOT /\ Dots = {DOT, DOTDOT}
  /\ Text \subseteq Names
BY Fat32Assumption DEF ZeroRec, RecType, UNUSED, REMOVED, DOT, DOTDOT, Dots

\* A sector is written blank.
Blanked(r, c, s) ==
  [y \in Place |-> IF y.cluster = c /\ y.sector = s THEN ZeroRec ELSE r[y]]

LEMMA BlankRecords ==
  ASSUME NEW f, NEW r, NEW home, RecordsOK(f, r, home), NEW c \in Cluster, NEW s,
         ~Anchored(r, home[c])
  PROVE  RecordsOK(f, Blanked(r, c, s), home)
<1> DEFINE t == Blanked(r, c, s)
<1>1. /\ t \in [Place -> RecType]
      /\ \A y \in Place : t[y] = r[y] \/ t[y] = ZeroRec
  BY NamesKnown DEF RecordsOK, Blanked
<1> HIDE DEF t
<1>2. \A y \in Place : t[y].name \in Names \cup {DOT, DOTDOT} => t[y] = r[y]
  BY <1>1, NamesKnown
<1>3. \A y, g : y \in Place /\ Owner(t, y, g) => Owner(r, y, g)
  BY <1>2 DEF Owner
<1>4. \A g : Anchored(t, g) => Anchored(r, g)
  BY <1>3 DEF Anchored, Owned
<1>5. RecordsOK(f, t, home)
  BY <1>1, <1>2, <1>3, <1>4 DEF RecordsOK
<1> QED  BY <1>5 DEF t

LEMMA NameRecords ==
  ASSUME NEW f, NEW r, NEW home, RecordsOK(f, r, home),
         NEW x \in Place, NEW e \in RecType, NEW cur, r[x].name = UNUSED,
         Anchored(r, cur), NameAdded(f, r, home, cur, x.cluster, e)
  PROVE  RecordsOK(f, [r EXCEPT ![x] = e], home)
<1> DEFINE t == [r EXCEPT ![x] = e]
           g == e.cluster
<1>1. /\ t \in [Place -> RecType] /\ t[x] = e
      /\ \A y \in Place \ {x} : t[y] = r[y]
  BY DEF RecordsOK
<1> HIDE DEF t
<1>2. /\ e.name \in Names /\ (e.dir <=> e.name \notin Text) /\ g \in Cluster /\ g # ROOT
      /\ home[g] = g /\ f[g] # FREE /\ ~Owned(r, g) /\ Blank(r, home, g)
      /\ home[x.cluster] = cur
  BY DEF NameAdded
<1> HIDE DEF g
<1>3. cur # g
  BY <1>2, Numbers DEF Anchored
<1>4. \A y \in Place : home[y.cluster] = g => r[y] = ZeroRec /\ y # x
  BY <1>2, <1>3 DEF Blank
<1>5. \A y \in Place : \A a : Owner(t, y, a) => Owner(r, y, a) \/ (y = x /\ a = g)
  BY <1>1 DEF Owner, g
<1>6. \A a : Anchored(t, a) => Anchored(r, a) \/ a = g
  BY <1>5 DEF Anchored, Owned
<1>7. \A y \in Place : home[y.cluster] = g => t[y] = ZeroRec
  BY <1>1, <1>4
<1>8. ASSUME NEW y \in Place, t[y].name \in {DOT, DOTDOT}
      PROVE  y # x /\ t[y] = r[y] /\ home[y.cluster] # g
  BY <1>1, <1>2, <1>7, <1>8, NamesKnown
<1>9. ASSUME NEW y \in Place, NEW z \in Place, t[y].name = DOTDOT, home[y.cluster] # 0,
             Owner(t, z, home[y.cluster]), Anchored(t, home[z.cluster])
      PROVE  t[y].cluster = home[z.cluster]
  <2>1. t[y] = r[y] /\ home[y.cluster] # g
    BY <1>8, <1>9
  <2>2. Owner(r, z, home[y.cluster])
    BY <1>5, <1>9, <2>1
  <2>3. home[z.cluster] # g
    BY <1>4, <2>2, NamesKnown DEF Owner
  <2> QED  BY <2>1, <2>2, <2>3, <1>6, <1>9 DEF RecordsOK
<1>10. ASSUME NEW y \in Place, t[y].name = DOT, Anchored(t, home[y.cluster])
       PROVE  t[y].cluster = home[y.cluster]
  BY <1>6, <1>8, <1>10 DEF RecordsOK
<1>11. ASSUME NEW y \in Place, NEW z \in Place, t[y].name \in Names, t[z].name \in Names,
              t[y].cluster = t[z].cluster, t[y].cluster # 0
       PROVE  y = z
  <2>1. CASE y = x /\ z # x
    BY <2>1, <1>1, <1>2, <1>11 DEF Owned, Owner, g
  <2>2. CASE z = x /\ y # x
    BY <2>2, <1>1, <1>2, <1>11 DEF Owned, Owner, g
  <2>3. CASE y # x /\ z # x
    BY <2>3, <1>1, <1>11 DEF RecordsOK
  <2> QED  BY <2>1, <2>2, <2>3
<1>12. ASSUME NEW y \in Place, t[y].name \in Names
       PROVE  /\ t[y].dir <=> t[y].name \notin Text
              /\ t[y].dir => t[y].cluster # 0
              /\ t[y].cluster # 0 => /\ home[t[y].cluster] = t[y].cluster
                                     /\ f[t[y].cluster] # FREE /\ t[y].cluster # ROOT
  BY <1>1, <1>2, <1>12, Numbers DEF RecordsOK, g
<1>13. \A y \in Place : t[y].name = DOTDOT => home[y.cluster] # ROOT
  BY <1>8 DEF RecordsOK
<1>14. home[ROOT] = ROOT /\ f[ROOT] # FREE
  BY DEF RecordsOK
<1>15. RecordsOK(f, t, home)
  BY <1>1, <1>9, <1>10, <1>11, <1>12, <1>13, <1>14 DEF RecordsOK
<1> QED  BY <1>15 DEF t

LEMMA DotRecords ==
  ASSUME NEW f, NEW r, NEW home, RecordsOK(f, r, home),
         NEW x \in Place, NEW e \in RecType, r[x].name = UNUSED,
         DotAdded(home, x.cluster, e) \/ DotDotAdded(r, home, x.cluster, e)
  PROVE  RecordsOK(f, [r EXCEPT ![x] = e], home)
<1> DEFINE t == [r EXCEPT ![x] = e]
<1>1. /\ t \in [Place -> RecType] /\ t[x] = e
      /\ \A y \in Place \ {x} : t[y] = r[y]
  BY DEF RecordsOK
<1>2. e.name \in {DOT, DOTDOT}
  BY DEF DotAdded, DotDotAdded
<1> HIDE DEF t
<1>3. \A y \in Place : t[y].name \in Names \/ r[y].name \in Names => t[y] = r[y]
  BY <1>1, <1>2, NamesKnown
<1>4. \A y \in Place : \A a : Owner(t, y, a) <=> Owner(r, y, a)
  BY <1>3 DEF Owner
<1>5. \A a : Anchored(t, a) <=> Anchored(r, a)
  BY <1>4 DEF Anchored, Owned
<1>6. \A y \in Place : t[y].name = DOT /\ Anchored(t, home[y.cluster])
        => t[y].cluster = home[y.cluster]
  <2>1. e.name = DOT => e.cluster = home[x.cluster]
    BY NamesKnown DEF DotAdded, DotDotAdded
  <2> QED  BY <2>1, <1>1, <1>5 DEF RecordsOK
<1>7. e.name = DOTDOT => DotDotAdded(r, home, x.cluster, e)
  BY NamesKnown DEF DotAdded
<1>8. \A y \in Place : t[y].name = DOTDOT => home[y.cluster] # ROOT
  BY <1>1, <1>7 DEF RecordsOK, DotDotAdded
<1>9. ASSUME NEW y \in Place, NEW z \in Place, t[y].name = DOTDOT, home[y.cluster] # 0,
             Owner(t, z, home[y.cluster]), Anchored(t, home[z.cluster])
      PROVE  t[y].cluster = home[z.cluster]
  <2>1. Owner(r, z, home[y.cluster]) /\ Anchored(r, home[z.cluster])
    BY <1>4, <1>5, <1>9
  <2>2. CASE y = x
    BY <2>1, <2>2, <1>1, <1>7, <1>9 DEF DotDotAdded
  <2>3. CASE y # x
    BY <2>1, <2>3, <1>1, <1>9 DEF RecordsOK
  <2> QED  BY <2>2, <2>3
<1>10. RecordsOK(f, t, home)
  BY <1>1, <1>3, <1>6, <1>8, <1>9 DEF RecordsOK
<1> QED  BY <1>10 DEF t

LEMMA RemovedRecords ==
  ASSUME NEW f, NEW r, NEW home, RecordsOK(f, r, home),
         NEW x \in Place, NEW e \in RecType, e.name = REMOVED
  PROVE  RecordsOK(f, [r EXCEPT ![x] = e], home)
<1> DEFINE t == [r EXCEPT ![x] = e]
<1>1. /\ t \in [Place -> RecType] /\ t[x] = e
      /\ \A y \in Place \ {x} : t[y] = r[y]
  BY DEF RecordsOK
<1> HIDE DEF t
<1>2. \A y \in Place : t[y].name \in Names \cup {DOT, DOTDOT} => t[y] = r[y]
  BY <1>1, NamesKnown
<1>3. \A y, g : y \in Place /\ Owner(t, y, g) => Owner(r, y, g)
  BY <1>2 DEF Owner
<1>4. \A g : Anchored(t, g) => Anchored(r, g)
  BY <1>3 DEF Anchored, Owned
<1>5. RecordsOK(f, t, home)
  BY <1>1, <1>2, <1>3, <1>4 DEF RecordsOK
<1> QED  BY <1>5 DEF t

----------------------------------------------------------------------------
\* The path to the current directory.

LEMMA PathAnchored ==
  ASSUME NEW r, NEW home, NEW anc, NEW cur, PathOK(r, home, anc, cur)
  PROVE  /\ Anchored(r, cur) /\ OnPath(anc, cur) /\ OnPath(anc, ROOT)
         /\ \A i \in 1..Len(anc) : anc[i] \in Cluster /\ Anchored(r, anc[i])
<1>1. Len(anc) \in Nat /\ Len(anc) > 0 /\ \A i \in 1..Len(anc) : anc[i] \in Cluster
  BY DEF PathOK
<1>2. ASSUME NEW i \in 1..Len(anc) PROVE Anchored(r, anc[i])
  <2>1. CASE i = 1
    BY <2>1 DEF PathOK, Anchored
  <2>2. CASE i # 1
    <3>1. i - 1 \in 1..(Len(anc) - 1) /\ (i - 1) + 1 = i
      BY <1>1, <2>2
    <3>2. \E x \in Place : Owner(r, x, anc[(i - 1) + 1])
      BY <3>1 DEF PathOK
    <3> QED  BY <1>1, <3>1, <3>2, Numbers DEF Anchored, Owned
  <2> QED  BY <2>1, <2>2
<1> QED  BY <1>1, <1>2 DEF PathOK, OnPath

\* In the root the path is the root.
LEMMA PathAtRoot == ASSUME NEW r, NEW home PROVE PathOK(r, home, <<ROOT>>, ROOT)
<1>1. /\ <<ROOT>> \in Seq(Cluster) /\ Len(<<ROOT>>) = 1 /\ <<ROOT>>[1] = ROOT
  BY Numbers
<1>2. \A i \in 1..Len(<<ROOT>>) : i = 1
  BY <1>1
<1>3. 1..(Len(<<ROOT>>) - 1) = {}
  BY <1>1
<1> QED  BY <1>1, <1>2, <1>3 DEF PathOK

\* The path stays as long as its records do, and the homes of these.
LEMMA PathKept ==
  ASSUME NEW r, NEW home, NEW anc, NEW cur, PathOK(r, home, anc, cur), NEW t, NEW h,
         \A x \in Place : /\ Anchored(r, home[x.cluster]) /\ Anchored(r, r[x].cluster)
                          /\ OnPath(anc, r[x].cluster) /\ r[x].name \in Names
                          => t[x] = r[x] /\ h[x.cluster] = home[x.cluster]
  PROVE  PathOK(t, h, anc, cur)
<1>1. \A i \in 1..Len(anc) : Anchored(r, anc[i]) /\ OnPath(anc, anc[i])
  BY PathAnchored DEF OnPath
<1>2. Len(anc) \in Nat
  BY DEF PathOK
<1>3. ASSUME NEW i \in 1..(Len(anc) - 1)
      PROVE  \E x \in Place : /\ Owner(t, x, anc[i + 1]) /\ (KindsApart => t[x].dir)
                              /\ h[x.cluster] = anc[i]
  <2>1. PICK x \in Place : /\ Owner(r, x, anc[i + 1]) /\ (KindsApart => r[x].dir)
                           /\ home[x.cluster] = anc[i]
    BY DEF PathOK
  <2>2. i \in 1..Len(anc) /\ i + 1 \in 1..Len(anc)
    BY <1>2
  <2>3. t[x] = r[x] /\ h[x.cluster] = home[x.cluster]
    BY <2>1, <2>2, <1>1 DEF Owner
  <2> QED  BY <2>1, <2>3 DEF Owner
<1> QED  BY <1>3 DEF PathOK

----------------------------------------------------------------------------
\* The rest of the queue.

LEMMA EmptySeq == \A S : \A z \in Seq(S) : Len(z) = 0 => z = <<>>
OBVIOUS

LEMMA Rest ==
  ASSUME NEW q \in Seq(Write), q # <<>>
  PROVE  /\ Tail(q) \in Seq(Write) /\ Len(q) \in Nat /\ Len(q) >= 1
         /\ Len(Tail(q)) = Len(q) - 1 /\ 1 \in DOMAIN q
         /\ \A i \in DOMAIN Tail(q) : i + 1 \in DOMAIN q /\ Tail(q)[i] = q[i + 1]
         /\ \A i \in DOMAIN q : i # 1 => i - 1 \in DOMAIN Tail(q) /\ Tail(q)[i - 1] = q[i]
         /\ \A w : Has(Tail(q), w) => Has(q, w)
         /\ \A w : Has(q, w) => q[1] = w \/ Has(Tail(q), w)
         /\ Head(q) = q[1] /\ \A i \in DOMAIN q : q[i] \in Write
<1>1. /\ Tail(q) \in Seq(Write) /\ Len(q) \in Nat /\ Len(q) >= 1
      /\ Len(Tail(q)) = Len(q) - 1 /\ DOMAIN q = 1..Len(q)
      /\ DOMAIN Tail(q) = 1..(Len(q) - 1)
      /\ \A i \in 1..(Len(q) - 1) : Tail(q)[i] = q[i + 1]
      /\ Head(q) = q[1] /\ \A i \in DOMAIN q : q[i] \in Write
  OBVIOUS
<1>2. \A i \in DOMAIN q : i # 1 => i - 1 \in DOMAIN Tail(q) /\ Tail(q)[i - 1] = q[i]
  BY <1>1
<1>3. \A w : Has(Tail(q), w) => Has(q, w)
  BY <1>1 DEF Has
<1>4. \A w : Has(q, w) => q[1] = w \/ Has(Tail(q), w)
  BY <1>2 DEF Has
<1> QED  BY <1>1, <1>2, <1>3, <1>4

LEMMA WriteKinds ==
  ASSUME NEW t \in Write
  PROVE  /\ t.w \in {"entry", "copy", "sector"}
         /\ t.w = "entry" => t \in EntryWrite /\ t = SetEntry(t.cluster, t.val)
         /\ t.w = "copy" => t \in CopyWrite
         /\ t.w = "sector" => t \in SectorWrite /\ t = SetSector(t.cluster, t.sector, t.val)
BY DEF Write, EntryWrite, CopyWrite, SectorWrite, SetEntry, SetSector

LEMMA QueueRest ==
  ASSUME NEW f, NEW r, NEW home, NEW anc, NEW cur, NEW q, NEW fst,
         QueueOK(f, r, home, anc, cur, q, fst), q # <<>>, NEW g, NEW t, NEW h, NEW cur2,
         ASSUME NEW i \in DOMAIN q, i # 1, q[i].w = "entry", q[i].val = END_CLUSTER,
                MarkOK(f, q[i].cluster)
         PROVE  MarkOK(g, q[i].cluster),
         ASSUME NEW i \in DOMAIN q, i # 1, q[i].w = "entry", q[i].val \in Cluster,
                LinkOK(f, r, home, q, fst, q[i].cluster, q[i].val)
         PROVE  LinkOK(g, t, h, Tail(q), fst, q[i].cluster, q[i].val),
         ASSUME NEW i \in DOMAIN q, i # 1, q[i].w = "sector", ~Anchored(r, home[q[i].cluster])
         PROVE  ~Anchored(t, h[q[i].cluster])
  PROVE  QueueOK(g, t, h, anc, cur2, Tail(q), fst)
<1> DEFINE u == Tail(q)
<1>1. /\ q \in Seq(Write) /\ Len(q) \in Nat /\ u \in Seq(Write) /\ 1 \in DOMAIN q
      /\ \A i \in DOMAIN u : i + 1 \in DOMAIN q /\ u[i] = q[i + 1] /\ i + 1 # 1
      /\ \A i \in DOMAIN q : q[i] \in Write
  BY Rest DEF QueueOK
<1> HIDE DEF u
<1>2. \A i \in DOMAIN u : i \in Nat
  BY <1>1
<1>3. ASSUME NEW i \in DOMAIN u, u[i].w = "entry" PROVE EntryOK(g, t, h, anc, u, fst, i)
  <2> DEFINE k == i + 1
  <2>1. k \in DOMAIN q /\ u[i] = q[k] /\ k # 1
    BY <1>1
  <2>2. EntryOK(f, r, home, anc, q, fst, k) /\ q[k] \in EntryWrite
    BY <2>1, <1>1, <1>3, WriteKinds DEF QueueOK
  <2>3. q[k].val \in {FREE, END_CLUSTER} \cup Cluster
    BY <2>2 DEF EntryWrite
  <2> HIDE DEF k
  <2>4. CASE q[k].val = END_CLUSTER
    <3>1. MarkOK(f, q[k].cluster)
      BY <2>2, <2>4, Numbers DEF EntryOK
    <3>2. MarkOK(g, u[i].cluster)
      BY <3>1, <2>1, <2>4, <1>3
    <3> QED  BY <3>2, <2>4, <2>1, Numbers DEF EntryOK
  <2>5. CASE q[k].val = FREE
    <3> QED  BY <2>1, <2>2, <2>5, Numbers DEF EntryOK
  <2>6. CASE q[k].val \in Cluster
    <3>1. /\ LinkOK(f, r, home, q, fst, q[k].cluster, q[k].val)
          /\ \A m \in DOMAIN q : m > k => q[m].w = "copy"
      BY <2>2, <2>6, Numbers DEF EntryOK
    <3>2. LinkOK(g, t, h, u, fst, u[i].cluster, u[i].val)
      BY <3>1, <2>1, <2>6, <1>3 DEF u
    <3>3. \A m \in DOMAIN u : m > i => u[m].w = "copy"
      BY <3>1, <1>1, <1>2 DEF k
    <3> QED  BY <3>2, <3>3, <2>6, <2>1, Numbers DEF EntryOK
  <2> QED  BY <2>3, <2>4, <2>5, <2>6
<1>4. ASSUME NEW i \in DOMAIN u, u[i].w = "sector" PROVE SectorOK(g, t, h, anc, cur2, u, i)
  <2> DEFINE k == i + 1
  <2>1. k \in DOMAIN q /\ u[i] = q[k] /\ k # 1
    BY <1>1
  <2> HIDE DEF k
  <2>2. SectorOK(f, r, home, anc, cur, q, k) /\ Len(q) # 1
    BY <2>1, <1>1, <1>4 DEF QueueOK
  <2>3. (\A p \in Pos : q[k].val.recs[p] = ZeroRec) /\ ~Anchored(r, home[q[k].cluster])
    BY <2>2 DEF SectorOK
  <2>4. ~Anchored(t, h[q[k].cluster])
    BY <2>1, <2>3, <1>4
  <2> QED  BY <2>1, <2>3, <2>4 DEF SectorOK
<1>5. QueueOK(g, t, h, anc, cur2, u, fst)
  BY <1>1, <1>3, <1>4 DEF QueueOK
<1> QED  BY <1>5 DEF u

\* No cluster is about to be freed.
NoneFreed(q) == \A i \in DOMAIN q : ~(q[i].w = "entry" /\ q[i].val = FREE)

LEMMA FramesRest ==
  ASSUME NEW f, NEW r, NEW home, NEW anc, NEW cur, NEW q, NEW p, NEW j,
         FramesOK(f, r, home, anc, cur, q, p, j), q \in Seq(Write), q # <<>>,
         NEW g, NEW t, NEW h,
         ASSUME Plain(q), NoneFreed(q), NEW x \in Place, home[x.cluster] = cur
         PROVE  t[x] = r[x] /\ h[x.cluster] = cur,
         ASSUME NoneFreed(q), NEW c, NEW a, At(f, home, q, c, a),
                a = cur \/ a = j.fst \/ Anchored(r, a)
         PROVE  At(g, h, Tail(q), c, a),
         ASSUME Plain(q), NoneFreed(q), FreshOK(f, r, home, q, j)
         PROVE  FreshOK(g, t, h, Tail(q), j),
         ASSUME NoneFreed(q), j.fst \in Cluster, j.fst # ROOT,
                \A y \in Place : Owner(r, y, j.fst) => home[y.cluster] = cur,
                NEW y \in Place, Owner(t, y, j.fst)
         PROVE  h[y.cluster] = cur,
         ASSUME OnlyRemoval(r, anc, q), NEW c, DoomedOK(f, r, home, anc, q, c)
         PROVE  DoomedOK(g, t, h, anc, Tail(q), c),
         RecordsOK(f, r, home)
  PROVE  FramesOK(g, t, h, anc, cur, Tail(q), p, j)
<1>1. /\ \A i \in DOMAIN Tail(q) : i + 1 \in DOMAIN q /\ Tail(q)[i] = q[i + 1]
      /\ p \in Seq(FrameType) /\ j \in JobType /\ Shape(p)
      /\ \A i \in DOMAIN p : p[i] \in FrameType
  BY Rest DEF FramesOK
<1>2. (Plain(q) => Plain(Tail(q))) /\ (NoneFreed(q) => NoneFreed(Tail(q)))
  BY <1>1 DEF Plain, NoneFreed
<1>3. ASSUME Plain(q), NoneFreed(q), HitOK(r, home, cur, j)
      PROVE  HitOK(t, h, cur, j) /\ (j.hit # NOWHERE => t[j.hit] = r[j.hit])
  <2>1. j.hit # NOWHERE => j.hit \in Place
    BY <1>1 DEF JobType
  <2> QED  BY <2>1, <1>3 DEF HitOK
<1>4. ASSUME NEW i \in DOMAIN p PROVE FrameOK(g, t, h, anc, cur, Tail(q), j, p[i])
  <2> DEFINE x == p[i]
  <2>1. FrameOK(f, r, home, anc, cur, q, j, x) /\ x \in FrameType
    BY <1>1 DEF FramesOK
  <2> HIDE DEF x
  <2>2. x.r \notin Freeing => NoneFreed(q)
    BY <2>1 DEF FrameOK, NoneFreed
  <2>3. x.r \notin Freeing \cup {".", ".."} => Plain(q)
    BY <2>1 DEF FrameOK
  <2>4. x.r \in {"list_files", "mkdir", "cd", "rm", "rmold", "read"} => HitOK(t, h, cur, j)
    <3> HAVE x.r \in {"list_files", "mkdir", "cd", "rm", "rmold", "read"}
    <3>1. Plain(q) /\ NoneFreed(q) /\ HitOK(r, home, cur, j)
      BY <2>1, <2>2, <2>3 DEF FrameOK, Freeing
    <3> QED  BY <3>1, <1>3
  <2>5. x.r \in {"list_files", "add"} => At(g, h, Tail(q), x.cluster, cur)
    <3> HAVE x.r \in {"list_files", "add"}
    <3>1. NoneFreed(q) /\ At(f, home, q, x.cluster, cur)
      BY <2>1, <2>2 DEF FrameOK, Freeing
    <3> QED  BY <3>1
  <2>6. x.r = "readFile" =>
          /\ j.hit # NOWHERE /\ HitOK(t, h, cur, j) /\ t[j.hit].name \in Names
          /\ At(g, h, Tail(q), x.cluster, HitFst(t, j))
    <3> HAVE x.r = "readFile"
    <3>1. /\ Plain(q) /\ NoneFreed(q) /\ HitOK(r, home, cur, j) /\ j.hit # NOWHERE
          /\ r[j.hit].name \in Names /\ At(f, home, q, x.cluster, HitFst(r, j))
      BY <2>1, <2>2, <2>3 DEF FrameOK, Freeing
    <3>2. HitOK(t, h, cur, j) /\ t[j.hit] = r[j.hit] /\ j.hit \in Place
      BY <3>1, <1>1, <1>3 DEF JobType
    <3>3. Anchored(r, HitFst(r, j))
      BY <3>1, <3>2 DEF HitFst, Anchored, Owned, Owner
    <3>4. At(g, h, Tail(q), x.cluster, HitFst(r, j))
      BY <3>1, <3>3
    <3> QED  BY <3>1, <3>2, <3>4 DEF HitFst
  <2>7. x.r \in {"content", "add"} => FreshOK(g, t, h, Tail(q), j)
    <3> HAVE x.r \in {"content", "add"}
    <3>1. Plain(q) /\ NoneFreed(q) /\ FreshOK(f, r, home, q, j)
      BY <2>1, <2>2, <2>3 DEF FrameOK, Freeing
    <3> QED  BY <3>1
  <2>8. x.r \in {"content", ".", ".."} => At(g, h, Tail(q), x.cluster, j.fst)
    <3> HAVE x.r \in {"content", ".", ".."}
    <3>1. NoneFreed(q) /\ At(f, home, q, x.cluster, j.fst)
      BY <2>1, <2>2 DEF FrameOK, Freeing
    <3> QED  BY <3>1
  <2>9. x.r \in {".", ".."} =>
          /\ j.fst \in Cluster /\ j.fst # ROOT /\ At(g, h, Tail(q), j.fst, j.fst)
          /\ \A y \in Place : Owner(t, y, j.fst) => h[y.cluster] = cur
    <3> HAVE x.r \in {".", ".."}
    <3>1. /\ NoneFreed(q) /\ j.fst \in Cluster /\ j.fst # ROOT
          /\ At(f, home, q, j.fst, j.fst)
          /\ \A y \in Place : Owner(r, y, j.fst) => home[y.cluster] = cur
      BY <2>1, <2>2 DEF FrameOK, Freeing
    <3> QED  BY <3>1
  <2>10. x.r = "removeFATChain" =>
           DoomedOK(g, t, h, anc, Tail(q), x.cluster) /\ OnlyRemoval(t, anc, Tail(q))
    <3> HAVE x.r = "removeFATChain"
    <3>1. DoomedOK(f, r, home, anc, q, x.cluster) /\ OnlyRemoval(r, anc, q)
      BY <2>1 DEF FrameOK
    <3>2. \A k \in DOMAIN Tail(q) : /\ Tail(q)[k].w # "sector"
                                     /\ Tail(q)[k].w = "entry" => Tail(q)[k].val = FREE
      <4> TAKE k \in DOMAIN Tail(q)
      <4>1. k + 1 \in DOMAIN q /\ Tail(q)[k] = q[k + 1] /\ Len(q) # 1
        BY <1>1, Rest
      <4> QED  BY <4>1, <3>1 DEF OnlyRemoval
    <3> QED  BY <3>1, <3>2 DEF OnlyRemoval
  <2>11. x.r \notin Freeing => NoneFreed(Tail(q))
    BY <2>2, <1>2
  <2>12. x.r \notin Freeing \cup {".", ".."} => Plain(Tail(q))
    BY <2>3, <1>2
  <2>13. FrameOK(g, t, h, anc, cur, Tail(q), j, x)
    BY <2>1, <2>4, <2>5, <2>6, <2>7, <2>8, <2>9, <2>10, <2>11, <2>12 DEF FrameOK, NoneFreed
  <2> QED  BY <2>13 DEF x
<1> QED  BY <1>1, <1>4 DEF FramesOK

----------------------------------------------------------------------------
\* The sector writes.  The first one of the queue is done; what it changes is
\* the table, the records and the homes, never the routines.

Pending(f, r, home, rank, anc, cur, q, p, j) ==
  DiskOK(f, r, home, rank, anc, cur, q, p, j) /\ q # <<>>

\* Only the first write frees a cluster.
LEMMA RestUnfreed ==
  ASSUME NEW f, NEW r, NEW home, NEW anc, NEW cur, NEW q, NEW fst,
         QueueOK(f, r, home, anc, cur, q, fst), q # <<>>
  PROVE  /\ NoneFreed(Tail(q))
         /\ Tail(q) # <<>> => ~(Tail(q)[1].w = "entry" /\ Tail(q)[1].val = FREE)
<1>1. /\ \A i \in DOMAIN Tail(q) : i + 1 \in DOMAIN q /\ Tail(q)[i] = q[i + 1]
      /\ Tail(q) \in Seq(Write)
  BY Rest DEF QueueOK
<1>2. ASSUME NEW i \in DOMAIN Tail(q), Tail(q)[i].w = "entry" PROVE Tail(q)[i].val # FREE
  <2>1. EntryOK(f, r, home, anc, q, fst, i + 1) /\ i + 1 # 1
    BY <1>1, <1>2 DEF QueueOK
  <2> QED  BY <2>1, <1>1, Numbers DEF EntryOK
<1>3. NoneFreed(Tail(q))
  BY <1>2 DEF NoneFreed
<1>4. Tail(q) # <<>> => 1 \in DOMAIN Tail(q)
  BY <1>1
<1> QED  BY <1>3, <1>4 DEF NoneFreed

LEMMA CopyDone ==
  ASSUME NEW f, NEW r, NEW home, NEW rank, NEW anc, NEW cur, NEW q, NEW p, NEW j,
         Pending(f, r, home, rank, anc, cur, q, p, j), q[1].w = "copy"
  PROVE  DiskOK(f, r, home, rank, anc, cur, Tail(q), p, j)
<1>1. /\ QueueOK(f, r, home, anc, cur, q, j.fst) /\ q \in Seq(Write) /\ q # <<>>
      /\ FramesOK(f, r, home, anc, cur, q, p, j) /\ RecordsOK(f, r, home)
  BY DEF Pending, DiskOK, QueueOK
<1>2. /\ \A w : Has(Tail(q), w) => Has(q, w)
      /\ \A w : Has(q, w) => q[1] = w \/ Has(Tail(q), w)
  BY <1>1, Rest
<1>3. \A w : w.w # "copy" => (Has(q, w) <=> Has(Tail(q), w))
  BY <1>2
<1>4. /\ \A c, v : Has(q, SetEntry(c, v)) <=> Has(Tail(q), SetEntry(c, v))
      /\ \A c, s, v : Has(q, SetSector(c, s, v)) <=> Has(Tail(q), SetSector(c, s, v))
  BY <1>3 DEF SetEntry, SetSector
<1>5. QueueOK(f, r, home, anc, cur, Tail(q), j.fst)
  <2>1. ASSUME NEW l, NEW n, LinkOK(f, r, home, q, j.fst, l, n)
        PROVE  LinkOK(f, r, home, Tail(q), j.fst, l, n)
    BY <1>4, <2>1 DEF LinkOK, Wiped
  <2> QED  BY <1>1, <2>1, QueueRest
<1>6. FramesOK(f, r, home, anc, cur, Tail(q), p, j)
  <2>1. ASSUME NEW c, NEW a, At(f, home, q, c, a) PROVE At(f, home, Tail(q), c, a)
    BY <1>4, <2>1 DEF At, Used
  <2>2. ASSUME FreshOK(f, r, home, q, j) PROVE FreshOK(f, r, home, Tail(q), j)
    BY <1>4, <2>2 DEF FreshOK, Used
  <2>3. ASSUME NEW c, OnlyRemoval(r, anc, q), DoomedOK(f, r, home, anc, q, c)
        PROVE  DoomedOK(f, r, home, anc, Tail(q), c)
    BY <2>3, RestUnfreed, <1>1 DEF DoomedOK
  <2> QED  BY <1>1, <2>1, <2>2, <2>3, FramesRest
<1> QED  BY <1>1, <1>5, <1>6 DEF Pending, DiskOK

LEMMA MarkDone ==
  ASSUME NEW f, NEW r, NEW home, NEW rank, NEW anc, NEW cur, NEW q, NEW p, NEW j,
         Pending(f, r, home, rank, anc, cur, q, p, j), NEW c,
         q[1] = SetEntry(c, END_CLUSTER)
  PROVE  DiskOK([f EXCEPT ![c] = END_CLUSTER], r, home, rank, anc, cur, Tail(q), p, j)
<1> DEFINE g == [f EXCEPT ![c] = END_CLUSTER]
<1>1. /\ QueueOK(f, r, home, anc, cur, q, j.fst) /\ q \in Seq(Write) /\ q # <<>>
      /\ FramesOK(f, r, home, anc, cur, q, p, j) /\ RecordsOK(f, r, home)
      /\ TableOK(f, home, rank) /\ PathOK(r, home, anc, cur)
      /\ 1 \in DOMAIN q /\ q[1].w = "entry" /\ q[1].val = END_CLUSTER /\ q[1].cluster = c
  BY Rest DEF Pending, DiskOK, QueueOK, SetEntry
<1>2. MarkOK(f, c)
  BY <1>1, Numbers DEF QueueOK, EntryOK
<1>3. /\ c \in Cluster /\ c \in Entries /\ f \in [Entries -> FatValue]
      /\ g[c] = END_CLUSTER /\ \A d \in Entries : d # c => g[d] = f[d]
  BY <1>1, <1>2, Numbers DEF MarkOK, TableOK
<1>4. TableOK(g, home, rank)
  BY <1>1, <1>2, MarkTable
<1>5. RecordsOK(g, r, home)
  BY <1>1, <1>3, TableRecords, Numbers
<1> HIDE DEF g
<1>6. /\ \A w : Has(Tail(q), w) => Has(q, w)
      /\ \A w : Has(q, w) => q[1] = w \/ Has(Tail(q), w)
  BY <1>1, Rest
<1>7. /\ \A l, n : n # END_CLUSTER => (Has(q, SetEntry(l, n)) => Has(Tail(q), SetEntry(l, n)))
      /\ \A l : l # c => (Has(q, SetEntry(l, END_CLUSTER)) => Has(Tail(q), SetEntry(l, END_CLUSTER)))
      /\ \A d, s, v : Has(q, SetSector(d, s, v)) => Has(Tail(q), SetSector(d, s, v))
  BY <1>6, <1>1 DEF SetEntry, SetSector
<1>8. \A d \in Cluster : Used(f, q, d) => Used(g, Tail(q), d)
  BY <1>3, <1>7, Numbers DEF Used
<1>9. QueueOK(g, r, home, anc, cur, Tail(q), j.fst)
  <2>1. ASSUME NEW i \in DOMAIN q, MarkOK(f, q[i].cluster) PROVE MarkOK(g, q[i].cluster)
    BY <1>3, <2>1, Numbers DEF MarkOK
  <2>2. ASSUME NEW i \in DOMAIN q, LinkOK(f, r, home, q, j.fst, q[i].cluster, q[i].val)
        PROVE  LinkOK(g, r, home, Tail(q), j.fst, q[i].cluster, q[i].val)
    BY <1>3, <1>7, <2>2, Numbers DEF LinkOK, Wiped
  <2> QED  BY <1>1, <2>1, <2>2, QueueRest
<1>10. FramesOK(g, r, home, anc, cur, Tail(q), p, j)
  <2>1. ASSUME NEW d, NEW a, At(f, home, q, d, a) PROVE At(g, home, Tail(q), d, a)
    BY <1>7, <1>8, <2>1, Numbers DEF At
  <2>2. ASSUME FreshOK(f, r, home, q, j) PROVE FreshOK(g, r, home, Tail(q), j)
    BY <1>7, <1>8, <2>2 DEF FreshOK
  <2>3. ASSUME NEW d, DoomedOK(f, r, home, anc, q, d)
        PROVE  DoomedOK(g, r, home, anc, Tail(q), d)
    <3>1. CASE d = 0
      BY <3>1 DEF DoomedOK
    <3>2. CASE d # 0
      <4>1. d \in Cluster /\ g[d] # FREE
        BY <2>3, <3>2, <1>3, Numbers DEF DoomedOK
      <4>2. home[d] = d /\ \A y \in Place : ~Owner(r, y, d)
        BY <2>3, <3>2, <1>1, Numbers DEF DoomedOK
      <4> QED  BY <2>3, <3>2, <4>1, <4>2, RestUnfreed, <1>1 DEF DoomedOK
    <3> QED  BY <3>1, <3>2
  <2> QED  BY <1>1, <2>1, <2>2, <2>3, FramesRest
<1>11. DiskOK(g, r, home, rank, anc, cur, Tail(q), p, j)
  BY <1>1, <1>4, <1>5, <1>9, <1>10 DEF DiskOK
<1> QED  BY <1>11 DEF g

LEMMA LinkDone ==
  ASSUME NEW f, NEW r, NEW home, NEW rank, NEW anc, NEW cur, NEW q, NEW p, NEW j,
         Pending(f, r, home, rank, anc, cur, q, p, j), NEW l, NEW n \in Cluster,
         q[1] = SetEntry(l, n)
  PROVE  DiskOK([f EXCEPT ![l] = n], r, Joined(home, l, n), Raised(rank, l, n), anc, cur,
                Tail(q), p, j)
<1> DEFINE g == [f EXCEPT ![l] = n]
           h == Joined(home, l, n)
           k == Raised(rank, l, n)
<1>1. /\ QueueOK(f, r, home, anc, cur, q, j.fst) /\ q \in Seq(Write) /\ q # <<>>
      /\ FramesOK(f, r, home, anc, cur, q, p, j) /\ RecordsOK(f, r, home)
      /\ TableOK(f, home, rank) /\ PathOK(r, home, anc, cur)
      /\ 1 \in DOMAIN q /\ q[1].w = "entry" /\ q[1].val = n /\ q[1].cluster = l
      /\ DOMAIN q = 1..Len(q)
  BY Rest DEF Pending, DiskOK, QueueOK, SetEntry
<1>2. /\ LinkOK(f, r, home, q, j.fst, l, n)
      /\ \A m \in DOMAIN q : m # 1 => q[m].w = "copy"
  BY <1>1, Numbers DEF QueueOK, EntryOK
<1>3. \A w : Has(q, w) => w = q[1] \/ w.w = "copy"
  BY <1>2 DEF Has
<1>4. /\ \A d, v : Has(q, SetEntry(d, v)) => d = l /\ v = n
      /\ \A d, s, v : ~Has(q, SetSector(d, s, v))
  BY <1>1, <1>3 DEF SetEntry, SetSector
<1>5. /\ l \in Cluster /\ f[l] = END_CLUSTER /\ f[n] = END_CLUSTER
      /\ home[l] \notin {0, n} /\ home[n] = n /\ n # ROOT /\ n # j.fst
      /\ \A d \in Cluster : home[d] = n => d = n
      /\ ~Owned(r, n) /\ \A y \in Place : y.cluster = n => r[y] = ZeroRec
  BY <1>2, <1>4, Numbers DEF LinkOK, Wiped
<1>6. TableOK(g, h, k)
  BY <1>1, <1>5, LinkTable
<1>7. home \in [Cluster -> {0} \cup Cluster] /\ f \in [Entries -> FatValue]
  BY <1>1 DEF TableOK
<1>8. RecordsOK(g, r, h)
  <2>1. RecordsOK(f, r, h)
    BY <1>1, <1>5, <1>7, JoinRecords
  <2> QED  BY <2>1, <1>5, <1>7, TableRecords, Numbers
<1>9. /\ h[n] = home[l] /\ \A d \in Cluster : d # n => h[d] = home[d]
      /\ g[l] = n /\ \A d \in Entries : d # l => g[d] = f[d]
  BY <1>5, <1>7, Numbers DEF Joined
<1> HIDE DEF g, h, k
<1>10. \A x \in Place : r[x].name \in Names \cup Dots => h[x.cluster] = home[x.cluster]
  BY <1>5, <1>9, PlaceCluster, NamesKnown
<1>11. ~Anchored(r, n)
  BY <1>5 DEF Anchored
<1>12. PathOK(r, h, anc, cur)
  BY <1>1, <1>10, PathKept
<1>13. \A i \in DOMAIN Tail(q) : Tail(q)[i].w = "copy"
  BY <1>1, <1>2, Rest
<1>14. QueueOK(g, r, h, anc, cur, Tail(q), j.fst)
  BY <1>1, <1>2, QueueRest
<1>15. FramesOK(g, r, h, anc, cur, Tail(q), p, j)
  <2>1. ASSUME NEW x \in Place, home[x.cluster] = cur PROVE h[x.cluster] = cur
    BY <2>1, <1>1, <1>5, <1>9, <1>11, PathAnchored, PlaceCluster
  <2>2. ASSUME NEW d \in Cluster, Used(f, q, d) PROVE Used(g, Tail(q), d)
    <3>1. f[d] # FREE
      BY <2>2, <1>4, Numbers DEF Used
    <3> QED  BY <3>1, <1>9, Numbers DEF Used
  <2>3. ASSUME NEW d, NEW a, At(f, home, q, d, a), a = cur \/ a = j.fst \/ Anchored(r, a)
        PROVE  At(g, h, Tail(q), d, a)
    <3>1. a # n
      BY <2>3, <1>1, <1>5, <1>11, PathAnchored
    <3>2. d \in Cluster /\ Used(g, Tail(q), d)
      BY <2>2, <2>3 DEF At
    <3>3. h[d] = a
      <4>1. CASE home[d] = a
        BY <4>1, <3>1, <3>2, <1>5, <1>9
      <4>2. CASE home[d] # a
        <5>1. d = n /\ home[l] = a
          BY <4>2, <2>3, <1>4 DEF At
        <5> QED  BY <5>1, <1>9
      <4> QED  BY <4>1, <4>2
    <3> QED  BY <3>2, <3>3 DEF At
  <2>4. ASSUME FreshOK(f, r, home, q, j) PROVE FreshOK(g, r, h, Tail(q), j)
    <3>1. Used(g, Tail(q), j.fst) /\ h[j.fst] = j.fst
      BY <2>2, <2>4, <1>5, <1>9 DEF FreshOK
    <3>2. ASSUME NEW y \in Place, h[y.cluster] = j.fst PROVE r[y] = ZeroRec
      <4>1. CASE y.cluster = n
        BY <4>1, <1>5
      <4>2. CASE y.cluster # n
        <5>1. home[y.cluster] = j.fst
          BY <3>2, <4>2, <1>9, PlaceCluster
        <5> QED  BY <5>1, <2>4, <1>4 DEF FreshOK
      <4> QED  BY <4>1, <4>2
    <3> QED  BY <3>1, <3>2, <2>4 DEF FreshOK
  <2>5. ASSUME NEW y \in Place, Owner(r, y, j.fst),
               \A x \in Place : Owner(r, x, j.fst) => home[x.cluster] = cur
        PROVE  h[y.cluster] = cur
    BY <2>1, <2>5
  <2>6. ~OnlyRemoval(r, anc, q)
    BY <1>1, Numbers DEF OnlyRemoval
  <2> QED  BY <1>1, <2>1, <2>3, <2>4, <2>5, <2>6, FramesRest
<1>16. DiskOK(g, r, h, k, anc, cur, Tail(q), p, j)
  BY <1>6, <1>8, <1>12, <1>14, <1>15 DEF DiskOK
<1> QED  BY <1>16 DEF g, h, k

LEMMA FreeDone ==
  ASSUME NEW f, NEW r, NEW home, NEW rank, NEW anc, NEW cur, NEW q, NEW p, NEW j,
         Pending(f, r, home, rank, anc, cur, q, p, j), NEW c,
         q[1] = SetEntry(c, FREE)
  PROVE  \/ /\ c = 0
            /\ DiskOK([f EXCEPT ![c] = FREE], r, home, rank, anc, cur, Tail(q), p, j)
         \/ /\ c \in Cluster
            /\ DiskOK([f EXCEPT ![c] = FREE], r, Beheaded(home, c, f[c]), rank, anc, cur,
                      Tail(q), p, j)
<1> DEFINE g == [f EXCEPT ![c] = FREE]
           h == IF c = 0 THEN home ELSE Beheaded(home, c, f[c])
<1>1. /\ QueueOK(f, r, home, anc, cur, q, j.fst) /\ q \in Seq(Write) /\ q # <<>>
      /\ FramesOK(f, r, home, anc, cur, q, p, j) /\ RecordsOK(f, r, home)
      /\ TableOK(f, home, rank) /\ PathOK(r, home, anc, cur)
      /\ 1 \in DOMAIN q /\ q[1].w = "entry" /\ q[1].val = FREE /\ q[1].cluster = c
      /\ DOMAIN q = 1..Len(q)
  BY Rest DEF Pending, DiskOK, QueueOK, SetEntry
<1>2. /\ FreeOK(f, r, home, anc, c)
      /\ \A m \in DOMAIN q : m # 1 => q[m].w = "copy"
  BY <1>1, Numbers DEF QueueOK, EntryOK
<1>3. /\ f \in [Entries -> FatValue] /\ home \in [Cluster -> {0} \cup Cluster]
      /\ c \in Entries /\ c \in {0} \cup Cluster
      /\ g[c] = FREE /\ \A d \in Entries : d # c => g[d] = f[d]
  BY <1>1, <1>2, Numbers DEF FreeOK, TableOK
<1>4. TableOK(g, h, rank)
  BY <1>1, <1>2, FreeTable, MediaTable, Numbers DEF FreeOK
<1>5. RecordsOK(g, r, h)
  <2>1. CASE c = 0
    BY <2>1, <1>1, <1>3, TableRecords
  <2>2. CASE c # 0
    BY <2>2, <1>1, <1>2, BeheadRecords DEF FreeOK
  <2> QED  BY <2>1, <2>2
<1>6. \A d \in Cluster : home[d] # c => h[d] = home[d]
  BY <1>2, <1>3 DEF FreeOK, Beheaded
<1>7. c # 0 /\ f[c] \in Cluster => h[f[c]] = f[c]
  BY <1>1, <1>2, <1>3 DEF FreeOK, Beheaded, TableOK
<1>8. ~Anchored(r, c)
  BY <1>2 DEF FreeOK, Anchored, ROOT
<1> HIDE DEF g, h
<1>9. PathOK(r, h, anc, cur)
  <2>1. ASSUME NEW x \in Place, Anchored(r, home[x.cluster]) PROVE h[x.cluster] = home[x.cluster]
    BY <2>1, <1>6, <1>8, PlaceCluster
  <2> QED  BY <1>1, <2>1, PathKept
<1>10. QueueOK(g, r, h, anc, cur, Tail(q), j.fst)
  BY <1>1, <1>2, QueueRest
<1>11. FramesOK(g, r, h, anc, cur, Tail(q), p, j)
  <2>1. ~NoneFreed(q)
    BY <1>1 DEF NoneFreed
  <2>2. ASSUME NEW d, DoomedOK(f, r, home, anc, q, d)
        PROVE  DoomedOK(g, r, h, anc, Tail(q), d)
    <3>1. CASE d = 0
      BY <3>1 DEF DoomedOK
    <3>2. CASE d # 0
      <4>1. /\ d \in Cluster /\ d # ROOT /\ f[d] # FREE /\ ~OnPath(anc, d)
            /\ c \in Cluster /\ f[c] = d /\ \A y \in Place : ~Owner(r, y, d)
        BY <2>2, <3>2, <1>1, Numbers DEF DoomedOK
      <4>2. d # c /\ h[d] = d
        BY <4>1, <1>1, <1>7, Numbers DEF TableOK
      <4> QED  BY <4>1, <4>2, <1>3, Numbers, RestUnfreed, <1>1 DEF DoomedOK
    <3> QED  BY <3>1, <3>2
  <2> QED  BY <1>1, <2>1, <2>2, FramesRest
<1>12. DiskOK(g, r, h, rank, anc, cur, Tail(q), p, j)
  BY <1>4, <1>5, <1>9, <1>10, <1>11 DEF DiskOK
<1> QED  BY <1>3, <1>12, Numbers DEF g, h

LEMMA BlankDone ==
  ASSUME NEW f, NEW r, NEW home, NEW rank, NEW anc, NEW cur, NEW q, NEW p, NEW j,
         Pending(f, r, home, rank, anc, cur, q, p, j), NEW c, NEW s, NEW v,
         q[1] = SetSector(c, s, v), \A o \in Pos : v.recs[o] = ZeroRec,
         ~Anchored(r, home[c])
  PROVE  DiskOK(f, Blanked(r, c, s), home, rank, anc, cur, Tail(q), p, j)
<1> DEFINE t == Blanked(r, c, s)
<1>1. /\ QueueOK(f, r, home, anc, cur, q, j.fst) /\ q \in Seq(Write) /\ q # <<>>
      /\ FramesOK(f, r, home, anc, cur, q, p, j) /\ RecordsOK(f, r, home)
      /\ TableOK(f, home, rank) /\ PathOK(r, home, anc, cur)
      /\ 1 \in DOMAIN q /\ q[1].w = "sector" /\ q[1].val = v /\ q[1].cluster = c
      /\ q[1].sector = s /\ q[1] \in Write
  BY Rest DEF Pending, DiskOK, QueueOK, SetSector
<1>2. c \in Cluster
  BY <1>1, WriteKinds DEF SectorWrite
<1>3. \A y \in Place : t[y] = IF y.cluster = c /\ y.sector = s THEN ZeroRec ELSE r[y]
  BY DEF Blanked
<1>4. RecordsOK(f, t, home)
  BY <1>1, <1>2, BlankRecords
<1> HIDE DEF t
<1>5. \A y \in Place : /\ Anchored(r, home[y.cluster]) => t[y] = r[y]
                       /\ t[y].name \in Names => t[y] = r[y]
                       /\ r[y] = ZeroRec => t[y] = ZeroRec
  BY <1>3, NamesKnown
<1>6. \A d : Anchored(t, d) => Anchored(r, d)
  BY <1>5 DEF Anchored, Owned, Owner
<1>7. \A d : \A y \in Place : Owner(t, y, d) => Owner(r, y, d)
  BY <1>5 DEF Owner
<1>8. \A d : Owned(t, d) => Owned(r, d)
  BY <1>7 DEF Owned
<1>9. PathOK(t, home, anc, cur)
  BY <1>1, <1>5, PathKept
<1>10. /\ \A w : Has(Tail(q), w) => Has(q, w)
       /\ \A w : Has(q, w) => q[1] = w \/ Has(Tail(q), w)
  BY <1>1, Rest
<1>11. /\ \A l, n : Has(q, SetEntry(l, n)) => Has(Tail(q), SetEntry(l, n))
       /\ \A d, z, x : Has(q, SetSector(d, z, x))
            => Has(Tail(q), SetSector(d, z, x)) \/ (d = c /\ z = s)
  BY <1>10, <1>1 DEF SetEntry, SetSector
<1>12. ASSUME NEW y \in Place,
              r[y] = ZeroRec \/ Has(q, SetSector(y.cluster, y.sector, ZeroSector))
       PROVE  t[y] = ZeroRec \/ Has(Tail(q), SetSector(y.cluster, y.sector, ZeroSector))
  <2>1. CASE y.cluster = c /\ y.sector = s
    BY <2>1, <1>3
  <2>2. CASE ~(y.cluster = c /\ y.sector = s)
    BY <2>2, <1>3, <1>11, <1>12
  <2> QED  BY <2>1, <2>2
<1>13. QueueOK(f, t, home, anc, cur, Tail(q), j.fst)
  <2>1. ASSUME NEW l, NEW n, LinkOK(f, r, home, q, j.fst, l, n)
        PROVE  LinkOK(f, t, home, Tail(q), j.fst, l, n)
    <3>1. Wiped(t, Tail(q), n)
      BY <2>1, <1>12 DEF LinkOK, Wiped
    <3> QED  BY <3>1, <2>1, <1>8, <1>11 DEF LinkOK
  <2> QED  BY <1>1, <1>6, <2>1, QueueRest
<1>14. FramesOK(f, t, home, anc, cur, Tail(q), p, j)
  <2>1. \A x \in Place : home[x.cluster] = cur => t[x] = r[x]
    BY <1>1, <1>5, PathAnchored
  <2>2. \A d \in Cluster : Used(f, q, d) => Used(f, Tail(q), d)
    BY <1>11 DEF Used
  <2>3. ASSUME NEW d, NEW a, At(f, home, q, d, a) PROVE At(f, home, Tail(q), d, a)
    BY <2>2, <2>3, <1>11 DEF At
  <2>4. ASSUME FreshOK(f, r, home, q, j) PROVE FreshOK(f, t, home, Tail(q), j)
    BY <2>2, <2>4, <1>8, <1>12 DEF FreshOK
  <2>5. ASSUME NEW d, DoomedOK(f, r, home, anc, q, d)
        PROVE  DoomedOK(f, t, home, anc, Tail(q), d)
    <3>1. CASE d = 0
      BY <3>1 DEF DoomedOK
    <3>2. CASE d # 0
      <4>1. /\ d \in Cluster /\ d # ROOT /\ f[d] # FREE /\ ~OnPath(anc, d) /\ home[d] = d
            /\ \A y \in Place : Owner(r, y, d) =>
                 y.cluster = c /\ y.sector = s
        BY <2>5, <3>2, <1>1, Numbers DEF DoomedOK
      <4>2. \A y \in Place : ~Owner(t, y, d)
        BY <4>1, <1>3, <1>7, NamesKnown DEF Owner
      <4> QED  BY <4>1, <4>2, RestUnfreed, <1>1 DEF DoomedOK
    <3> QED  BY <3>1, <3>2
  <2> QED  BY <1>1, <1>7, <2>1, <2>3, <2>4, <2>5, FramesRest
<1>15. DiskOK(f, t, home, rank, anc, cur, Tail(q), p, j)
  BY <1>1, <1>4, <1>9, <1>13, <1>14 DEF DiskOK
<1> QED  BY <1>15 DEF t

LEMMA RecordDone ==
  ASSUME NEW f, NEW r, NEW home, NEW rank, NEW anc, NEW cur, NEW q, NEW p, NEW j,
         Pending(f, r, home, rank, anc, cur, q, p, j), NEW x \in Place, NEW v,
         q[1] = SetSector(x.cluster, x.sector, v), Len(q) = 1,
         v.recs[x.pos] \in RecType,
         RecordOK(f, r, home, anc, cur, x, v.recs[x.pos]),
         \A o \in Pos \ {x.pos} : v.recs[o] = r[Spot(x.cluster, x.sector, o)]
  PROVE  DiskOK(f, [r EXCEPT ![x] = v.recs[x.pos]], home, rank, anc, cur, Tail(q), p, j)
<1> DEFINE e == v.recs[x.pos]
           t == [r EXCEPT ![x] = e]
<1>1. /\ QueueOK(f, r, home, anc, cur, q, j.fst) /\ q \in Seq(Write) /\ q # <<>>
      /\ FramesOK(f, r, home, anc, cur, q, p, j) /\ RecordsOK(f, r, home)
      /\ TableOK(f, home, rank) /\ PathOK(r, home, anc, cur)
      /\ 1 \in DOMAIN q /\ q[1].w = "sector" /\ q[1].val = v /\ q[1].cluster = x.cluster
      /\ q[1].sector = x.sector /\ q[1] \in Write /\ DOMAIN q = {1}
  <2>1. q \in Seq(Write) /\ q # <<>>
    BY DEF Pending, DiskOK, QueueOK
  <2>2. DOMAIN q = {1}
    BY <2>1
  <2> QED  BY <2>1, <2>2, Rest DEF Pending, DiskOK, SetSector
<1>2. t[x] = e /\ \A y \in Place : y # x => t[y] = r[y]
  BY <1>1 DEF RecordsOK
<1>3. r[x].name = UNUSED \/ r[x].name \in Names
  BY DEF RecordOK, NameRemoved
<1>4. e.name \in Names \cup Dots \cup {REMOVED}
  <2>1. NameRemoved(r, anc, x, e) => e.name = REMOVED
    BY <1>1 DEF NameRemoved, RecordsOK, RecType
  <2> QED  BY <2>1, NamesKnown DEF RecordOK, NameAdded, DotAdded, DotDotAdded
<1>5. RecordsOK(f, t, home)
  <2>1. CASE NameAdded(f, r, home, cur, x.cluster, e) /\ r[x].name = UNUSED
    BY <2>1, <1>1, NameRecords, PathAnchored
  <2>2. CASE /\ DotAdded(home, x.cluster, e) \/ DotDotAdded(r, home, x.cluster, e)
             /\ r[x].name = UNUSED
    BY <2>2, <1>1, DotRecords
  <2>3. CASE NameRemoved(r, anc, x, e)
    <3>1. e.name = REMOVED
      BY <2>3, <1>1 DEF NameRemoved, RecordsOK, RecType
    <3> QED  BY <3>1, <1>1, RemovedRecords
  <2> QED  BY <2>1, <2>2, <2>3 DEF RecordOK
<1> HIDE DEF t
<1>6. PathOK(t, home, anc, cur)
  <2>1. r[x].name \in Names => ~OnPath(anc, r[x].cluster)
    BY NamesKnown DEF RecordOK, NameRemoved
  <2>2. \A y \in Place : OnPath(anc, r[y].cluster) /\ r[y].name \in Names => t[y] = r[y]
    BY <2>1, <1>2
  <2> QED  BY <1>1, <2>2, PathKept
<1>7. Tail(q) = <<>>
  <2>1. q \in Seq(Write) /\ q # <<>>
    BY <1>1
  <2>2. Tail(q) \in Seq(Write) /\ Len(Tail(q)) = 0
    BY <2>1, Rest
  <2> QED  BY ONLY <2>2, EmptySeq
<1>8. QueueOK(f, t, home, anc, cur, Tail(q), j.fst)
  BY <1>1, QueueRest
<1>9. ~Plain(q)
  <2>1. x.pos \in Pos /\ e # ZeroRec
    BY <1>4, NamesKnown DEF Place
  <2> QED  BY <2>1, <1>1 DEF Plain
<1>10. \A d, w : ~Has(q, SetEntry(d, w))
  BY <1>1 DEF Has, SetEntry
<1>11. FramesOK(f, t, home, anc, cur, Tail(q), p, j)
  <2>1. ASSUME NEW d, NEW a, At(f, home, q, d, a) PROVE At(f, home, Tail(q), d, a)
    BY <2>1, <1>10 DEF At, Used
  <2>2. ASSUME \A y \in Place : Owner(r, y, j.fst) => home[y.cluster] = cur,
               NEW y \in Place, Owner(t, y, j.fst)
        PROVE  home[y.cluster] = cur
    <3>1. CASE y # x
      BY <3>1, <2>2, <1>2 DEF Owner
    <3>2. CASE y = x
      <4>1. e.name \in Names
        BY <3>2, <2>2, <1>2 DEF Owner
      <4>2. NameAdded(f, r, home, cur, x.cluster, e)
        <5>1. ~NameRemoved(r, anc, x, e)
          BY <4>1, <1>1, NamesKnown DEF NameRemoved, RecordsOK, RecType
        <5> QED  BY <4>1, <5>1, NamesKnown DEF RecordOK, DotAdded, DotDotAdded
      <4> QED  BY <3>2, <4>2 DEF NameAdded
    <3> QED  BY <3>1, <3>2
  <2>3. ASSUME OnlyRemoval(r, anc, q), NEW d, DoomedOK(f, r, home, anc, q, d)
        PROVE  DoomedOK(f, t, home, anc, Tail(q), d)
    <3>1. CASE d = 0
      BY <3>1 DEF DoomedOK
    <3>2. CASE d # 0
      <4>1. PICK z \in Pos :
              /\ NameRemoved(r, anc, Spot(x.cluster, x.sector, z), v.recs[z])
              /\ \A o \in Pos \ {z} : v.recs[o] = r[Spot(x.cluster, x.sector, o)]
        BY <2>3, <1>1 DEF OnlyRemoval
      <4>2. x = Spot(x.cluster, x.sector, x.pos) /\ x.pos \in Pos
        BY DEF Place, Spot
      <4>3. e.name = REMOVED
        <5>1. CASE z = x.pos
          BY <5>1, <4>1, <4>2, <1>1 DEF NameRemoved, RecordsOK, RecType
        <5>2. CASE z # x.pos
          <6>1. e = r[x]
            BY <5>2, <4>1, <4>2
          <6>2. r[x].name \in Names
            BY <6>1, <1>3, <1>4, NamesKnown
          <6> QED  BY <6>1, <6>2, <1>1, NamesKnown
                   DEF RecordOK, NameRemoved, RecordsOK, RecType
        <5> QED  BY <5>1, <5>2
      <4>4. \A y \in Place : ~Owner(t, y, d)
        <5> SUFFICES ASSUME NEW y \in Place, Owner(t, y, d) PROVE FALSE
          OBVIOUS
        <5>1. y # x /\ Owner(r, y, d)
          BY <4>3, <1>2, NamesKnown DEF Owner
        <5>2. y.cluster = x.cluster /\ y.sector = x.sector /\ v.recs[y.pos].name = REMOVED
          BY <5>1, <2>3, <3>2, <1>1 DEF DoomedOK
        <5>3. y = Spot(x.cluster, x.sector, y.pos) /\ y.pos \in Pos /\ y.pos # x.pos
          BY <5>1, <5>2, <4>2 DEF Place, Spot
        <5>4. v.recs[y.pos] = r[y]
          BY <5>3
        <5> QED  BY <5>1, <5>2, <5>4, NamesKnown DEF Owner
      <4>5. /\ d \in Cluster /\ d # ROOT /\ f[d] # FREE /\ ~OnPath(anc, d) /\ home[d] = d
        BY <2>3, <3>2, <1>1, Numbers DEF DoomedOK
      <4> QED  BY <4>4, <4>5, <1>7 DEF DoomedOK
    <3> QED  BY <3>1, <3>2
  <2> QED  BY <1>1, <1>9, <2>1, <2>2, <2>3, FramesRest
<1>12. DiskOK(f, t, home, rank, anc, cur, Tail(q), p, j)
  BY <1>1, <1>5, <1>6, <1>8, <1>11 DEF DiskOK
<1> QED  BY <1>12 DEF t

----------------------------------------------------------------------------
\* One step of the specification at a time.

LEMMA Primed ==
  ASSUME Types', NEW home, NEW rank, NEW anc,
         DiskOK(Links', Recs', home, rank, anc, currentCluster', todo', pc', job')
  PROVE  DInv'
<1>1. /\ home \in [Cluster -> {0} \cup Cluster] /\ rank \in [Cluster -> Nat]
      /\ anc \in Seq(Cluster)
  BY DEF DiskOK, TableOK, PathOK
<1> QED  BY <1>1 DEF DInv

LEMMA Unprimed ==
  ASSUME DInv
  PROVE  /\ Types
         /\ \E home, rank, anc :
              DiskOK(Links, Recs, home, rank, anc, currentCluster, todo, pc, job)
BY DEF DInv

LEMMA SameDisk == ASSUME UNCHANGED disk PROVE Links' = Links /\ Recs' = Recs
BY DEF disk, Links, Recs, Rec

LEMMA OneCopy == 1 \in Copy /\ 2..nbFats \subseteq Copy /\ \A i \in 2..nbFats : i # 1
BY Fat32Assumption DEF Copy

LEMMA WriteKeepsDisk == ASSUME DInv, writeDiskSector PROVE DInv'
<1>1. /\ Types /\ todo # <<>> /\ todo' = Tail(todo)
      /\ currentCluster' = currentCluster /\ pc' = pc /\ job' = job
      /\ halted' = halted /\ cuts' = cuts
  BY DEF DInv, writeDiskSector
<1>2. PICK home, rank, anc :
        DiskOK(Links, Recs, home, rank, anc, currentCluster, todo, pc, job)
  BY Unprimed
<1>3. Pending(Links, Recs, home, rank, anc, currentCluster, todo, pc, job)
  BY <1>1, <1>2 DEF Pending
<1>4. /\ QueueOK(Links, Recs, home, anc, currentCluster, todo, job.fst)
      /\ todo \in Seq(Write) /\ 1 \in DOMAIN todo /\ Head(todo) = todo[1] /\ todo[1] \in Write
  BY <1>1, <1>2, Rest DEF DiskOK, QueueOK
<1> DEFINE t == todo[1]
<1>5. /\ t.w = "entry" => t \in EntryWrite /\ t = SetEntry(t.cluster, t.val)
      /\ t.w = "copy" => t \in CopyWrite
      /\ t.w = "sector" => t \in SectorWrite /\ t = SetSector(t.cluster, t.sector, t.val)
  BY <1>4, WriteKinds
<1>6. CASE t.w = "entry" /\ fat' = [fat EXCEPT ![1][t.cluster] = t.val] /\ UNCHANGED data
  <2>1. /\ t.cluster \in Entries /\ t.val \in FatValue
        /\ t.val \in {FREE, END_CLUSTER} \cup Cluster
    BY <1>5, <1>6, Numbers DEF EntryWrite
  <2>2. Types'
    BY <1>1, <1>6, <2>1, OneCopy DEF Types
  <2>3. Links' = [Links EXCEPT ![t.cluster] = t.val] /\ Recs' = Recs
    BY <1>1, <1>6, OneCopy DEF Types, Links, Recs, Rec
  <2>4. CASE t.val = END_CLUSTER
    <3>1. todo[1] = SetEntry(t.cluster, END_CLUSTER)
      BY <2>4, <1>5, <1>6
    <3>2. DiskOK([Links EXCEPT ![t.cluster] = END_CLUSTER], Recs, home, rank, anc,
                 currentCluster, Tail(todo), pc, job)
      BY <3>1, <1>3, MarkDone
    <3>3. DiskOK(Links', Recs', home, rank, anc, currentCluster', todo', pc', job')
      BY <3>2, <2>3, <2>4, <1>1
    <3> QED  BY <2>2, <3>3, Primed
  <2>5. CASE t.val = FREE
    <3>1. todo[1] = SetEntry(t.cluster, FREE)
      BY <2>5, <1>5, <1>6
    <3>2. \E h : DiskOK([Links EXCEPT ![t.cluster] = FREE], Recs, h, rank, anc,
                 currentCluster, Tail(todo), pc, job)
      BY <3>1, <1>3, FreeDone
    <3>3. PICK h : DiskOK([Links EXCEPT ![t.cluster] = FREE], Recs, h, rank, anc,
                 currentCluster, Tail(todo), pc, job)
      BY <3>2
    <3>4. DiskOK(Links', Recs', h, rank, anc, currentCluster', todo', pc', job')
      BY <3>3, <2>3, <2>5, <1>1
    <3> QED  BY <2>2, <3>4, Primed
  <2>6. CASE t.val \in Cluster
    <3> DEFINE h == Joined(home, t.cluster, t.val)
               k == Raised(rank, t.cluster, t.val)
    <3>1. todo[1] = SetEntry(t.cluster, t.val)
      BY <1>5, <1>6
    <3>2. DiskOK([Links EXCEPT ![t.cluster] = t.val], Recs, h, k, anc,
                 currentCluster, Tail(todo), pc, job)
      BY <3>1, <2>6, <1>3, LinkDone
    <3> HIDE DEF h, k
    <3>3. DiskOK(Links', Recs', h, k, anc, currentCluster', todo', pc', job')
      BY <3>2, <2>3, <1>1
    <3> QED  BY <2>2, <3>3, Primed
  <2> QED  BY <2>1, <2>4, <2>5, <2>6
<1>7. CASE /\ t.w = "copy" /\ UNCHANGED data
           /\ fat' = [fat EXCEPT ![t.copy] =
                        [c \in Entries |-> IF SameFatSector(c, t.cluster)
                                           THEN fat[1][c] ELSE @[c]]]
  <2>1. t.copy \in Copy /\ t.copy # 1
    BY <1>5, <1>7, OneCopy DEF CopyWrite
  <2>2. \A c \in Entries : fat[1][c] \in FatValue /\ fat[t.copy][c] \in FatValue
    BY <1>1, <2>1, OneCopy DEF Types
  <2>3. [c \in Entries |-> IF SameFatSector(c, t.cluster)
                           THEN fat[1][c] ELSE fat[t.copy][c]] \in [Entries -> FatValue]
    BY <2>2
  <2>4. Types'
    BY <1>1, <1>7, <2>1, <2>3 DEF Types
  <2>5. Links' = Links /\ Recs' = Recs
    BY <1>1, <1>7, <2>1, OneCopy DEF Types, Links, Recs, Rec
  <2>6. DiskOK(Links, Recs, home, rank, anc, currentCluster, Tail(todo), pc, job)
    BY <1>3, <1>7, CopyDone
  <2>7. DiskOK(Links', Recs', home, rank, anc, currentCluster', todo', pc', job')
    BY <2>5, <2>6, <1>1
  <2> QED  BY <2>4, <2>7, Primed
<1>8. CASE /\ t.w = "sector" /\ UNCHANGED fat
           /\ data' = [data EXCEPT ![t.cluster][t.sector] = t.val]
  <2> DEFINE c == t.cluster
             s == t.sector
             v == t.val
  <2>1. /\ c \in Cluster /\ s \in Sector /\ v \in SecType
        /\ todo[1] = SetSector(c, s, v)
    BY <1>5, <1>8 DEF SectorWrite
  <2>2. SectorOK(Links, Recs, home, anc, currentCluster, todo, 1)
    BY <1>4, <1>8 DEF QueueOK
  <2>3. Types' /\ Links' = Links
    BY <1>1, <1>8, <2>1 DEF Types, Links
  <2>4. /\ \A y \in Place : Recs[y] = Rec(y)
        /\ Recs' = [y \in Place |-> IF y.cluster = c /\ y.sector = s
                                    THEN v.recs[y.pos] ELSE Recs[y]]
    <3>1. ASSUME NEW y \in Place
          PROVE  data'[y.cluster][y.sector].recs[y.pos] =
                   IF y.cluster = c /\ y.sector = s THEN v.recs[y.pos]
                   ELSE data[y.cluster][y.sector].recs[y.pos]
      BY <1>1, <1>8, <2>1 DEF Types, Place
    <3> QED  BY <3>1 DEF Recs, Rec
  <2>5. /\ todo[1].cluster = c /\ todo[1].sector = s /\ todo[1].val = v
    OBVIOUS
  <2> HIDE DEF c, s, v, t
  <2>6. CASE (\A p \in Pos : v.recs[p] = ZeroRec) /\ ~Anchored(Recs, home[c])
    <3>1. Recs' = Blanked(Recs, c, s)
      BY <2>4, <2>6 DEF Blanked, Place
    <3>2. DiskOK(Links, Blanked(Recs, c, s), home, rank, anc, currentCluster,
                 Tail(todo), pc, job)
      BY <2>1, <2>6, <1>3, BlankDone
    <3>3. DiskOK(Links', Recs', home, rank, anc, currentCluster', todo', pc', job')
      BY <3>1, <3>2, <2>3, <1>1
    <3> QED  BY <2>3, <3>3, Primed
  <2>7. ASSUME Len(todo) = 1, NEW p \in Pos,
               RecordOK(Links, Recs, home, anc, currentCluster, Spot(c, s, p), v.recs[p]),
               \A o \in Pos \ {p} : v.recs[o] = Recs[Spot(c, s, o)]
        PROVE  DInv'
    <3> DEFINE x == Spot(c, s, p)
    <3>1. x \in Place /\ x.cluster = c /\ x.sector = s /\ x.pos = p
      BY <2>1 DEF Spot, Place
    <3>2. v.recs[p] \in RecType
      BY <2>1 DEF SecType
    <3>3. ASSUME NEW y \in Place, y.cluster = c, y.sector = s, y # x
          PROVE  v.recs[y.pos] = Recs[y]
      <4>1. y = Spot(c, s, y.pos) /\ y.pos \in Pos /\ y.pos # p
        BY <3>1, <3>3 DEF Spot, Place
      <4> QED  BY <4>1, <2>7
    <3> HIDE DEF x
    <3>4. Recs' = [Recs EXCEPT ![x] = v.recs[x.pos]]
      <4>1. Recs = [y \in Place |-> Recs[y]]
        BY DEF Recs
      <4> QED  BY <4>1, <3>1, <3>3, <2>4
    <3>5. DiskOK(Links, [Recs EXCEPT ![x] = v.recs[x.pos]], home, rank, anc, currentCluster,
                 Tail(todo), pc, job)
      BY <3>1, <3>2, <2>1, <2>7, <1>3, RecordDone DEF x
    <3>6. DiskOK(Links', Recs', home, rank, anc, currentCluster', todo', pc', job')
      BY <3>4, <3>5, <2>3, <1>1
    <3> QED  BY <2>3, <3>6, Primed
  <2> QED  BY <2>2, <2>5, <2>6, <2>7 DEF SectorOK
<1> QED  BY <1>4, <1>6, <1>7, <1>8 DEF writeDiskSector

----------------------------------------------------------------------------
\* What the routines queue.

LEMMA JoinedWrites ==
  ASSUME NEW s \in Seq(Write), NEW t \in Seq(Write)
  PROVE  /\ s \o t \in Seq(Write) /\ Len(s) \in Nat /\ Len(t) \in Nat
         /\ \A i \in DOMAIN (s \o t) :
              \/ i \in DOMAIN s /\ (s \o t)[i] = s[i]
              \/ /\ i > Len(s) /\ i - Len(s) \in DOMAIN t
                 /\ (s \o t)[i] = t[i - Len(s)]
         /\ \A w : Has(s \o t, w) <=> Has(s, w) \/ Has(t, w)
<1>1. /\ s \o t \in Seq(Write) /\ Len(s) \in Nat /\ Len(t) \in Nat
      /\ Len(s \o t) = Len(s) + Len(t)
      /\ DOMAIN s = 1..Len(s) /\ DOMAIN t = 1..Len(t)
      /\ DOMAIN (s \o t) = 1..(Len(s) + Len(t))
      /\ \A i \in 1..Len(s) : (s \o t)[i] = s[i]
      /\ \A i \in 1..Len(t) : (s \o t)[Len(s) + i] = t[i]
  <2>1. /\ s \o t \in Seq(Write) /\ Len(s) \in Nat /\ Len(t) \in Nat
        /\ Len(s \o t) = Len(s) + Len(t)
        /\ DOMAIN s = 1..Len(s) /\ DOMAIN t = 1..Len(t)
        /\ DOMAIN (s \o t) = 1..(Len(s) + Len(t))
    OBVIOUS
  <2>2. /\ \A i \in 1..Len(s) : (s \o t)[i] = s[i]
        /\ \A i \in 1..Len(t) : (s \o t)[Len(s) + i] = t[i]
    BY JoinedElements, SeqOfElements
  <2> QED  BY ONLY <2>1, <2>2
<1> DEFINE u == s \o t
<1> HIDE DEF u
<1>2. /\ Len(s) \in Nat /\ Len(t) \in Nat
      /\ DOMAIN s = 1..Len(s) /\ DOMAIN t = 1..Len(t)
      /\ DOMAIN u = 1..(Len(s) + Len(t))
      /\ \A i \in 1..Len(s) : u[i] = s[i]
      /\ \A i \in 1..Len(t) : u[Len(s) + i] = t[i]
  BY <1>1 DEF u
<1>3. ASSUME NEW i \in DOMAIN u
      PROVE  \/ i \in DOMAIN s /\ u[i] = s[i]
             \/ i > Len(s) /\ i - Len(s) \in DOMAIN t /\ u[i] = t[i - Len(s)]
  <2>1. CASE i <= Len(s)
    BY <1>2, <2>1
  <2>2. CASE i > Len(s)
    <3>1. i - Len(s) \in 1..Len(t) /\ Len(s) + (i - Len(s)) = i
      BY <1>2, <2>2
    <3>2. u[Len(s) + (i - Len(s))] = t[i - Len(s)]
      BY <3>1, <1>2
    <3> QED  BY <2>2, <3>1, <3>2, <1>2
  <2> QED  BY <1>2, <2>1, <2>2
<1>4. ASSUME NEW w, Has(s, w) \/ Has(t, w) PROVE Has(u, w)
  <2>1. \A i \in DOMAIN s : i \in DOMAIN u /\ u[i] = s[i]
    BY <1>2
  <2>2. \A i \in DOMAIN t : Len(s) + i \in DOMAIN u /\ u[Len(s) + i] = t[i]
    BY <1>2
  <2> QED  BY <1>4, <2>1, <2>2 DEF Has
<1>5. \A w : Has(u, w) => Has(s, w) \/ Has(t, w)
  BY <1>3 DEF Has
<1> QED  BY <1>1, <1>3, <1>4, <1>5 DEF u

\* An update of the table is its entry and copies.
LEMMA UpdateWrites ==
  ASSUME NEW c \in Entries, NEW v \in {FREE, END_CLUSTER} \cup Cluster
  PROVE  LET u == updateEveryFat(c, v)
         IN  /\ u \in Seq(Write) /\ u # <<>> /\ 1 \in DOMAIN u
             /\ u[1] = SetEntry(c, v) /\ Has(u, SetEntry(c, v))
             /\ \A i \in DOMAIN u : i # 1 => i > 1 /\ u[i].w = "copy"
<1> DEFINE e == <<SetEntry(c, v)>>
           k == [i \in 1..(nbFats - 1) |-> CopyEntry(c, i + 1)]
<1>1. SetEntry(c, v) \in Write
  BY DEF SetEntry, Write, EntryWrite
<1>2. e \in Seq(Write) /\ Len(e) = 1 /\ e[1] = SetEntry(c, v) /\ DOMAIN e = {1}
  <2> HIDE DEF e
  <2>1. \A x \in Write : <<x>> \in Seq(Write) /\ Len(<<x>>) = 1 /\ <<x>>[1] = x
                         /\ DOMAIN <<x>> = {1}
    OBVIOUS
  <2> QED  BY <1>1, <2>1 DEF e
<1>3. nbFats - 1 \in Nat
  BY Fat32Assumption
<1>4. \A i \in 1..(nbFats - 1) : CopyEntry(c, i + 1) \in Write /\ CopyEntry(c, i + 1).w = "copy"
  BY Fat32Assumption DEF CopyEntry, Write, CopyWrite
<1>5. k \in [1..(nbFats - 1) -> Write]
  BY <1>4
<1>6. k \in Seq(Write) /\ DOMAIN k = 1..(nbFats - 1) /\ \A i \in DOMAIN k : k[i].w = "copy"
  BY <1>3, <1>4, <1>5, FunctionSeq
<1> HIDE DEF e, k
<1> DEFINE u == e \o k
<1>7. /\ u \in Seq(Write)
      /\ \A i \in DOMAIN u : \/ i \in DOMAIN e /\ u[i] = e[i]
                             \/ /\ i > Len(e) /\ i - Len(e) \in DOMAIN k
                                /\ u[i] = k[i - Len(e)]
      /\ \A w : Has(u, w) <=> Has(e, w) \/ Has(k, w)
  BY <1>2, <1>6, JoinedWrites
<1> HIDE DEF u
<1>8. Has(u, SetEntry(c, v))
  BY <1>2, <1>7 DEF Has
<1>9. DOMAIN u = 1..Len(u) /\ Len(u) \in Nat
  BY <1>7
<1>10. u # <<>> /\ 1 \in DOMAIN u
  <2>1. \E i \in DOMAIN u : TRUE
    BY <1>8 DEF Has
  <2>2. 1 \in DOMAIN u
    BY <1>9, <2>1
  <2> QED  BY <1>9, <2>2
<1>11. u[1] = SetEntry(c, v)
  BY <1>2, <1>7, <1>10
<1>12. \A i \in DOMAIN u : i # 1 => i > 1 /\ u[i].w = "copy"
  BY <1>2, <1>6, <1>7
<1> QED  BY <1>7, <1>8, <1>10, <1>11, <1>12 DEF updateEveryFat, u, e, k

LEMMA ZeroSectorKnown == ZeroSector \in SecType /\ \A p \in Pos : ZeroSector.recs[p] = ZeroRec
BY NamesKnown DEF ZeroSector, SecType, TextType

LEMMA WipeWrites ==
  ASSUME NEW n \in Cluster
  PROVE  /\ Wipe(n) \in Seq(Write)
         /\ \A i \in DOMAIN Wipe(n) :
              \E s \in Sector : Wipe(n)[i] = SetSector(n, s, ZeroSector)
         /\ \A s \in Sector : Has(Wipe(n), SetSector(n, s, ZeroSector))
<1>1. \A i \in 1..sectorPerCluster : i - 1 \in Sector
  BY Fat32Assumption DEF Sector
<1>2. \A s \in Sector : SetSector(n, s, ZeroSector) \in Write
  BY ZeroSectorKnown DEF SetSector, Write, SectorWrite
<1>3. Wipe(n) \in [1..sectorPerCluster -> Write]
  BY <1>1, <1>2 DEF Wipe
<1>4. Wipe(n) \in Seq(Write) /\ DOMAIN Wipe(n) = 1..sectorPerCluster
  BY <1>3, FunctionSeq, Fat32Assumption
<1>5. \A s \in Sector : s + 1 \in 1..sectorPerCluster /\ Wipe(n)[s + 1] = SetSector(n, s, ZeroSector)
  BY Fat32Assumption DEF Sector, Wipe
<1>6. \A s \in Sector : Has(Wipe(n), SetSector(n, s, ZeroSector))
  BY <1>4, <1>5 DEF Has
<1>7. \A i \in DOMAIN Wipe(n) : \E s \in Sector : Wipe(n)[i] = SetSector(n, s, ZeroSector)
  BY <1>1, <1>4 DEF Wipe
<1> QED  BY <1>4, <1>6, <1>7

\* Cluster n is handed out, behind l unless that is 0, after the writes ws.
HandOut(ws, q, n, l) ==
  /\ q \in Seq(Write)
  /\ Has(q, SetEntry(n, END_CLUSTER))
  /\ \A s \in Sector : Has(q, SetSector(n, s, ZeroSector))
  /\ l # 0 => Has(q, SetEntry(l, n))
  /\ \A i \in DOMAIN q :
       \/ Has(ws, q[i]) \/ q[i] = SetEntry(n, END_CLUSTER) \/ q[i].w = "copy"
       \/ \E s \in Sector : q[i] = SetSector(n, s, ZeroSector)
       \/ /\ l # 0 /\ q[i] = SetEntry(l, n)
          /\ \A m \in DOMAIN q : m > i => q[m].w = "copy"

LEMMA AllocationWrites ==
  ASSUME NEW l \in {0} \cup Cluster, FirstFree \in Cluster, NEW ws \in Seq(Write)
  PROVE  HandOut(ws, ws \o allocateFreeCluster(l), FirstFree, l)
<1> DEFINE n == FirstFree
           m == updateEveryFat(n, END_CLUSTER)
           z == Wipe(n)
           k == IF l # 0 THEN updateEveryFat(l, n) ELSE <<>>
           a == m \o z
           b == a \o k
           q == ws \o b
<1>1. b = allocateFreeCluster(l)
  BY DEF allocateFreeCluster
<1>2. /\ m \in Seq(Write) /\ Has(m, SetEntry(n, END_CLUSTER))
      /\ \A i \in DOMAIN m : m[i] = SetEntry(n, END_CLUSTER) \/ m[i].w = "copy"
  BY UpdateWrites, Numbers
<1>3. /\ z \in Seq(Write)
      /\ \A i \in DOMAIN z : \E s \in Sector : z[i] = SetSector(n, s, ZeroSector)
      /\ \A s \in Sector : Has(z, SetSector(n, s, ZeroSector))
  BY WipeWrites
<1>4. /\ k \in Seq(Write)
      /\ l # 0 => Has(k, SetEntry(l, n))
      /\ \A i \in DOMAIN k : \/ k[i].w = "copy"
                             \/ l # 0 /\ k[i] = SetEntry(l, n) /\ i = 1
      /\ \A i \in DOMAIN k : i # 1 => k[i].w = "copy"
  <2>1. CASE l = 0
    <3>1. k = <<>>
      BY <2>1
    <3> HIDE DEF k
    <3>2. <<>> \in Seq(Write) /\ DOMAIN <<>> = {}
      OBVIOUS
    <3>3. k \in Seq(Write) /\ DOMAIN k = {}
      BY ONLY <3>1, <3>2
    <3> QED  BY <2>1, <3>3
  <2>2. CASE l # 0
    <3> HIDE DEF n
    <3>1. l \in Entries /\ n \in Cluster /\ k = updateEveryFat(l, n)
      BY <2>2, Numbers DEF n
    <3> HIDE DEF k
    <3> QED  BY <2>2, <3>1, UpdateWrites
  <2> QED  BY <2>1, <2>2
<1> HIDE DEF n, m, z, k
<1>5. /\ a \in Seq(Write)
      /\ \A i \in DOMAIN a : \/ i \in DOMAIN m /\ a[i] = m[i]
                             \/ i - Len(m) \in DOMAIN z /\ a[i] = z[i - Len(m)]
      /\ \A w : Has(a, w) <=> Has(m, w) \/ Has(z, w)
  BY <1>2, <1>3, JoinedWrites
<1> HIDE DEF a
<1>6. /\ b \in Seq(Write) /\ Len(a) \in Nat
      /\ \A i \in DOMAIN b : \/ i \in DOMAIN a /\ b[i] = a[i]
                             \/ /\ i > Len(a) /\ i - Len(a) \in DOMAIN k
                                /\ b[i] = k[i - Len(a)]
      /\ \A w : Has(b, w) <=> Has(a, w) \/ Has(k, w)
  BY <1>4, <1>5, JoinedWrites
<1> HIDE DEF b
<1>7. /\ q \in Seq(Write) /\ Len(ws) \in Nat
      /\ \A i \in DOMAIN q : \/ i \in DOMAIN ws /\ q[i] = ws[i]
                             \/ /\ i > Len(ws) /\ i - Len(ws) \in DOMAIN b
                                /\ q[i] = b[i - Len(ws)]
      /\ \A w : Has(q, w) <=> Has(ws, w) \/ Has(b, w)
  BY <1>6, JoinedWrites
<1> HIDE DEF q
<1>8. \A i \in DOMAIN a : /\ a[i].w # "entry" \/ a[i] = SetEntry(n, END_CLUSTER)
                          /\ \/ a[i] = SetEntry(n, END_CLUSTER) \/ a[i].w = "copy"
                             \/ \E s \in Sector : a[i] = SetSector(n, s, ZeroSector)
  BY <1>2, <1>3, <1>5 DEF SetEntry, SetSector
<1>9. ASSUME NEW i \in DOMAIN q, ~Has(ws, q[i])
      PROVE  \/ q[i] = SetEntry(n, END_CLUSTER) \/ q[i].w = "copy"
             \/ \E s \in Sector : q[i] = SetSector(n, s, ZeroSector)
             \/ /\ l # 0 /\ q[i] = SetEntry(l, n)
                /\ \A o \in DOMAIN q : o > i => q[o].w = "copy"
  <2> DEFINE y == i - Len(ws)
  <2>1. i > Len(ws) /\ y \in DOMAIN b /\ q[i] = b[y]
    BY <1>7, <1>9 DEF Has
  <2>2. DOMAIN b = 1..Len(b) /\ DOMAIN q = 1..Len(q)
        /\ DOMAIN a = 1..Len(a) /\ DOMAIN ws = 1..Len(ws)
    BY <1>5, <1>6, <1>7
  <2>3. CASE y \in DOMAIN a /\ b[y] = a[y]
    BY <2>1, <2>3, <1>8
  <2>4. CASE y > Len(a) /\ y - Len(a) \in DOMAIN k /\ b[y] = k[y - Len(a)]
    <3>1. b[y].w = "copy" \/ (l # 0 /\ b[y] = SetEntry(l, n))
      BY <2>4, <1>4
    <3>2. ASSUME NEW o \in DOMAIN q, o > i PROVE q[o].w = "copy"
      <4> DEFINE x == o - Len(ws)
      <4>1. x \in DOMAIN b /\ q[o] = b[x] /\ x > y
        BY <1>7, <2>1, <2>2, <3>2
      <4>2. x > Len(a) /\ x \notin DOMAIN a
        BY <4>1, <2>2, <2>4, <1>6
      <4>3. x - Len(a) \in DOMAIN k /\ b[x] = k[x - Len(a)]
        BY <4>1, <4>2, <1>6
      <4>4. x - Len(a) # 1
        <5>1. DOMAIN k = 1..Len(k) /\ Len(k) \in Nat
          BY <1>4
        <5>2. x \in Int /\ y \in Int /\ Len(a) \in Int
          BY <4>1, <2>2, <2>1, <1>6
        <5>3. y - Len(a) >= 1
          BY <2>4, <5>1
        <5> QED  BY <4>1, <5>2, <5>3
      <4> QED  BY <4>1, <4>3, <4>4, <1>4
    <3> QED  BY <2>1, <3>1, <3>2
  <2> QED  BY <2>1, <2>3, <2>4, <1>6
<1>10. HandOut(ws, q, n, l)
  BY <1>2, <1>3, <1>4, <1>5, <1>6, <1>7, <1>9 DEF HandOut
<1> QED  BY <1>1, <1>10 DEF q, n

LEMMA HandOutQueue ==
  ASSUME NEW f, NEW r, NEW home, NEW rank, TableOK(f, home, rank), RecordsOK(f, r, home),
         NEW n \in Cluster, f[n] = FREE, NEW l \in {0} \cup Cluster, NEW fst,
         l # 0 => f[l] = END_CLUSTER /\ home[l] \notin {0, n} /\ fst # n,
         NEW ws, NEW q, HandOut(ws, q, n, l),
         \A w : Has(ws, w) => /\ w.w = "sector" /\ \A p \in Pos : w.val.recs[p] = ZeroRec
                              /\ ~Anchored(r, home[w.cluster]),
         NEW anc, NEW cur
  PROVE  /\ QueueOK(f, r, Adopted(home, n), anc, cur, q, fst)
         /\ NoneFreed(q) /\ Plain(q)
<1> DEFINE h == Adopted(home, n)
<1>1. /\ TableOK(f, h, rank) /\ \A x \in Cluster : h[x] = n <=> x = n
      /\ \A x \in Cluster : home[x] # n => x = n \/ h[x] = home[x]
  BY AdoptTable
<1>2. ~Owned(r, n) /\ n # ROOT /\ ~Anchored(r, n)
  BY AdoptRecords, Numbers DEF Anchored
<1>3. \A x \in Cluster : ~Anchored(r, home[x]) => ~Anchored(r, h[x])
  <2>1. ~Anchored(r, 0)
    BY Numbers DEF Anchored
  <2> QED  BY <1>2, <2>1 DEF Adopted
<1>4. home[n] \in {0, n}
  BY FreeHome
<1> HIDE DEF h
<1>5. q \in Seq(Write) /\ \A i \in DOMAIN q : q[i] \in Write
  BY DEF HandOut
<1>6. ASSUME NEW i \in DOMAIN q, q[i].w = "entry"
      PROVE  EntryOK(f, r, h, anc, q, fst, i) /\ q[i].val # FREE
  <2>1. \/ q[i] = SetEntry(n, END_CLUSTER)
        \/ /\ l # 0 /\ q[i] = SetEntry(l, n)
           /\ \A m \in DOMAIN q : m > i => q[m].w = "copy"
    BY <1>6 DEF HandOut, SetSector
  <2>2. CASE q[i] = SetEntry(n, END_CLUSTER)
    <3>1. MarkOK(f, n)
      BY DEF MarkOK
    <3> QED  BY <2>2, <3>1, Numbers DEF EntryOK, SetEntry
  <2>3. CASE /\ l # 0 /\ q[i] = SetEntry(l, n)
             /\ \A m \in DOMAIN q : m > i => q[m].w = "copy"
    <3>1. l \in Cluster /\ l # n /\ h[l] = home[l] /\ h[n] = n
      BY <2>3, <1>1, <1>4, Numbers
    <3>2. Has(q, SetEntry(n, END_CLUSTER)) /\ Wiped(r, q, n)
      BY DEF HandOut, Wiped, Place
    <3>3. LinkOK(f, r, h, q, fst, l, n)
      BY <2>3, <3>1, <3>2, <1>1, <1>2 DEF LinkOK
    <3>4. q[i].val = n /\ q[i].cluster = l
      BY <2>3 DEF SetEntry
    <3> QED  BY <2>3, <3>3, <3>4, Numbers DEF EntryOK
  <2> QED  BY <2>1, <2>2, <2>3
<1>7. ASSUME NEW i \in DOMAIN q, q[i].w = "sector"
      PROVE  /\ \A p \in Pos : q[i].val.recs[p] = ZeroRec
             /\ ~Anchored(r, h[q[i].cluster])
  <2>1. \/ Has(ws, q[i])
        \/ \E s \in Sector : q[i] = SetSector(n, s, ZeroSector)
    BY <1>7 DEF HandOut, SetEntry
  <2>2. CASE Has(ws, q[i])
    <3>1. q[i].cluster \in Cluster
      BY <1>5, <1>7, WriteKinds DEF SectorWrite
    <3> QED  BY <2>2, <3>1, <1>3
  <2>3. CASE \E s \in Sector : q[i] = SetSector(n, s, ZeroSector)
    <3>1. q[i].cluster = n /\ q[i].val = ZeroSector
      BY <2>3 DEF SetSector
    <3>2. h[n] = n
      BY <1>1
    <3> QED  BY <3>1, <3>2, <1>2, ZeroSectorKnown
  <2> QED  BY <2>1, <2>2, <2>3
<1>8. QueueOK(f, r, h, anc, cur, q, fst) /\ NoneFreed(q) /\ Plain(q)
  BY <1>5, <1>6, <1>7 DEF QueueOK, SectorOK, NoneFreed, Plain
<1> QED  BY <1>8 DEF h

\* The chain a routine walks keeps its clusters when another one is handed out.
LEMMA HandOutAt ==
  ASSUME NEW f, NEW home, NEW n \in Cluster, f[n] = FREE,
         home \in [Cluster -> {0} \cup Cluster], NEW q,
         NEW c, NEW g, g # n, At(f, home, <<>>, c, g)
  PROVE  At(f, Adopted(home, n), q, c, g) /\ f[c] # FREE /\ home[c] = g /\ c \in Cluster
<1>1. \A w : ~Has(<<>>, w)
  BY DEF Has
<1>2. c \in Cluster /\ f[c] # FREE /\ home[c] = g
  BY <1>1 DEF At, Used
<1> QED  BY <1>2 DEF At, Used, Adopted

LEMMA AtRest ==
  ASSUME NEW f, NEW home, NEW c, NEW g
  PROVE  At(f, home, <<>>, c, g) <=> c \in Cluster /\ f[c] # FREE /\ home[c] = g
<1>1. \A w : ~Has(<<>>, w)
  BY DEF Has
<1> QED  BY <1>1 DEF At, Used

\* A routine that waits, or goes on, while q is queued.
LEMMA FrameStep ==
  ASSUME NEW f, NEW r, NEW home, NEW anc, NEW cur, NEW j \in JobType, NEW x, NEW z,
         FrameOK(f, r, home, anc, cur, <<>>, j, x), RecordsOK(f, r, home),
         z.r = x.r, x.r # "removeFATChain",
         NEW h, NEW q, NoneFreed(q), Plain(q), NEW i \in JobType,
         i.fst = j.fst, i.name = j.name, i.cmd = j.cmd,
         HitOK(r, home, cur, j) => HitOK(r, home, cur, i),
         x.r = "readFile" => i.hit = j.hit,
         \A c \in Cluster : Anchored(r, home[c]) => h[c] = home[c],
         Anchored(r, cur),
         \A y \in Place : h[y.cluster] = j.fst => home[y.cluster] = j.fst \/ j.fst = 0,
         \A c \in Cluster : home[c] = c /\ f[c] # FREE => h[c] = c,
         \A c, g : /\ At(f, home, <<>>, c, g)
                   /\ Anchored(r, g) \/ (g = j.fst /\ g # 0)
                   => At(f, h, q, c, g),
         \A g : /\ At(f, home, <<>>, x.cluster, g)
                /\ Anchored(r, g) \/ (g = j.fst /\ g # 0)
                => At(f, h, q, z.cluster, g)
  PROVE  FrameOK(f, r, h, anc, cur, q, i, z)
<1>1. i.hit = NOWHERE \/ i.hit \in Place
  BY DEF JobType
<1>2. HitOK(r, home, cur, i) => HitOK(r, h, cur, i)
  BY <1>1, PlaceCluster DEF HitOK
<1>3. x.r \in {"list_files", "mkdir", "cd", "rm", "rmold", "read"} => HitOK(r, h, cur, i)
  BY <1>2 DEF FrameOK
<1>4. x.r \in {"list_files", "add"} => At(f, h, q, z.cluster, cur)
  BY DEF FrameOK
<1>5. x.r = "readFile" =>
        /\ i.hit # NOWHERE /\ HitOK(r, h, cur, i) /\ r[i.hit].name \in Names
        /\ At(f, h, q, z.cluster, HitFst(r, i))
  <2> HAVE x.r = "readFile"
  <2>1. /\ j.hit # NOWHERE /\ HitOK(r, home, cur, j) /\ r[j.hit].name \in Names
        /\ At(f, home, <<>>, x.cluster, HitFst(r, j)) /\ i.hit = j.hit
    BY DEF FrameOK
  <2>2. Anchored(r, HitFst(r, j)) /\ HitFst(r, j) = HitFst(r, i)
    BY <1>1, <2>1 DEF HitFst, Anchored, Owned, Owner
  <2> QED  BY <1>2, <2>1, <2>2
<1>6. x.r \in {"content", "add"} => FreshOK(f, r, h, q, i)
  <2> HAVE x.r \in {"content", "add"}
  <2>1. FreshOK(f, r, home, <<>>, j) /\ j.fst # 0
    BY Numbers DEF FrameOK, FreshOK
  <2>2. \A w : ~Has(<<>>, w)
    BY DEF Has
  <2>3. At(f, home, <<>>, j.fst, j.fst)
    BY <2>1 DEF At, FreshOK
  <2>4. At(f, h, q, j.fst, j.fst)
    BY <2>1, <2>3
  <2>5. \A y \in Place : h[y.cluster] = j.fst => r[y] = ZeroRec
    BY <2>1, <2>2 DEF FreshOK
  <2>6. h[j.fst] = j.fst
    BY <2>1, <2>2 DEF FreshOK, Used
  <2> QED  BY <2>1, <2>4, <2>5, <2>6 DEF FreshOK, At
<1>7. x.r \in {"content", ".", ".."} => j.fst # 0
  BY Numbers DEF FrameOK, FreshOK
<1>8. x.r \in {"content", ".", ".."} => At(f, h, q, z.cluster, i.fst)
  BY <1>7 DEF FrameOK
<1>9. x.r \in {".", ".."} =>
        /\ i.fst \in Cluster /\ i.fst # ROOT /\ At(f, h, q, i.fst, i.fst)
        /\ \A y \in Place : Owner(r, y, i.fst) => h[y.cluster] = cur
  <2> HAVE x.r \in {".", ".."}
  <2>1. /\ j.fst \in Cluster /\ j.fst # ROOT /\ At(f, home, <<>>, j.fst, j.fst)
        /\ \A y \in Place : Owner(r, y, j.fst) => home[y.cluster] = cur
    BY DEF FrameOK
  <2> QED  BY <1>7, <2>1, PlaceCluster
<1>10. x.r \notin Freeing => \A k \in DOMAIN q : ~(q[k].w = "entry" /\ q[k].val = FREE)
  BY DEF NoneFreed
<1> QED  BY <1>3, <1>4, <1>5, <1>6, <1>8, <1>9, <1>10 DEF FrameOK


----------------------------------------------------------------------------
\* The stack of routines.

LEMMA Stack ==
  ASSUME NEW p \in Seq(FrameType), p # <<>>
  PROVE  /\ Head(p) = p[1] /\ p[1] \in FrameType /\ 1 \in DOMAIN p
         /\ Tail(p) \in Seq(FrameType) /\ Len(p) \in Nat /\ Len(p) >= 1
         /\ Len(Tail(p)) = Len(p) - 1 /\ DOMAIN p = 1..Len(p)
         /\ \A i \in DOMAIN Tail(p) : i + 1 \in DOMAIN p /\ i + 1 # 1 /\ Tail(p)[i] = p[i + 1]
OBVIOUS

LEMMA Replaced ==
  ASSUME NEW p \in Seq(FrameType), p # <<>>, NEW z \in FrameType
  PROVE  LET s == <<z>> \o Tail(p)
         IN  /\ s \in Seq(FrameType) /\ s # <<>> /\ Len(s) = Len(p) /\ s[1] = z
             /\ \A i \in DOMAIN s : i \in DOMAIN p /\ (i # 1 => s[i] = p[i])
<1> DEFINE t == Tail(p)
           s == <<z>> \o t
<1>1. /\ t \in Seq(FrameType) /\ Len(p) \in Nat /\ Len(p) >= 1 /\ Len(t) = Len(p) - 1
      /\ DOMAIN p = 1..Len(p) /\ \A i \in DOMAIN t : t[i] = p[i + 1]
  BY Stack
<1> HIDE DEF t
<1>2. DOMAIN t = 1..Len(t)
  BY <1>1
<1>3. <<z>> \in Seq(FrameType) /\ Len(<<z>>) = 1 /\ <<z>>[1] = z
  OBVIOUS
<1>4. s \in Seq(FrameType) /\ Len(s) = Len(t) + 1 /\ DOMAIN s = 1..(Len(t) + 1)
  BY <1>1, <1>3
<1>5. s[1] = z /\ \A i \in 1..Len(t) : s[i + 1] = t[i]
  <2>1. IsSeq(t) /\ IsSeq(<<z>>)
    BY <1>1, <1>3, SeqOfElements
  <2>2. /\ \A i \in 1..Len(<<z>>) : s[i] = <<z>>[i]
        /\ \A i \in 1..Len(t) : s[Len(<<z>>) + i] = t[i]
    BY <2>1, JoinedElements
  <2>3. Len(t) \in Nat
    BY <1>1
  <2>4. \A i \in 1..Len(t) : 1 + i = i + 1
    BY <2>3
  <2> HIDE DEF s
  <2> QED  BY <1>3, <2>2, <2>4
<1> HIDE DEF s
<1>6. s # <<>>
  BY <1>4, <1>1
<1>7. ASSUME NEW i \in DOMAIN s, i # 1 PROVE s[i] = p[i]
  <2>1. i - 1 \in 1..Len(t) /\ (i - 1) + 1 = i
    BY <1>1, <1>4, <1>7
  <2>2. s[(i - 1) + 1] = t[i - 1] /\ t[i - 1] = p[(i - 1) + 1]
    BY <2>1, <1>1, <1>2, <1>5
  <2> QED  BY <2>1, <2>2
<1>8. s \in Seq(FrameType) /\ Len(s) = Len(p) /\ \A i \in DOMAIN s : i \in DOMAIN p
  BY <1>1, <1>4
<1> QED  BY <1>5, <1>6, <1>7, <1>8 DEF s, t

LEMMA ReplacedShape ==
  ASSUME NEW p \in Seq(FrameType), p # <<>>, Shape(p), NEW z \in FrameType,
         z.r = p[1].r \/ (p[1].r \in {"rm", "rmold"} /\ z.r = "removeFATChain")
  PROVE  Shape(<<z>> \o Tail(p))
<1> DEFINE s == <<z>> \o Tail(p)
<1>1. /\ s \in Seq(FrameType) /\ s # <<>> /\ Len(s) = Len(p) /\ s[1] = z
      /\ \A i \in DOMAIN s : i \in DOMAIN p /\ (i # 1 => s[i] = p[i])
  BY Replaced
<1> HIDE DEF s
<1>2. (Len(s) >= 2 => s[2] = p[2]) /\ (Len(s) >= 3 => s[3] = p[3])
  <2>1. DOMAIN s = 1..Len(s) /\ Len(s) \in Nat
    BY <1>1
  <2> QED  BY <1>1, <2>1
<1>3. Shape(s)
  BY <1>1, <1>2 DEF Shape
<1> QED  BY <1>3 DEF s

LEMMA DroppedShape ==
  ASSUME NEW p \in Seq(FrameType), p # <<>>, Shape(p)
  PROVE  Shape(Tail(p))
<1> DEFINE s == Tail(p)
<1>1. /\ s \in Seq(FrameType) /\ Len(p) \in Nat /\ Len(p) >= 1 /\ Len(s) = Len(p) - 1
      /\ \A i \in DOMAIN s : s[i] = p[i + 1]
  BY Stack
<1> HIDE DEF s
<1>2. (Len(s) >= 1 => s[1] = p[2]) /\ (Len(s) >= 2 => s[2] = p[3])
  <2>1. DOMAIN s = 1..Len(s) /\ Len(s) \in Nat
    BY <1>1
  <2> QED  BY <1>1, <2>1
<1>3. Len(s) = 0 => s = <<>>
  BY <1>1, EmptySeq
<1>4. Shape(s)
  BY <1>1, <1>2, <1>3 DEF Shape
<1> QED  BY <1>4 DEF s

----------------------------------------------------------------------------
\* The first and the last of some numbers.

LEMMA LeastIn ==
  ASSUME NEW T \in SUBSET Nat, T # {}
  PROVE  Least(T) \in T /\ \A y \in T : Least(T) <= y
<1>1. PICK x \in T : \A y \in T : ~(<<y, x>> \in OpToRel(<, Nat))
  BY NatLessThanWellFounded, WFMin
<1>2. \A y \in T : ~(y < x)
  BY <1>1 DEF OpToRel
<1>3. \A y \in T : x <= y
  BY <1>2
<1> QED  BY <1>3 DEF Least

LEMMA GreatestIn ==
  ASSUME NEW T \in SUBSET Pos, T # {}
  PROVE  Greatest(T) \in T
<1> DEFINE M == {RECORDS - p : p \in T}
<1>1. RECORDS \in Nat /\ \A p \in T : p \in Nat /\ RECORDS - p \in Nat
  BY Fat32Assumption DEF Pos
<1>2. M \in SUBSET Nat /\ M # {}
  BY <1>1
<1>3. PICK m \in M : \A y \in M : m <= y
  <2> HIDE DEF M
  <2> QED  BY <1>2, LeastIn
<1>4. PICK p \in T : m = RECORDS - p
  BY <1>3
<1>5. \A o \in T : o <= p
  <2> TAKE o \in T
  <2>1. RECORDS - p <= RECORDS - o
    BY <1>3, <1>4
  <2> QED  BY <2>1, <1>1
<1> QED  BY <1>5 DEF Greatest

LEMMA FirstFreeIs ==
  ASSUME FreeClusters # {}
  PROVE  FirstFree \in Cluster /\ Links[FirstFree] = FREE
<1>1. FreeClusters \in SUBSET Nat
  BY DEF FreeClusters, Cluster
<1>2. \E c \in FreeClusters : \A d \in FreeClusters : c <= d
  BY <1>1, LeastIn
<1>3. FirstFree \in FreeClusters
  BY <1>2 DEF FirstFree
<1> QED  BY <1>3 DEF FreeClusters, Links

----------------------------------------------------------------------------
\* What a routine leaves to the others.

LEMMA Settled ==
  ASSUME DInv, UNCHANGED <<disk, cuts>>, halted' \in BOOLEAN, NEW home, NEW rank, NEW anc,
         DiskOK(Links, Recs, home, rank, anc, currentCluster', todo', pc', job')
  PROVE  DInv'
<1>1. Links' = Links /\ Recs' = Recs
  BY SameDisk
<1>2. Types'
  BY DEF DInv, Types, disk
<1>3. DiskOK(Links', Recs', home, rank, anc, currentCluster', todo', pc', job')
  BY <1>1
<1> QED  BY <1>2, <1>3, Primed

\* The last routine of a command leaves no job.
LEMMA Ended ==
  ASSUME NEW f, NEW r, NEW home, NEW rank, NEW anc, NEW cur, NEW q, NEW p, NEW j,
         DiskOK(f, r, home, rank, anc, cur, q, p, j)
  PROVE  DiskOK(f, r, home, rank, anc, cur, q, p, IF p = <<>> THEN NoJob ELSE j)
<1>1. CASE p # <<>>
  BY <1>1
<1>2. CASE p = <<>>
  <2>1. NoJob \in JobType /\ NoJob.fst = 0
    <3>1. <<>> \in Seq(TextType)
      OBVIOUS
    <3> QED  BY <3>1 DEF NoJob, JobType
  <2>2. DOMAIN p = {}
    BY <1>2
  <2>3. FramesOK(f, r, home, anc, cur, q, p, NoJob)
    BY <2>1, <2>2 DEF DiskOK, FramesOK
  <2>4. QueueOK(f, r, home, anc, cur, q, NoJob.fst)
    <3>1. ASSUME NEW l, NEW n, LinkOK(f, r, home, q, j.fst, l, n)
          PROVE  LinkOK(f, r, home, q, NoJob.fst, l, n)
      BY <2>1, <3>1, Numbers DEF LinkOK
    <3>2. ASSUME NEW i \in DOMAIN q, EntryOK(f, r, home, anc, q, j.fst, i)
          PROVE  EntryOK(f, r, home, anc, q, NoJob.fst, i)
      BY <3>1, <3>2, Numbers DEF EntryOK
    <3> QED  BY <3>2 DEF DiskOK, QueueOK
  <2> QED  BY <1>2, <2>3, <2>4 DEF DiskOK
<1> QED  BY <1>1, <1>2

\* The homes stay, or the free cluster n is handed out.
Handed(f, home, h, n) ==
  h = home \/ (n \in Cluster /\ f[n] = FREE /\ h = Adopted(home, n))

LEMMA HandedHomes ==
  ASSUME NEW f, NEW r, NEW home, NEW rank, TableOK(f, home, rank), RecordsOK(f, r, home),
         NEW h, NEW n, Handed(f, home, h, n)
  PROVE  /\ TableOK(f, h, rank) /\ RecordsOK(f, r, h)
         /\ \A c \in Cluster : Anchored(r, home[c]) => h[c] = home[c]
         /\ \A c \in Cluster : home[c] = c /\ f[c] # FREE => h[c] = c
         /\ \A c, g : /\ c \in Cluster /\ f[c] # FREE /\ home[c] = g
                      /\ Anchored(r, g) \/ (g # 0 /\ f[g] # FREE)
                      => h[c] = g
         /\ \A c \in Cluster, g \in Cluster : h[c] = g /\ f[g] # FREE => home[c] = g
<1>1. CASE h = home
  BY <1>1
<1>2. CASE n \in Cluster /\ f[n] = FREE /\ h = Adopted(home, n)
  <2>1. TableOK(f, h, rank) /\ RecordsOK(f, r, h) /\ ~Anchored(r, n)
    BY <1>2, AdoptTable, AdoptRecords, Numbers DEF Anchored
  <2>2. \A c \in Cluster : h[c] = IF c = n THEN n ELSE IF home[c] = n THEN 0 ELSE home[c]
    BY <1>2 DEF Adopted
  <2>3. home[n] \in {0, n} /\ ~Anchored(r, 0)
    BY <1>2, FreeHome, Numbers DEF Anchored
  <2> QED  BY <1>2, <2>1, <2>2, <2>3, Numbers
<1> QED  BY <1>1, <1>2 DEF Handed

\* A routine stays at its cluster, goes to the next one or to the one handed
\* out.
Goes(f, home, h, q, n, c, d) ==
  \/ d = c
  \/ f[c] \in Cluster /\ d = f[c]
  \/ /\ f[c] = END_CLUSTER /\ d = n /\ n \in Cluster /\ h = Adopted(home, n) /\ f[n] = FREE
     /\ Has(q, SetEntry(n, END_CLUSTER)) /\ Has(q, SetEntry(c, n))

LEMMA FstUsed ==
  ASSUME NEW f, NEW r, NEW home, NEW anc, NEW cur, NEW j, NEW x,
         FrameOK(f, r, home, anc, cur, <<>>, j, x)
  PROVE  j.fst = 0 \/ (j.fst \in Cluster /\ f[j.fst] # FREE)
<1>1. \A w : ~Has(<<>>, w)
  BY DEF Has
<1> QED  BY <1>1, AtRest DEF FrameOK, FreshOK, Used

LEMMA FrameGoes ==
  ASSUME NEW f, NEW r, NEW home, NEW rank, NEW anc, NEW cur, NEW j \in JobType, NEW x, NEW z,
         TableOK(f, home, rank), RecordsOK(f, r, home), PathOK(r, home, anc, cur),
         FrameOK(f, r, home, anc, cur, <<>>, j, x),
         z.r = x.r, x.r # "removeFATChain",
         NEW h, NEW n, Handed(f, home, h, n), NEW q, NoneFreed(q), Plain(q),
         NEW i \in JobType, i.fst = j.fst, i.name = j.name, i.cmd = j.cmd,
         HitOK(r, home, cur, j) => HitOK(r, home, cur, i),
         x.r = "readFile" => i.hit = j.hit,
         Goes(f, home, h, q, n, x.cluster, z.cluster)
  PROVE  FrameOK(f, r, h, anc, cur, q, i, z)
<1>1. /\ \A c \in Cluster : Anchored(r, home[c]) => h[c] = home[c]
      /\ \A c \in Cluster : home[c] = c /\ f[c] # FREE => h[c] = c
      /\ \A c, g : /\ c \in Cluster /\ f[c] # FREE /\ home[c] = g
                   /\ Anchored(r, g) \/ (g # 0 /\ f[g] # FREE)
                   => h[c] = g
      /\ \A c \in Cluster, g \in Cluster : h[c] = g /\ f[g] # FREE => home[c] = g
  BY HandedHomes
<1>2. Anchored(r, cur)
  BY PathAnchored
<1>3. j.fst = 0 \/ (j.fst \in Cluster /\ f[j.fst] # FREE)
  BY FstUsed
<1>4. \A y \in Place : h[y.cluster] = j.fst => home[y.cluster] = j.fst \/ j.fst = 0
  BY <1>1, <1>3, PlaceCluster
<1>5. ASSUME NEW c, NEW g, At(f, home, <<>>, c, g), Anchored(r, g) \/ (g = j.fst /\ g # 0)
      PROVE  At(f, h, q, c, g) /\ c \in Cluster /\ f[c] # FREE /\ home[c] = g /\ h[c] = g
  <2>1. c \in Cluster /\ f[c] # FREE /\ home[c] = g
    BY <1>5, AtRest
  <2>2. h[c] = g
    BY <1>1, <1>3, <1>5, <2>1
  <2> QED  BY <2>1, <2>2 DEF At, Used
<1>6. ASSUME NEW g, At(f, home, <<>>, x.cluster, g), Anchored(r, g) \/ (g = j.fst /\ g # 0)
      PROVE  At(f, h, q, z.cluster, g)
  <2>1. CASE z.cluster = x.cluster
    BY <2>1, <1>5, <1>6
  <2>2. CASE f[x.cluster] \in Cluster /\ z.cluster = f[x.cluster]
    <3>1. x.cluster \in Cluster /\ home[x.cluster] = g
      BY <1>5, <1>6
    <3>2. home[z.cluster] = g /\ f[z.cluster] # FREE
      BY <3>1, <2>2 DEF TableOK
    <3>3. At(f, home, <<>>, z.cluster, g)
      BY <3>2, <2>2, AtRest
    <3> QED  BY <3>3, <1>5, <1>6
  <2>3. CASE /\ f[x.cluster] = END_CLUSTER /\ z.cluster = n /\ n \in Cluster
             /\ Has(q, SetEntry(n, END_CLUSTER)) /\ Has(q, SetEntry(x.cluster, n))
    <3>1. x.cluster \in Cluster /\ h[x.cluster] = g
      BY <1>5, <1>6
    <3> QED  BY <2>3, <3>1 DEF At, Used
  <2> QED  BY <2>1, <2>2, <2>3 DEF Goes
<1> QED  BY <1>1, <1>2, <1>4, <1>5, <1>6, FrameStep

\* Only the routine on top frees a chain, or reads a file.
LEMMA OnTop ==
  ASSUME NEW p \in Seq(FrameType), Shape(p), NEW i \in DOMAIN p, i # 1
  PROVE  /\ p[i].r \in {"mkdir", "cd", "rm", "read", "writeFile", "add", ".", "..", "rmold"}
         /\ p[1].r \in {"add", "."} => p[i].r \in {".", ".."}
         /\ p[1].r \in {"rmold", "removeFATChain"} => p[i].r = "writeFile"
         /\ p[1].r \notin {"mkdir", "cd", "rm", "writeFile", "read", "readFile", ".."}
<1>1. i \in 1..Len(p) /\ Len(p) \in Nat
  OBVIOUS
<1>2. Len(p) > 3 => FALSE
  BY <1>1 DEF Shape
<1>3. i = 2 \/ i = 3
  BY <1>1, <1>2
<1>4. p # <<>>
  BY <1>1
<1> QED  BY <1>1, <1>3, <1>4 DEF Shape

\* The routine on top goes to z while q is queued; the others wait.
LEMMA StackGoes ==
  ASSUME NEW f, NEW r, NEW home, NEW rank, NEW anc, NEW cur, NEW p, NEW j,
         DiskOK(f, r, home, rank, anc, cur, <<>>, p, j), p # <<>>,
         NEW z \in FrameType, z.r = p[1].r, p[1].r # "removeFATChain",
         NEW h, NEW n, Handed(f, home, h, n), NEW q, NoneFreed(q), Plain(q),
         QueueOK(f, r, h, anc, cur, q, j.fst),
         NEW i \in JobType, i.fst = j.fst, i.name = j.name, i.cmd = j.cmd,
         HitOK(r, home, cur, j) => HitOK(r, home, cur, i),
         p[1].r = "list_files" \/ i.hit = j.hit,
         Goes(f, home, h, q, n, p[1].cluster, z.cluster)
  PROVE  DiskOK(f, r, h, rank, anc, cur, q, <<z>> \o Tail(p), i)
<1> DEFINE s == <<z>> \o Tail(p)
<1>1. /\ TableOK(f, home, rank) /\ RecordsOK(f, r, home) /\ PathOK(r, home, anc, cur)
      /\ p \in Seq(FrameType) /\ j \in JobType /\ Shape(p)
      /\ \A k \in DOMAIN p : FrameOK(f, r, home, anc, cur, <<>>, j, p[k])
  BY DEF DiskOK, FramesOK
<1>2. /\ s \in Seq(FrameType) /\ s # <<>> /\ Len(s) = Len(p) /\ s[1] = z
      /\ \A k \in DOMAIN s : k \in DOMAIN p /\ (k # 1 => s[k] = p[k])
  BY <1>1, Replaced
<1>3. Shape(s)
  BY <1>1, ReplacedShape
<1> HIDE DEF s
<1>4. /\ TableOK(f, h, rank) /\ RecordsOK(f, r, h)
      /\ \A c \in Cluster : Anchored(r, home[c]) => h[c] = home[c]
  BY <1>1, HandedHomes
<1>5. PathOK(r, h, anc, cur)
  BY <1>1, <1>4, PathKept, PlaceCluster
<1>6. ASSUME NEW k \in DOMAIN s PROVE FrameOK(f, r, h, anc, cur, q, i, s[k])
  <2>1. k \in DOMAIN p /\ FrameOK(f, r, home, anc, cur, <<>>, j, p[k])
    BY <1>1, <1>2
  <2>2. CASE k = 1
    <3>1. p[1].r = "readFile" => i.hit = j.hit
      OBVIOUS
    <3> QED  BY <2>1, <2>2, <3>1, <1>1, <1>2, FrameGoes
  <2>3. CASE k # 1
    <3>1. s[k] = p[k] /\ p[k].r # "removeFATChain" /\ p[k].r # "readFile"
      BY <2>1, <2>3, <1>1, <1>2, OnTop
    <3>2. Goes(f, home, h, q, n, p[k].cluster, p[k].cluster)
      BY DEF Goes
    <3> QED  BY <2>1, <3>1, <3>2, <1>1, FrameGoes
  <2> QED  BY <2>2, <2>3
<1>7. DiskOK(f, r, h, rank, anc, cur, q, s, i)
  BY <1>2, <1>3, <1>4, <1>5, <1>6 DEF DiskOK, FramesOK
<1> QED  BY <1>7 DEF s

\* The routine on top is done, with nothing to write.
LEMMA StackDrops ==
  ASSUME NEW f, NEW r, NEW home, NEW rank, NEW anc, NEW cur, NEW p, NEW j,
         DiskOK(f, r, home, rank, anc, cur, <<>>, p, j), p # <<>>,
         NEW i \in JobType, i.fst = j.fst, i.name = j.name, i.cmd = j.cmd,
         HitOK(r, home, cur, j) => HitOK(r, home, cur, i)
  PROVE  DiskOK(f, r, home, rank, anc, cur, <<>>, Tail(p), i)
<1> DEFINE s == Tail(p)
<1>1. /\ TableOK(f, home, rank) /\ RecordsOK(f, r, home) /\ PathOK(r, home, anc, cur)
      /\ p \in Seq(FrameType) /\ j \in JobType /\ Shape(p)
      /\ \A k \in DOMAIN p : FrameOK(f, r, home, anc, cur, <<>>, j, p[k])
      /\ QueueOK(f, r, home, anc, cur, <<>>, j.fst)
  BY DEF DiskOK, FramesOK
<1>2. /\ s \in Seq(FrameType)
      /\ \A k \in DOMAIN s : k + 1 \in DOMAIN p /\ k + 1 # 1 /\ s[k] = p[k + 1]
  BY <1>1, Stack
<1>3. Shape(s)
  BY <1>1, DroppedShape
<1> HIDE DEF s
<1>4. NoneFreed(<<>>) /\ Plain(<<>>)
  BY DEF NoneFreed, Plain
<1>5. ASSUME NEW k \in DOMAIN s PROVE FrameOK(f, r, home, anc, cur, <<>>, i, s[k])
  <2>1. /\ k + 1 \in DOMAIN p /\ s[k] = p[k + 1]
        /\ FrameOK(f, r, home, anc, cur, <<>>, j, p[k + 1])
        /\ p[k + 1].r # "removeFATChain" /\ p[k + 1].r # "readFile"
    BY <1>1, <1>2, OnTop
  <2>2. Goes(f, home, home, <<>>, 0, p[k + 1].cluster, p[k + 1].cluster)
    BY DEF Goes
  <2>3. Handed(f, home, home, 0)
    BY DEF Handed
  <2> QED  BY <2>1, <2>2, <2>3, <1>1, <1>4, FrameGoes
<1>6. DiskOK(f, r, home, rank, anc, cur, <<>>, s, i)
  BY <1>1, <1>2, <1>3, <1>5 DEF DiskOK, FramesOK
<1> QED  BY <1>6 DEF s

LEMMA Restacked ==
  ASSUME NEW p \in Seq(FrameType), p # <<>>
  PROVE  <<p[1]>> \o Tail(p) = p
<1> DEFINE s == <<p[1]>> \o Tail(p)
<1>1. p[1] \in FrameType
  BY Stack
<1>2. /\ s \in Seq(FrameType) /\ Len(s) = Len(p) /\ s[1] = p[1]
      /\ \A i \in DOMAIN s : i \in DOMAIN p /\ (i # 1 => s[i] = p[i])
  BY <1>1, Replaced
<1> HIDE DEF s
<1>3. /\ \A i \in 1..Len(p) : s[i] = p[i]
      /\ IsSeq(s) /\ IsSeq(p)
  BY <1>2, SeqOfElements
<1>4. s = [i \in 1..Len(p) |-> s[i]] /\ p = [i \in 1..Len(p) |-> p[i]]
  BY <1>2
<1>5. s = p
  BY <1>3, <1>4
<1> QED  BY <1>5 DEF s

Walking == {"list_files", "add", ".", "..", "content", "readFile"}

\* A routine that walks a chain is in a chain in use.
LEMMA WalkingAt ==
  ASSUME NEW f, NEW r, NEW home, NEW rank, NEW anc, NEW cur, NEW p, NEW j,
         DiskOK(f, r, home, rank, anc, cur, <<>>, p, j), p # <<>>, p[1].r \in Walking
  PROVE  /\ p[1].cluster \in Cluster /\ f[p[1].cluster] # FREE
         /\ home[p[1].cluster] \in Cluster /\ f[home[p[1].cluster]] # FREE
         /\ p[1].r \in {"list_files", "add"} => home[p[1].cluster] = cur
         /\ p[1].r \in {".", "..", "content"} => home[p[1].cluster] = j.fst
<1> DEFINE x == p[1]
<1>1. /\ RecordsOK(f, r, home) /\ PathOK(r, home, anc, cur) /\ p \in Seq(FrameType)
      /\ j \in JobType /\ \A i \in DOMAIN p : FrameOK(f, r, home, anc, cur, <<>>, j, p[i])
  BY DEF DiskOK, FramesOK
<1>2. FrameOK(f, r, home, anc, cur, <<>>, j, x)
  BY <1>1, Stack
<1> HIDE DEF x
<1>3. x.r \in Walking
  BY DEF x
<1>4. CASE x.r \in {"list_files", "add"}
  <2>1. At(f, home, <<>>, x.cluster, cur)
    BY <1>2, <1>4 DEF FrameOK
  <2>2. cur \in Cluster /\ f[cur] # FREE
    BY <1>1, PathAnchored, AnchoredHome
  <2> QED  BY <1>4, <2>1, <2>2, AtRest DEF x
<1>5. CASE x.r \in {".", "..", "content"}
  <2>1. At(f, home, <<>>, x.cluster, j.fst) /\ j.fst \in Cluster
    BY <1>2, <1>5 DEF FrameOK, FreshOK
  <2>2. f[j.fst] # FREE
    BY <1>2, <2>1, FstUsed, Numbers
  <2> QED  BY <1>5, <2>1, <2>2, AtRest DEF x
<1>6. CASE x.r = "readFile"
  <2>1. /\ At(f, home, <<>>, x.cluster, HitFst(r, j)) /\ j.hit \in Place
        /\ r[j.hit].name \in Names
    BY <1>1, <1>2, <1>6 DEF FrameOK, JobType
  <2>2. Anchored(r, HitFst(r, j))
    BY <2>1 DEF HitFst, Anchored, Owned, Owner
  <2>3. HitFst(r, j) \in Cluster /\ f[HitFst(r, j)] # FREE
    BY <1>1, <2>2, AnchoredHome
  <2> QED  BY <1>6, <2>1, <2>3, AtRest DEF x
<1> QED  BY <1>3, <1>4, <1>5, <1>6 DEF Walking

\* Blank sectors of chains nobody names.
Unnamed(r, home, ws) ==
  /\ ws \in Seq(Write)
  /\ \A w : Has(ws, w) => /\ w.w = "sector" /\ \A p \in Pos : w.val.recs[p] = ZeroRec
                          /\ ~Anchored(r, home[w.cluster])

LEMMA UnnamedQueue ==
  ASSUME NEW f, NEW r, NEW home, NEW ws, Unnamed(r, home, ws), NEW anc, NEW cur, NEW fst
  PROVE  QueueOK(f, r, home, anc, cur, ws, fst) /\ NoneFreed(ws) /\ Plain(ws)
<1>1. \A i \in DOMAIN ws : /\ ws[i].w = "sector" /\ \A p \in Pos : ws[i].val.recs[p] = ZeroRec
                           /\ ~Anchored(r, home[ws[i].cluster])
  BY DEF Unnamed, Has
<1> QED  BY <1>1 DEF Unnamed, QueueOK, SectorOK, NoneFreed, Plain

LEMMA SectorKeeps ==
  ASSUME DInv, todo = <<>>, pc # <<>>, Top.r \in Walking, NEW ws, NextSector(ws),
         UNCHANGED <<disk, currentCluster, cuts>>,
         NEW home, NEW rank, NEW anc,
         DiskOK(Links, Recs, home, rank, anc, currentCluster, <<>>, pc, job),
         Unnamed(Recs, home, ws),
         job' \in JobType, job'.fst = job.fst, job'.name = job.name, job'.cmd = job.cmd,
         HitOK(Recs, home, currentCluster, job) => HitOK(Recs, home, currentCluster, job'),
         Top.r = "list_files" \/ job'.hit = job.hit
  PROVE  DInv'
<1> DEFINE x == pc[1]
           c == x.cluster
<1>1. /\ TableOK(Links, home, rank) /\ RecordsOK(Links, Recs, home)
      /\ PathOK(Recs, home, anc, currentCluster) /\ pc \in Seq(FrameType) /\ job \in JobType
      /\ QueueOK(Links, Recs, home, anc, currentCluster, <<>>, job.fst)
  BY DEF DiskOK, FramesOK
<1>2. Top = x /\ x \in FrameType
  BY <1>1, Stack DEF Top
<1>3. /\ c \in Cluster /\ Links[c] # FREE /\ home[c] \in Cluster /\ Links[home[c]] # FREE
      /\ x.r \in Walking /\ x.r # "removeFATChain"
  BY <1>2, WalkingAt DEF Walking
<1>4. QueueOK(Links, Recs, home, anc, currentCluster, ws, job.fst) /\ NoneFreed(ws) /\ Plain(ws)
  BY UnnamedQueue
<1>5. ASSUME NEW z \in FrameType, z.r = x.r, NEW h, NEW n, Handed(Links, home, h, n),
             NoneFreed(todo'), Plain(todo'),
             QueueOK(Links, Recs, h, anc, currentCluster, todo', job.fst),
             Goes(Links, home, h, todo', n, c, z.cluster),
             pc' = <<z>> \o Tail(pc), halted' \in BOOLEAN
      PROVE  DInv'
  <2>1. DiskOK(Links, Recs, h, rank, anc, currentCluster, todo', pc', job')
    BY <1>2, <1>3, <1>5, StackGoes
  <2> QED  BY <2>1, <1>5, Settled
<1>6. 0 \in Sector /\ (x.sector + 1 < sectorPerCluster => x.sector + 1 \in Sector)
  BY <1>2, Fat32Assumption DEF Sector, FrameType
<1>7. fat[1][c] = Links[c] /\ halted \in BOOLEAN
  BY DEF Links, DInv, Types
<1>8. \A d \in {0} \cup Cluster, s \in Sector :
        /\ [x EXCEPT !.cluster = d, !.sector = s] \in FrameType
        /\ [x EXCEPT !.cluster = d, !.sector = s].r = x.r
        /\ [x EXCEPT !.cluster = d, !.sector = s].cluster = d
  BY <1>2 DEF FrameType
<1>9. Handed(Links, home, home, 0)
  BY DEF Handed
<1> HIDE DEF x, c
<1>10. /\ Links[c] \in {END_CLUSTER} \cup Cluster
       /\ Links[c] < END_CLUSTERS => Links[c] \in Cluster
       /\ Links[c] >= END_CLUSTERS => Links[c] = END_CLUSTER
  <2>1. Links[c] \in {END_CLUSTER} \cup Cluster
    BY <1>1, <1>3 DEF TableOK
  <2>2. \A d \in Cluster : d \in Int /\ d < END_CLUSTERS
    BY Numbers
  <2> QED  BY <2>1, <2>2 DEF END_CLUSTER, END_CLUSTERS
<1>11. CASE /\ x.sector + 1 < sectorPerCluster /\ MoveTo(c, x.sector + 1) /\ todo' = ws
            /\ UNCHANGED halted
  <2> DEFINE z == [x EXCEPT !.cluster = c, !.sector = x.sector + 1]
  <2>1. z \in FrameType /\ z.r = x.r /\ z.cluster = c /\ pc' = <<z>> \o Tail(pc)
    BY <1>2, <1>3, <1>6, <1>8, <1>11, ZenonT(60) DEF MoveTo
  <2> HIDE DEF z
  <2>2. Goes(Links, home, home, todo', 0, c, z.cluster)
    BY <2>1 DEF Goes
  <2> QED  BY <2>1, <2>2, <1>4, <1>5, <1>7, <1>9, <1>11
<1>12. CASE fat[1][c] < END_CLUSTERS /\ MoveTo(fat[1][c], 0) /\ todo' = ws /\ UNCHANGED halted
  <2>1. Links[c] \in Cluster
    BY <1>7, <1>12, <1>10
  <2> DEFINE z == [x EXCEPT !.cluster = Links[c], !.sector = 0]
  <2>2. z \in FrameType /\ z.r = x.r /\ z.cluster = Links[c] /\ pc' = <<z>> \o Tail(pc)
    BY <2>1, <1>2, <1>6, <1>7, <1>8, <1>12 DEF MoveTo
  <2> HIDE DEF z
  <2>3. Goes(Links, home, home, todo', 0, c, z.cluster)
    BY <2>1, <2>2 DEF Goes
  <2> QED  BY <2>2, <2>3, <1>4, <1>5, <1>7, <1>9, <1>12
<1>13. CASE /\ fat[1][c] >= END_CLUSTERS /\ FreeClusters # {} /\ MoveTo(FirstFree, 0)
            /\ todo' = ws \o allocateFreeCluster(c) /\ UNCHANGED halted
  <2> DEFINE n == FirstFree
             h == Adopted(home, n)
             z == [x EXCEPT !.cluster = n, !.sector = 0]
  <2>1. n \in Cluster /\ Links[n] = FREE
    BY <1>13, FirstFreeIs
  <2>2. Links[c] = END_CLUSTER
    BY <1>7, <1>13, <1>10
  <2>3. z \in FrameType /\ z.r = x.r /\ z.cluster = n /\ pc' = <<z>> \o Tail(pc)
    BY <2>1, <1>2, <1>6, <1>8, <1>13 DEF MoveTo
  <2>4. HandOut(ws, todo', n, c)
    BY <2>1, <1>3, <1>13, AllocationWrites DEF Unnamed
  <2>5. home[c] \notin {0, n}
    BY <1>3, <2>1, Numbers
  <2>6. job.fst # n
    <3>1. job.fst = 0 \/ Links[job.fst] # FREE
      <4>1. 1 \in DOMAIN pc
        BY <1>1, Stack
      <4>2. FrameOK(Links, Recs, home, anc, currentCluster, <<>>, job, pc[1])
        BY <4>1 DEF DiskOK, FramesOK
      <4> QED  BY <4>2, FstUsed
    <3> QED  BY <3>1, <2>1, Numbers
  <2> HIDE DEF n, z
  <2>7. /\ QueueOK(Links, Recs, h, anc, currentCluster, todo', job.fst)
        /\ NoneFreed(todo') /\ Plain(todo')
    <3>1. /\ c \in {0} \cup Cluster /\ n \in Cluster /\ Links[n] = FREE
          /\ c # 0 => Links[c] = END_CLUSTER /\ home[c] \notin {0, n} /\ job.fst # n
          /\ TableOK(Links, home, rank) /\ RecordsOK(Links, Recs, home)
      BY <2>1, <2>2, <2>5, <2>6, <1>1, <1>3
    <3>2. \A w : Has(ws, w) => /\ w.w = "sector" /\ \A p \in Pos : w.val.recs[p] = ZeroRec
                              /\ ~Anchored(Recs, home[w.cluster])
      BY DEF Unnamed
    <3> QED  BY <2>4, <3>1, <3>2, HandOutQueue
  <2>8. Handed(Links, home, h, n)
    BY <2>1 DEF Handed
  <2>9. Goes(Links, home, h, todo', n, c, z.cluster)
    BY <2>1, <2>2, <2>3, <2>4, <1>3, Numbers DEF Goes, HandOut
  <2> HIDE DEF h
  <2> QED  BY <2>3, <2>7, <2>8, <2>9, <1>5, <1>7, <1>13
<1>14. CASE halted' = TRUE /\ todo' = ws /\ UNCHANGED pc
  <2>1. pc' = <<x>> \o Tail(pc)
    BY <1>1, <1>14, Restacked DEF x
  <2>2. Goes(Links, home, home, todo', 0, c, x.cluster)
    BY DEF Goes, c
  <2> QED  BY <2>1, <2>2, <1>2, <1>4, <1>5, <1>9, <1>14
<1>15. Top.cluster = c /\ Top.sector = x.sector
  BY <1>2 DEF c
<1> QED  BY <1>11, <1>12, <1>13, <1>14, <1>15 DEF NextSector

\* What every routine begins with.
LEMMA Begins ==
  ASSUME DInv, NEW rr, Running(rr)
  PROVE  /\ todo = <<>> /\ pc # <<>> /\ halted \in BOOLEAN
         /\ pc \in Seq(FrameType) /\ job \in JobType /\ Shape(pc)
         /\ Top = pc[1] /\ pc[1] \in FrameType /\ pc[1].r = rr
         /\ Tail(pc) \in Seq(FrameType)
         /\ \E home, rank, anc :
              /\ DiskOK(Links, Recs, home, rank, anc, currentCluster, <<>>, pc, job)
              /\ FrameOK(Links, Recs, home, anc, currentCluster, <<>>, job, pc[1])
<1>1. todo = <<>> /\ pc # <<>> /\ halted \in BOOLEAN /\ Top.r = rr
  BY DEF Running, DInv, Types
<1>2. PICK home, rank, anc :
        DiskOK(Links, Recs, home, rank, anc, currentCluster, todo, pc, job)
  BY Unprimed
<1>3. /\ pc \in Seq(FrameType) /\ job \in JobType /\ Shape(pc)
      /\ \A i \in DOMAIN pc :
           FrameOK(Links, Recs, home, anc, currentCluster, todo, job, pc[i])
  BY <1>2 DEF DiskOK, FramesOK
<1>4. Top = pc[1] /\ pc[1] \in FrameType /\ 1 \in DOMAIN pc /\ Tail(pc) \in Seq(FrameType)
  BY <1>1, <1>3, Stack DEF Top
<1> QED  BY <1>1, <1>2, <1>3, <1>4

\* The records of the sector a routine is at.
LEMMA HereIs ==
  ASSUME Types, NEW c \in Cluster, NEW s \in Sector
  PROVE  /\ data[c][s] \in SecType
         /\ \A p \in Pos : /\ Spot(c, s, p) \in Place
                           /\ Recs[Spot(c, s, p)] = data[c][s].recs[p]
                           /\ data[c][s].recs[p] \in RecType
BY DEF Types, SecType, Spot, Place, Recs, Rec

LEMMA ReturnKeeps ==
  ASSUME DInv, todo = <<>>, pc # <<>>, UNCHANGED <<disk, currentCluster, todo, cuts>>,
         halted' \in BOOLEAN,
         NEW home, NEW rank, NEW anc,
         DiskOK(Links, Recs, home, rank, anc, currentCluster, <<>>, pc, job),
         NEW i \in JobType, i.fst = job.fst, i.name = job.name, i.cmd = job.cmd,
         HitOK(Recs, home, currentCluster, job) => HitOK(Recs, home, currentCluster, i),
         Then(<<>>, i)
  PROVE  DInv'
<1>1. DiskOK(Links, Recs, home, rank, anc, currentCluster, <<>>, Tail(pc), i)
  BY StackDrops
<1>2. DiskOK(Links, Recs, home, rank, anc, currentCluster, <<>>, Tail(pc),
             IF Tail(pc) = <<>> THEN NoJob ELSE i)
  BY <1>1, Ended
<1>3. <<>> \o Tail(pc) = Tail(pc)
  <2>1. Tail(pc) \in Seq(FrameType)
    BY Stack DEF DiskOK, FramesOK
  <2> QED  BY <2>1
<1>4. pc' = Tail(pc) /\ job' = IF Tail(pc) = <<>> THEN NoJob ELSE i
  BY <1>3 DEF Then
<1>5. DiskOK(Links, Recs, home, rank, anc, currentCluster', todo', pc', job')
  BY <1>2, <1>4
<1> QED  BY <1>5, Settled

LEMMA ListKeeps == ASSUME DInv, list_files PROVE DInv'
<1> DEFINE c == Top.cluster
           i == [job EXCEPT !.hit = Found]
<1>1. /\ todo = <<>> /\ pc # <<>> /\ halted \in BOOLEAN /\ job \in JobType
      /\ Top = pc[1] /\ Top \in FrameType /\ Top.r = "list_files"
  BY Begins DEF list_files
<1>2. PICK home, rank, anc :
        /\ DiskOK(Links, Recs, home, rank, anc, currentCluster, <<>>, pc, job)
        /\ FrameOK(Links, Recs, home, anc, currentCluster, <<>>, job, pc[1])
  BY Begins DEF list_files
<1>3. c \in Cluster /\ home[c] = currentCluster /\ HitOK(Recs, home, currentCluster, job)
  BY <1>1, <1>2, WalkingAt DEF Walking, FrameOK
<1>4. \A p \in Pos : /\ Spot(c, Top.sector, p) \in Place
                     /\ Recs[Spot(c, Top.sector, p)] = Here.recs[p]
                     /\ Here.recs[p] \in RecType
  BY <1>1, <1>3, HereIs DEF Here, FrameType, DInv
<1>5. ASSUME Matches # {}
      PROVE  /\ Found \in Place /\ Found.cluster = c
             /\ Recs[Found].name \in Names \cup Dots
             /\ Prefix[Recs[Found].name] = Prefix[job.name]
  <2> DEFINE m == Greatest(Matches)
  <2>1. m \in Matches
    BY <1>5, GreatestIn DEF Matches
  <2> HIDE DEF m
  <2>2. /\ m \in Pos /\ ~(m \in Unused) /\ Here.recs[m].name # REMOVED
        /\ Prefix[Here.recs[m].name] = Prefix[job.name]
    BY <2>1, Fat32Assumption DEF Matches, Pos
  <2>3. Found = Spot(c, Top.sector, m)
    BY <1>5 DEF Found, Spot, m
  <2>4. Here.recs[m].name \in Names \cup Dots
    BY <2>2, <1>4 DEF Unused, RecType
  <2> QED  BY <2>2, <2>3, <2>4, <1>4 DEF Spot
<1>6. Found = job.hit \/ Matches # {}
  BY DEF Found
<1>7. i \in JobType /\ i.hit = Found /\ i.fst = job.fst /\ i.name = job.name /\ i.cmd = job.cmd
  BY <1>1, <1>5, <1>6 DEF JobType
<1>8. HitOK(Recs, home, currentCluster, i)
  BY <1>3, <1>5, <1>6, <1>7 DEF HitOK
<1> HIDE DEF i
<1>9. CASE Then(<<>>, i) /\ UNCHANGED <<todo, halted>>
  BY <1>1, <1>2, <1>7, <1>8, <1>9, ReturnKeeps DEF list_files
<1>10. CASE NextSector(<<>>) /\ job' = i
  <2>1. Unnamed(Recs, home, <<>>)
    BY DEF Unnamed, Has
  <2> QED  BY <2>1, <1>1, <1>2, <1>7, <1>8, <1>10, SectorKeeps DEF list_files, Walking
<1> QED  BY <1>9, <1>10 DEF list_files, i

\* One record is about to change.
LEMMA RecordQueue ==
  ASSUME NEW f, NEW r, NEW home, NEW anc, NEW cur, NEW fst, NEW x \in Place, NEW v \in SecType,
         RecordOK(f, r, home, anc, cur, x, v.recs[x.pos]),
         \A o \in Pos \ {x.pos} : v.recs[o] = r[Spot(x.cluster, x.sector, o)],
         NEW q, q = <<SetSector(x.cluster, x.sector, v)>>
  PROVE  /\ QueueOK(f, r, home, anc, cur, q, fst) /\ NoneFreed(q)
         /\ q \in Seq(Write) /\ Len(q) = 1 /\ DOMAIN q = {1} /\ q # <<>>
         /\ q[1] = SetSector(x.cluster, x.sector, v)
<1> DEFINE w == SetSector(x.cluster, x.sector, v)
<1>1. /\ w \in Write /\ w.w = "sector" /\ w.cluster = x.cluster /\ w.sector = x.sector
      /\ w.val = v /\ x.pos \in Pos /\ x = Spot(x.cluster, x.sector, x.pos)
  BY DEF SetSector, Write, SectorWrite, Place, Spot
<1> HIDE DEF w
<1>2. q \in Seq(Write) /\ Len(q) = 1 /\ DOMAIN q = {1} /\ q[1] = w /\ q # <<>>
  <2>1. q = <<w>>
    BY DEF w
  <2>2. <<w>> \in Seq(Write) /\ Len(<<w>>) = 1 /\ DOMAIN <<w>> = {1} /\ <<w>>[1] = w
        /\ <<w>> # <<>>
    BY <1>1
  <2> QED  BY ONLY <2>1, <2>2
<1>3. SectorOK(f, r, home, anc, cur, q, 1)
  BY <1>1, <1>2 DEF SectorOK
<1> QED  BY <1>1, <1>2, <1>3 DEF QueueOK, NoneFreed, w

LEMMA EntryAdded ==
  ASSUME NEW f, NEW r, NEW home, NEW anc, NEW x, NEW a \in {"add", ".", ".."},
         job \in JobType, currentCluster \in Cluster, x.r = a,
         FrameOK(f, r, home, anc, currentCluster, <<>>, job, x),
         NEW c, a = "add" => home[c] = currentCluster, a # "add" => home[c] = job.fst
  PROVE  /\ Entry(a) \in RecType
         /\ \/ NameAdded(f, r, home, currentCluster, c, Entry(a))
            \/ DotAdded(home, c, Entry(a))
            \/ DotDotAdded(r, home, c, Entry(a))
<1>1. CASE a = "add"
  <2> DEFINE e == Entry(a)
  <2>1. e = [name |-> job.name, dir |-> job.cmd = "mkdir",
             cluster |-> job.fst, size |-> Len(job.content)]
    BY <1>1 DEF Entry
  <2> HIDE DEF e
  <2>2. /\ job.name \in Names /\ (job.cmd = "mkdir" <=> job.name \notin Text)
        /\ FreshOK(f, r, home, <<>>, job)
    BY <1>1 DEF FrameOK
  <2>3. \A w : ~Has(<<>>, w)
    BY DEF Has
  <2>4. /\ job.fst \in Cluster /\ job.fst # ROOT /\ home[job.fst] = job.fst
        /\ f[job.fst] # FREE /\ ~Owned(r, job.fst) /\ Blank(r, home, job.fst)
    BY <2>2, <2>3 DEF FreshOK, Used, Blank
  <2>5. Len(job.content) \in Nat
    <3>1. job.content \in Seq(TextType)
      BY DEF JobType
    <3> QED  BY <3>1
  <2>6. e \in RecType
    BY <2>1, <2>2, <2>4, <2>5 DEF RecType
  <2>7. e.name = job.name /\ e.dir = (job.cmd = "mkdir") /\ e.cluster = job.fst
    BY <2>1
  <2>8. NameAdded(f, r, home, currentCluster, c, e)
    BY <1>1, <2>2, <2>4, <2>7 DEF NameAdded
  <2> QED  BY <2>6, <2>8 DEF e
<1>2. CASE a \in {".", ".."}
  <2> DEFINE e == Entry(a)
  <2>1. a # "add"
    BY <1>2
  <2>2. e = [name |-> a, dir |-> TRUE, cluster |-> IF a = "." THEN job.fst ELSE currentCluster,
             size |-> 0]
    BY <1>2 DEF Entry, DOT, DOTDOT
  <2> HIDE DEF e
  <2>3. /\ job.fst \in Cluster /\ job.fst # ROOT
        /\ \A y \in Place : Owner(r, y, job.fst) => home[y.cluster] = currentCluster
    BY <1>2 DEF FrameOK
  <2>4. e \in RecType
    BY <1>2, <2>2, <2>3 DEF RecType, Dots, DOT, DOTDOT
  <2>5. DotAdded(home, c, e) \/ DotDotAdded(r, home, c, e)
    BY <1>2, <2>1, <2>2, <2>3 DEF DotAdded, DotDotAdded, DOT, DOTDOT
  <2> QED  BY <2>4, <2>5 DEF e
<1> QED  BY <1>1, <1>2

\* `.' and `..' wait for the record before them.
LEMMA DotsWait ==
  ASSUME NEW f, NEW r, NEW home, NEW anc, NEW cur, NEW j, NEW x,
         FrameOK(f, r, home, anc, cur, <<>>, j, x), x.r \in {".", ".."},
         NEW q, NoneFreed(q)
  PROVE  FrameOK(f, r, home, anc, cur, q, j, x)
<1>1. ASSUME NEW c, NEW g, At(f, home, <<>>, c, g) PROVE At(f, home, q, c, g)
  <2>1. c \in Cluster /\ f[c] # FREE /\ home[c] = g
    BY <1>1, AtRest
  <2> QED  BY <2>1 DEF At, Used
<1>2. At(f, home, q, x.cluster, j.fst) /\ At(f, home, q, j.fst, j.fst)
  BY <1>1 DEF FrameOK
<1> QED  BY <1>2 DEF FrameOK, NoneFreed, Freeing

LEMMA AddKeeps ==
  ASSUME DInv, NEW a \in {"add", ".", ".."}, addFileToDirectory(a)
  PROVE  DInv'
<1> DEFINE c == Top.cluster
           s == Top.sector
<1>1. /\ todo = <<>> /\ pc # <<>> /\ halted \in BOOLEAN /\ job \in JobType /\ Shape(pc)
      /\ pc \in Seq(FrameType) /\ Top = pc[1] /\ Top \in FrameType /\ Top.r = a
      /\ Tail(pc) \in Seq(FrameType)
  BY Begins DEF addFileToDirectory
<1>2. PICK home, rank, anc :
        /\ DiskOK(Links, Recs, home, rank, anc, currentCluster, <<>>, pc, job)
        /\ FrameOK(Links, Recs, home, anc, currentCluster, <<>>, job, pc[1])
  BY Begins DEF addFileToDirectory
<1>3. /\ c \in Cluster /\ a \in Walking
      /\ a = "add" => home[c] = currentCluster
      /\ a # "add" => home[c] = job.fst
  BY <1>1, <1>2, WalkingAt DEF Walking
<1>4. /\ s \in Sector /\ Here \in SecType
      /\ \A p \in Pos : /\ Spot(c, s, p) \in Place /\ Recs[Spot(c, s, p)] = Here.recs[p]
                        /\ Here.recs[p] \in RecType
  BY <1>1, <1>3, HereIs DEF Here, FrameType, DInv
<1>5. CASE Unused = {} /\ NextSector(<<>>) /\ UNCHANGED job
  <2>1. Unnamed(Recs, home, <<>>)
    BY DEF Unnamed, Has
  <2> QED  BY <2>1, <1>1, <1>2, <1>3, <1>5, SectorKeeps DEF addFileToDirectory
<1>6. CASE /\ Unused # {}
           /\ todo' = <<SetSector(c, s, [Here EXCEPT !.recs[Least(Unused)] = Entry(a)])>>
           /\ Return /\ UNCHANGED halted
  <2> DEFINE p == Least(Unused)
             x == Spot(c, s, p)
             v == [Here EXCEPT !.recs[p] = Entry(a)]
  <2>1. p \in Pos /\ Here.recs[p].name = UNUSED
    <3>1. Unused \in SUBSET Nat
      BY Fat32Assumption DEF Unused, Pos
    <3>2. p \in Unused
      BY <3>1, <1>6, LeastIn
    <3> QED  BY <3>2 DEF Unused
  <2> HIDE DEF p
  <2>2. /\ TableOK(Links, home, rank) /\ RecordsOK(Links, Recs, home)
        /\ PathOK(Recs, home, anc, currentCluster)
        /\ \A k \in DOMAIN pc :
             FrameOK(Links, Recs, home, anc, currentCluster, <<>>, job, pc[k])
    BY <1>2 DEF DiskOK, FramesOK
  <2>3. currentCluster \in Cluster
    BY <2>2, PathAnchored, AnchoredHome
  <2>4. x \in Place /\ Recs[x].name = UNUSED /\ x.cluster = c /\ x.sector = s /\ x.pos = p
    BY <2>1, <1>4 DEF Spot
  <2>5. /\ Entry(a) \in RecType
        /\ \/ NameAdded(Links, Recs, home, currentCluster, c, Entry(a))
           \/ DotAdded(home, c, Entry(a))
           \/ DotDotAdded(Recs, home, c, Entry(a))
    BY <2>3, <1>1, <1>2, <1>3, EntryAdded
  <2>6. /\ v \in SecType /\ v.recs[p] = Entry(a)
        /\ \A o \in Pos \ {p} : v.recs[o] = Recs[Spot(c, s, o)]
    BY <2>1, <2>5, <1>4 DEF SecType
  <2>7. RecordOK(Links, Recs, home, anc, currentCluster, x, v.recs[p])
    BY <2>4, <2>5, <2>6 DEF RecordOK
  <2>8. todo' = <<SetSector(c, s, v)>>
    BY <1>6 DEF p
  <2> HIDE DEF v, x, c, s
  <2>9. QueueOK(Links, Recs, home, anc, currentCluster, todo', job.fst) /\ NoneFreed(todo')
    <3>1. /\ RecordOK(Links, Recs, home, anc, currentCluster, x, v.recs[x.pos])
          /\ \A o \in Pos \ {x.pos} : v.recs[o] = Recs[Spot(x.cluster, x.sector, o)]
          /\ todo' = <<SetSector(x.cluster, x.sector, v)>>
      BY <2>4, <2>6, <2>7, <2>8
    <3>2. x \in Place /\ v \in SecType
      BY <2>4, <2>6
    <3> QED  BY ONLY <3>1, <3>2, RecordQueue
  <2> DEFINE t == Tail(pc)
  <2>10. /\ t \in Seq(FrameType) /\ Shape(t)
         /\ \A k \in DOMAIN t : /\ k + 1 \in DOMAIN pc /\ t[k] = pc[k + 1]
                                /\ a \in {"add", "."} /\ pc[k + 1].r \in {".", ".."}
    BY <1>1, Stack, DroppedShape, OnTop
  <2> HIDE DEF t
  <2>11. \A k \in DOMAIN t :
           FrameOK(Links, Recs, home, anc, currentCluster, todo', job, t[k])
    BY <2>2, <2>9, <2>10, DotsWait
  <2>12. DiskOK(Links, Recs, home, rank, anc, currentCluster, todo', t, job)
    BY <2>2, <2>9, <2>10, <2>11, <1>1 DEF DiskOK, FramesOK
  <2>13. DiskOK(Links, Recs, home, rank, anc, currentCluster, todo', t,
                IF t = <<>> THEN NoJob ELSE job)
    BY <2>12, Ended
  <2>14. pc' = t /\ job' = IF t = <<>> THEN NoJob ELSE job
    <3>1. <<>> \o t = t
      BY <2>10
    <3> QED  BY <3>1, <1>6 DEF Return, Then, t
  <2>15. DiskOK(Links, Recs, home, rank, anc, currentCluster', todo', pc', job')
    BY <2>13, <2>14 DEF addFileToDirectory
  <2> QED  BY <2>15, <1>1, <1>6, Settled DEF addFileToDirectory
<1> QED  BY <1>5, <1>6 DEF addFileToDirectory

\* A frame starts at the first sector of a cluster.
LEMMA FrameIs ==
  ASSUME NEW a \in Routines, NEW c \in {0} \cup Cluster
  PROVE  Frame(a, c) \in FrameType /\ Frame(a, c).r = a /\ Frame(a, c).cluster = c
<1>1. 0 \in Sector
  BY Fat32Assumption DEF Sector
<1> QED  BY <1>1 DEF Frame, FrameType

\* What is in the current directory and has a name is not on the path to it.
LEMMA NotOnPath ==
  ASSUME NEW f, NEW r, NEW home, NEW anc, NEW cur, RecordsOK(f, r, home),
         PathOK(r, home, anc, cur), NEW x \in Place, r[x].name \in Names,
         home[x.cluster] = cur
  PROVE  ~OnPath(anc, r[x].cluster)
<1> SUFFICES ASSUME NEW i \in 1..Len(anc), anc[i] = r[x].cluster PROVE FALSE
  BY DEF OnPath
<1>1. Len(anc) \in Nat /\ anc[i] \in Cluster /\ anc[i] # 0
  BY PathAnchored, Numbers DEF PathOK
<1>2. r[x].cluster # ROOT
  BY <1>1 DEF RecordsOK
<1>3. i # 1
  BY <1>2 DEF PathOK
<1>4. i - 1 \in 1..(Len(anc) - 1) /\ (i - 1) + 1 = i
  BY <1>1, <1>3
<1>5. PICK y \in Place : Owner(r, y, anc[(i - 1) + 1]) /\ home[y.cluster] = anc[i - 1]
  BY <1>4 DEF PathOK
<1>6. y = x
  BY <1>1, <1>4, <1>5 DEF Owner, RecordsOK
<1>7. anc[i - 1] = anc[Len(anc)]
  BY <1>5, <1>6 DEF PathOK
<1>8. i - 1 = Len(anc)
  BY <1>1, <1>4, <1>7 DEF PathOK
<1> QED  BY <1>1, <1>4, <1>8

\* What was found is in the current directory; it is a dot name exactly if
\* one was sought, and has the kind that was sought if names tell kinds apart.
LEMMA FoundKind ==
  ASSUME NEW r, NEW home, NEW cur, NEW j \in JobType, HitOK(r, home, cur, j), j.hit # NOWHERE
  PROVE  /\ j.hit \in Place /\ home[j.hit.cluster] = cur
         /\ r[j.hit].name \in Names \cup Dots
         /\ j.name \in Names => r[j.hit].name \in Names
         /\ KindsApart /\ j.name \in CdNames => r[j.hit].name \in CdNames
<1>1. j.hit \in Place
  BY DEF JobType
<1>2. /\ home[j.hit.cluster] = cur /\ r[j.hit].name \in Names \cup Dots
      /\ Prefix[r[j.hit].name] = Prefix[j.name]
  BY DEF HitOK
<1> DEFINE m == r[j.hit].name
           n == j.name
<1>3. n \in Names \cup Dots /\ (m \in Dots \/ n \in Dots) => m = n
  BY <1>2, DotsAssumption
<1>4. KindsApart /\ m \in Names /\ n \in Names => (m \in Text <=> n \in Text)
  BY <1>2 DEF KindsApart
<1> QED  BY <1>1, <1>2, <1>3, <1>4, NamesKnown DEF CdNames

LEMMA RemoveKeeps ==
  ASSUME DInv, NEW a \in {"rm", "rmold"}, removeEntryFromDirectory(a)
  PROVE  DInv'
<1>1. /\ todo = <<>> /\ pc # <<>> /\ halted \in BOOLEAN /\ job \in JobType /\ Shape(pc)
      /\ pc \in Seq(FrameType) /\ pc[1] \in FrameType /\ pc[1].r = a
      /\ Tail(pc) \in Seq(FrameType)
      /\ UNCHANGED <<disk, currentCluster, cuts>> /\ halted' = halted
  BY Begins DEF removeEntryFromDirectory
<1>2. PICK home, rank, anc :
        /\ DiskOK(Links, Recs, home, rank, anc, currentCluster, <<>>, pc, job)
        /\ FrameOK(Links, Recs, home, anc, currentCluster, <<>>, job, pc[1])
  BY Begins DEF removeEntryFromDirectory
<1>3. CASE job.hit = NOWHERE
  <2>1. Then(<<>>, job) /\ UNCHANGED todo
    BY <1>3 DEF removeEntryFromDirectory, Return
  <2> QED  BY <2>1, <1>1, <1>2, ReturnKeeps
<1>4. CASE job.hit # NOWHERE
  <2> DEFINE x == job.hit
             e == [Recs[x] EXCEPT !.name = REMOVED]
             v == [data[x.cluster][x.sector] EXCEPT !.recs[x.pos].name = REMOVED]
             z == Frame("removeFATChain", Rec(x).cluster)
             t == <<z>> \o Tail(pc)
  <2>1. /\ TableOK(Links, home, rank) /\ RecordsOK(Links, Recs, home)
        /\ PathOK(Recs, home, anc, currentCluster)
        /\ \A k \in DOMAIN pc :
             FrameOK(Links, Recs, home, anc, currentCluster, <<>>, job, pc[k])
    BY <1>2 DEF DiskOK, FramesOK
  <2>2. HitOK(Recs, home, currentCluster, job) /\ job.name \in Names /\ job.fst = 0
    BY <1>1, <1>2 DEF FrameOK
  <2>3. /\ x \in Place /\ home[x.cluster] = currentCluster /\ Recs[x].name \in Names
    BY <2>2, <1>1, <1>4, FoundKind
  <2>4. ~OnPath(anc, Recs[x].cluster)
    BY <2>1, <2>3, NotOnPath
  <2>5. /\ x.cluster \in Cluster /\ x.sector \in Sector /\ x.pos \in Pos
        /\ data[x.cluster][x.sector] \in SecType
        /\ \A p \in Pos : Recs[Spot(x.cluster, x.sector, p)] =
                            data[x.cluster][x.sector].recs[p]
        /\ x = Spot(x.cluster, x.sector, x.pos) /\ Recs[x] \in RecType /\ Rec(x) = Recs[x]
    <3>1. x.cluster \in Cluster /\ x.sector \in Sector /\ x.pos \in Pos
          /\ x = Spot(x.cluster, x.sector, x.pos)
      BY <2>3 DEF Place, Spot
    <3>2. Recs[x] \in RecType /\ Rec(x) = Recs[x]
      BY <2>1, <2>3 DEF RecordsOK, Recs
    <3> QED  BY <3>1, <3>2, HereIs DEF DInv
  <2>6. e \in RecType /\ e.name = REMOVED
    BY <2>5 DEF RecType
  <2>7. /\ v \in SecType /\ v.recs[x.pos] = e
        /\ \A o \in Pos \ {x.pos} : v.recs[o] = Recs[Spot(x.cluster, x.sector, o)]
    BY <2>5, <2>6 DEF SecType
  <2>8. NameRemoved(Recs, anc, x, v.recs[x.pos])
    BY <2>3, <2>4, <2>7 DEF NameRemoved
  <2>9. RecordOK(Links, Recs, home, anc, currentCluster, x, v.recs[x.pos])
    BY <2>8 DEF RecordOK
  <2>10. todo' = <<SetSector(x.cluster, x.sector, v)>> /\ Then(<<z>>, job)
    BY <1>4 DEF removeEntryFromDirectory
  <2>11. z \in FrameType /\ z.r = "removeFATChain" /\ z.cluster = Recs[x].cluster
    <3>1. Rec(x).cluster = Recs[x].cluster /\ Recs[x].cluster \in {0} \cup Cluster
      BY <2>5 DEF RecType
    <3>2. "removeFATChain" \in Routines
      BY DEF Routines
    <3>3. \A u \in Routines, c \in {0} \cup Cluster :
            Frame(u, c) \in FrameType /\ Frame(u, c).r = u /\ Frame(u, c).cluster = c
      BY FrameIs
    <3> HIDE DEF x
    <3> QED  BY ONLY <3>1, <3>2, <3>3
  <2> HIDE DEF v, e, z
  <2>12. /\ QueueOK(Links, Recs, home, anc, currentCluster, todo', job.fst)
         /\ Len(todo') = 1 /\ DOMAIN todo' = {1} /\ todo' # <<>>
         /\ todo'[1] = SetSector(x.cluster, x.sector, v)
    <3> HIDE DEF x, t
    <3>1. x \in Place /\ v \in SecType /\ todo' = <<SetSector(x.cluster, x.sector, v)>>
      BY <2>3, <2>7, <2>10
    <3>2. RecordOK(Links, Recs, home, anc, currentCluster, x, v.recs[x.pos])
      BY <2>9
    <3>3. \A o \in Pos \ {x.pos} : v.recs[o] = Recs[Spot(x.cluster, x.sector, o)]
      BY <2>7
    <3> QED  BY ONLY <3>1, <3>2, <3>3, RecordQueue
  <2>13. /\ todo'[1].w = "sector" /\ todo'[1].cluster = x.cluster
         /\ todo'[1].sector = x.sector /\ todo'[1].val = v
    BY <2>12 DEF SetSector
  <2>14. OnlyRemoval(Recs, anc, todo')
    BY <2>5, <2>7, <2>8, <2>12, <2>13 DEF OnlyRemoval
  <2>15. DoomedOK(Links, Recs, home, anc, todo', z.cluster)
    <3>1. CASE Recs[x].cluster = 0
      BY <3>1, <2>11 DEF DoomedOK
    <3>2. CASE Recs[x].cluster # 0
      <4> DEFINE c == Recs[x].cluster
      <4>1. c \in Cluster /\ home[c] = c /\ Links[c] # FREE /\ c # ROOT
        BY <3>2, <2>1, <2>3, <2>5 DEF RecordsOK, RecType
      <4>2. \A y \in Place : Owner(Recs, y, c) => y = x
        BY <3>2, <2>1, <2>3 DEF Owner, RecordsOK
      <4>3. v.recs[x.pos].name = REMOVED
        BY <2>6, <2>7
      <4> HIDE DEF c
      <4>4. DoomedOK(Links, Recs, home, anc, todo', c)
        BY <4>1, <4>2, <4>3, <2>4, <2>12, <2>13 DEF DoomedOK, c
      <4> QED  BY <4>4, <2>11 DEF c
    <3> QED  BY <3>1, <3>2
  <2>16. /\ t \in Seq(FrameType) /\ t # <<>> /\ t[1] = z
         /\ \A k \in DOMAIN t : k \in DOMAIN pc /\ (k # 1 => t[k] = pc[k])
         /\ Shape(t)
    BY <2>11, <1>1, Replaced, ReplacedShape
  <2> HIDE DEF t
  <2>17. ASSUME NEW k \in DOMAIN t
         PROVE  FrameOK(Links, Recs, home, anc, currentCluster, todo', job, t[k])
    <3>1. CASE k = 1
      BY <3>1, <2>2, <2>11, <2>14, <2>15, <2>16 DEF FrameOK, Freeing
    <3>2. CASE k # 1
      <4>1. t[k] = pc[k] /\ pc[k].r = "writeFile"
        BY <3>2, <2>11, <2>16, OnTop
      <4>2. FrameOK(Links, Recs, home, anc, currentCluster, <<>>, job, pc[k])
        BY <2>1, <2>16
      <4> QED  BY <4>1, <4>2 DEF FrameOK, Freeing
    <3> QED  BY <3>1, <3>2
  <2>18. DiskOK(Links, Recs, home, rank, anc, currentCluster, todo', t, job)
    BY <2>1, <2>12, <2>16, <2>17, <1>1 DEF DiskOK, FramesOK
  <2>19. pc' = t /\ job' = job
    BY <2>10, <2>16 DEF Then, t
  <2>20. DiskOK(Links, Recs, home, rank, anc, currentCluster', todo', pc', job')
    BY <2>18, <2>19, <1>1
  <2> QED  BY <2>20, <1>1, Settled
<1> QED  BY <1>3, <1>4

LEMMA FreeKeeps ==
  ASSUME DInv, removeFATChain
  PROVE  DInv'
<1> DEFINE x == pc[1]
           c == x.cluster
           d == Links[c]
<1>1. /\ todo = <<>> /\ pc # <<>> /\ halted \in BOOLEAN /\ job \in JobType /\ Shape(pc)
      /\ pc \in Seq(FrameType) /\ x \in FrameType /\ x.r = "removeFATChain" /\ Top = x
      /\ UNCHANGED <<disk, currentCluster, cuts>> /\ halted' = halted
  BY Begins DEF removeFATChain
<1>2. PICK home, rank, anc :
        /\ DiskOK(Links, Recs, home, rank, anc, currentCluster, <<>>, pc, job)
        /\ FrameOK(Links, Recs, home, anc, currentCluster, <<>>, job, x)
  BY Begins DEF removeFATChain
<1>3. /\ TableOK(Links, home, rank) /\ RecordsOK(Links, Recs, home)
      /\ PathOK(Recs, home, anc, currentCluster)
      /\ \A k \in DOMAIN pc :
           FrameOK(Links, Recs, home, anc, currentCluster, <<>>, job, pc[k])
  BY <1>2 DEF DiskOK, FramesOK
<1>4. DoomedOK(Links, Recs, home, anc, <<>>, c) /\ job.fst = 0
  BY <1>1, <1>2 DEF FrameOK
<1>5. /\ todo' = updateEveryFat(c, FREE)
      /\ IF d < END_CLUSTERS THEN MoveTo(d, 0) /\ UNCHANGED job ELSE Return
  BY <1>1 DEF removeFATChain, Links
<1>6. c \in Entries /\ FreeOK(Links, Recs, home, anc, c)
  <2>1. CASE c = 0
    BY <2>1, Numbers DEF FreeOK
  <2>2. CASE c # 0
    BY <2>2, <1>4, Numbers DEF FreeOK, DoomedOK, Owned
  <2> QED  BY <2>1, <2>2
<1> HIDE DEF x, c, d
<1>7. /\ todo' \in Seq(Write) /\ todo' # <<>> /\ 1 \in DOMAIN todo'
      /\ todo'[1] = SetEntry(c, FREE)
      /\ \A i \in DOMAIN todo' : i # 1 => todo'[i].w = "copy"
  BY <1>5, <1>6, UpdateWrites
<1>8. todo'[1].w = "entry" /\ todo'[1].cluster = c /\ todo'[1].val = FREE
  BY <1>7 DEF SetEntry
<1>9. QueueOK(Links, Recs, home, anc, currentCluster, todo', job.fst)
  <2>1. EntryOK(Links, Recs, home, anc, todo', job.fst, 1)
    BY <1>6, <1>7, <1>8, Numbers DEF EntryOK
  <2> QED  BY <2>1, <1>7, <1>8 DEF QueueOK
<1>10. OnlyRemoval(Recs, anc, todo')
  BY <1>7, <1>8 DEF OnlyRemoval
<1>11. ASSUME NEW t \in Seq(FrameType), Shape(t),
              \A k \in DOMAIN t : \/ /\ t[k].r = "removeFATChain" /\ t[k].cluster = d
                                     /\ d < END_CLUSTERS
                                  \/ \E i \in DOMAIN pc : i # 1 /\ t[k] = pc[i]
       PROVE  DiskOK(Links, Recs, home, rank, anc, currentCluster, todo', t, job)
  <2>1. d < END_CLUSTERS => DoomedOK(Links, Recs, home, anc, todo', d)
    <3> HAVE d < END_CLUSTERS
    <3>1. CASE c = 0
      <4>1. d \in {MEDIA, FREE}
        BY <3>1, <1>3 DEF TableOK, d
      <4>2. d = 0
        BY <4>1 DEF MEDIA, FREE, END_CLUSTERS
      <4> QED  BY <4>2 DEF DoomedOK
    <3>2. CASE c # 0
      <4>1. /\ c \in Cluster /\ d # FREE /\ home[c] = c /\ c # ROOT
        BY <3>2, <1>6 DEF FreeOK, d
      <4>2. d \in {END_CLUSTER} \cup Cluster
        BY <4>1, <1>3 DEF TableOK, d
      <4>3. d \in Cluster
        BY <4>2 DEF END_CLUSTER, END_CLUSTERS
      <4>4. home[d] = c /\ d # c /\ Links[d] # FREE
        BY <4>1, <4>3, <1>3 DEF TableOK, d
      <4>5. ~Anchored(Recs, d)
        BY <4>4, <1>3, AnchoredHome
      <4>6. d # ROOT /\ ~OnPath(anc, d) /\ \A y \in Place : ~Owner(Recs, y, d)
        <5>1. d # 0
          BY <4>3, Numbers
        <5>2. ~OnPath(anc, d)
          BY <4>5, <1>3, PathAnchored DEF OnPath
        <5> QED  BY <5>1, <5>2, <4>5 DEF Anchored, Owned
      <4> QED  BY <4>1, <4>3, <4>4, <4>6, <1>7, <1>8 DEF DoomedOK, d
    <3> QED  BY <3>1, <3>2
  <2>2. ASSUME NEW k \in DOMAIN t
        PROVE  FrameOK(Links, Recs, home, anc, currentCluster, todo', job, t[k])
    <3>1. CASE t[k].r = "removeFATChain" /\ t[k].cluster = d /\ d < END_CLUSTERS
      BY <3>1, <2>1, <1>4, <1>10 DEF FrameOK, Freeing
    <3>2. CASE \E i \in DOMAIN pc : i # 1 /\ t[k] = pc[i]
      <4>1. PICK i \in DOMAIN pc : i # 1 /\ t[k] = pc[i]
        BY <3>2
      <4>2. t[k].r = "writeFile"
        BY <4>1, <1>1, OnTop DEF x
      <4>3. FrameOK(Links, Recs, home, anc, currentCluster, <<>>, job, t[k])
        BY <4>1, <1>3
      <4> QED  BY <4>2, <4>3 DEF FrameOK, Freeing
    <3> QED  BY <3>1, <3>2, <1>11
  <2> QED  BY <2>2, <1>1, <1>3, <1>9, <1>11 DEF DiskOK, FramesOK
<1>12. CASE d < END_CLUSTERS /\ MoveTo(d, 0) /\ UNCHANGED job
  <2> DEFINE z == [x EXCEPT !.cluster = d, !.sector = 0]
             t == <<z>> \o Tail(pc)
  <2>1. d \in {0} \cup Cluster
    <3>1. d \in FatValue
      BY <1>3, <1>6 DEF TableOK, d
    <3> QED  BY <3>1, <1>12 DEF FatValue, FREE, END_CLUSTER, MEDIA, END_CLUSTERS
  <2>2. 0 \in Sector
    BY Fat32Assumption DEF Sector
  <2>3. z \in FrameType /\ z.r = "removeFATChain" /\ z.cluster = d
    BY <2>1, <2>2, <1>1 DEF FrameType
  <2>4. pc' = t
    BY <1>1, <1>12 DEF MoveTo
  <2> HIDE DEF z
  <2>5. /\ t \in Seq(FrameType) /\ t[1] = z /\ Shape(t)
        /\ \A k \in DOMAIN t : k \in DOMAIN pc /\ (k # 1 => t[k] = pc[k])
    BY <2>3, <1>1, Replaced, ReplacedShape DEF x
  <2> HIDE DEF t
  <2>6. DiskOK(Links, Recs, home, rank, anc, currentCluster, todo', t, job)
    BY <2>3, <2>5, <1>11, <1>12
  <2>7. DiskOK(Links, Recs, home, rank, anc, currentCluster', todo', pc', job')
    BY <2>4, <2>6, <1>1, <1>12
  <2> QED  BY <2>7, <1>1, Settled
<1>13. CASE Return
  <2> DEFINE t == Tail(pc)
  <2>1. /\ t \in Seq(FrameType) /\ Shape(t)
        /\ \A k \in DOMAIN t : k + 1 \in DOMAIN pc /\ k + 1 # 1 /\ t[k] = pc[k + 1]
    BY <1>1, Stack, DroppedShape
  <2> HIDE DEF t
  <2>2. <<>> \o t = t
    BY <2>1
  <2>3. pc' = t /\ job' = IF t = <<>> THEN NoJob ELSE job
    BY <2>2, <1>13 DEF Return, Then, t
  <2>4. DiskOK(Links, Recs, home, rank, anc, currentCluster, todo', t, job)
    BY <2>1, <1>11
  <2>5. DiskOK(Links, Recs, home, rank, anc, currentCluster', todo', pc', job')
    BY <2>3, <2>4, <1>1, Ended
  <2> QED  BY <2>5, <1>1, Settled
<1> QED  BY <1>5, <1>12, <1>13

\* A chain in the making has just been handed out.
LEMMA FreshHandedOut ==
  ASSUME NEW f, NEW r, NEW home, NEW rank, TableOK(f, home, rank), RecordsOK(f, r, home),
         NEW anc, NEW cur, PathOK(r, home, anc, cur),
         NEW n \in Cluster, f[n] = FREE, NEW q, HandOut(<<>>, q, n, 0),
         NEW i, i.fst = n
  PROVE  LET h == Adopted(home, n)
         IN  /\ Handed(f, home, h, n) /\ TableOK(f, h, rank) /\ RecordsOK(f, r, h)
             /\ PathOK(r, h, anc, cur) /\ QueueOK(f, r, h, anc, cur, q, n)
             /\ NoneFreed(q) /\ Plain(q)
             /\ At(f, h, q, cur, cur) /\ At(f, h, q, n, n) /\ FreshOK(f, r, h, q, i)
             /\ n # ROOT /\ ~Owned(r, n) /\ cur \in Cluster
<1> DEFINE h == Adopted(home, n)
<1>1. Handed(f, home, h, n)
  BY DEF Handed
<1>2. /\ TableOK(f, h, rank) /\ RecordsOK(f, r, h) /\ ~Owned(r, n) /\ n # ROOT
      /\ \A x \in Cluster : h[x] = n <=> x = n
      /\ \A x \in Cluster : home[x] # n => x = n \/ h[x] = home[x]
  BY AdoptTable, AdoptRecords
<1>3. \A c \in Cluster : Anchored(r, home[c]) => h[c] = home[c]
  BY <1>1, HandedHomes
<1>4. PathOK(r, h, anc, cur)
  BY <1>3, PathKept, PlaceCluster
<1>5. QueueOK(f, r, h, anc, cur, q, n) /\ NoneFreed(q) /\ Plain(q)
  <2>1. \A w : ~Has(<<>>, w)
    BY DEF Has
  <2> QED  BY <2>1, HandOutQueue
<1> HIDE DEF h
<1>6. cur \in Cluster /\ h[cur] = cur /\ f[cur] # FREE
  BY <1>2, <1>4, PathAnchored, AnchoredHome
<1>7. At(f, h, q, cur, cur)
  BY <1>6 DEF At, Used
<1>8. Used(f, q, n) /\ h[n] = n
  BY <1>2 DEF Used, HandOut
<1>9. At(f, h, q, n, n)
  BY <1>8 DEF At
<1>10. FreshOK(f, r, h, q, i)
  <2>1. \A y \in Place : h[y.cluster] = n => y.cluster = n /\ y.sector \in Sector
    BY <1>2, PlaceCluster DEF Place
  <2> QED  BY <2>1, <1>2, <1>8 DEF FreshOK, HandOut
<1>11. /\ Handed(f, home, h, n) /\ TableOK(f, h, rank) /\ RecordsOK(f, r, h)
       /\ PathOK(r, h, anc, cur) /\ QueueOK(f, r, h, anc, cur, q, n)
       /\ NoneFreed(q) /\ Plain(q)
       /\ At(f, h, q, cur, cur) /\ At(f, h, q, n, n) /\ FreshOK(f, r, h, q, i)
       /\ n # ROOT /\ ~Owned(r, n) /\ cur \in Cluster
  BY <1>1, <1>2, <1>4, <1>5, <1>6, <1>7, <1>9, <1>10
<1> QED  BY <1>11 DEF h

LEMMA ThreeFrames ==
  ASSUME NEW a \in FrameType, NEW b \in FrameType, NEW c \in FrameType
  PROVE  /\ <<a, b, c>> \in Seq(FrameType) /\ Len(<<a, b, c>>) = 3 /\ <<a, b, c>> # <<>>
         /\ <<a, b, c>>[1] = a /\ <<a, b, c>>[2] = b /\ <<a, b, c>>[3] = c
         /\ \A i \in DOMAIN <<a, b, c>> : <<a, b, c>>[i] \in {a, b, c}
OBVIOUS

LEMMA TwoFrames ==
  ASSUME NEW a \in FrameType, NEW b \in FrameType
  PROVE  /\ <<a, b>> \in Seq(FrameType) /\ Len(<<a, b>>) = 2 /\ <<a, b>> # <<>>
         /\ <<a, b>>[1] = a /\ <<a, b>>[2] = b
         /\ \A i \in DOMAIN <<a, b>> : <<a, b>>[i] \in {a, b}
OBVIOUS

LEMMA OneFrame ==
  ASSUME NEW a \in FrameType
  PROVE  /\ <<a>> \in Seq(FrameType) /\ Len(<<a>>) = 1 /\ <<a>> # <<>> /\ <<a>>[1] = a
         /\ \A i \in DOMAIN <<a>> : <<a>>[i] = a
OBVIOUS

\* The last routine of a command is alone.
LEMMA Alone ==
  ASSUME NEW p \in Seq(FrameType), p # <<>>, Shape(p),
         p[1].r \in {"mkdir", "cd", "rm", "writeFile", "read", "readFile", ".."}
  PROVE  Tail(p) = <<>>
<1>1. Len(p) = 1
  BY DEF Shape
<1>2. Tail(p) \in Seq(FrameType) /\ Len(Tail(p)) = 0
  BY <1>1, Stack
<1> QED  BY ONLY <1>2, EmptySeq

\* A new chain is handed out without any other write.
LEMMA FirstHandOut ==
  ASSUME FreeClusters # {}
  PROVE  HandOut(<<>>, allocateFreeCluster(0), FirstFree, 0)
<1>1. FirstFree \in Cluster
  BY FirstFreeIs
<1>2. <<>> \in Seq(Write)
  OBVIOUS
<1>3. HandOut(<<>>, <<>> \o allocateFreeCluster(0), FirstFree, 0)
  BY <1>1, <1>2, AllocationWrites
<1>4. allocateFreeCluster(0) \in Seq(Write)
  <2> DEFINE m == updateEveryFat(FirstFree, END_CLUSTER)
             w == Wipe(FirstFree)
  <2>1. m \in Seq(Write) /\ w \in Seq(Write)
    BY <1>1, UpdateWrites, WipeWrites, Numbers
  <2>2. allocateFreeCluster(0) = m \o w \o <<>>
    BY DEF allocateFreeCluster
  <2> HIDE DEF m, w
  <2>3. m \o w \in Seq(Write)
    BY <2>1
  <2>4. \A u \in Seq(Write) : u \o <<>> = u
    OBVIOUS
  <2> QED  BY <2>2, <2>3, <2>4
<1>5. <<>> \o allocateFreeCluster(0) = allocateFreeCluster(0)
  BY <1>4
<1> QED  BY <1>3, <1>5

LEMMA NewChainKeeps ==
  ASSUME DInv, todo = <<>>, pc # <<>>, halted \in BOOLEAN,
         pc[1].r \in {"mkdir", "writeFile"},
         UNCHANGED <<disk, currentCluster, cuts>>,
         NEW rs, NewChain(rs),
         \/ /\ pc[1].r = "mkdir"
            /\ rs = <<Frame("add", currentCluster), Frame(".", FirstFree),
                      Frame("..", FirstFree)>>
         \/ /\ pc[1].r = "writeFile"
            /\ rs = <<Frame("content", FirstFree), Frame("add", currentCluster)>>
  PROVE  DInv'
<1>1. PICK home, rank, anc :
        DiskOK(Links, Recs, home, rank, anc, currentCluster, <<>>, pc, job)
  BY Unprimed
<1>2. /\ TableOK(Links, home, rank) /\ RecordsOK(Links, Recs, home)
      /\ PathOK(Recs, home, anc, currentCluster)
      /\ pc \in Seq(FrameType) /\ job \in JobType /\ Shape(pc)
      /\ FrameOK(Links, Recs, home, anc, currentCluster, <<>>, job, pc[1])
  BY <1>1, Stack DEF DiskOK, FramesOK
<1>3. CASE halted' = TRUE /\ UNCHANGED <<todo, pc, job>>
  <2>1. DiskOK(Links, Recs, home, rank, anc, currentCluster', todo', pc', job')
    BY <1>1, <1>3
  <2> QED  BY <2>1, <1>3, Settled
<1>4. CASE /\ FreeClusters # {} /\ todo' = allocateFreeCluster(0)
           /\ Then(rs, [job EXCEPT !.fst = FirstFree]) /\ UNCHANGED halted
  <2> DEFINE n == FirstFree
             i == [job EXCEPT !.fst = n]
             h == Adopted(home, n)
  <2>1. n \in Cluster /\ Links[n] = FREE
    BY <1>4, FirstFreeIs
  <2>2. HandOut(<<>>, todo', n, 0)
    BY <1>4, FirstHandOut
  <2>3. i \in JobType /\ i.fst = n /\ i.name = job.name /\ i.cmd = job.cmd
    BY <2>1, <1>2 DEF JobType
  <2> HIDE DEF i, n
  <2>4. /\ TableOK(Links, h, rank) /\ RecordsOK(Links, Recs, h)
        /\ PathOK(Recs, h, anc, currentCluster)
        /\ QueueOK(Links, Recs, h, anc, currentCluster, todo', i.fst)
        /\ NoneFreed(todo') /\ Plain(todo')
        /\ At(Links, h, todo', currentCluster, currentCluster)
        /\ At(Links, h, todo', n, n) /\ FreshOK(Links, Recs, h, todo', i)
        /\ n # ROOT /\ ~Owned(Recs, n) /\ currentCluster \in Cluster
    BY <2>1, <2>2, <2>3, <1>2, FreshHandedOut
  <2> HIDE DEF h
  <2>5. /\ pc[1].r = "mkdir" => i.name \in Names \ Text /\ i.cmd = "mkdir"
        /\ pc[1].r = "writeFile" => i.name \in Text /\ i.cmd = "write"
    BY <2>3, <1>2 DEF FrameOK
  <2>6. ASSUME NEW x, x.r = "add", x.cluster = currentCluster
        PROVE  FrameOK(Links, Recs, h, anc, currentCluster, todo', i, x)
    <3>1. i.name \in Names /\ (i.cmd = "mkdir" <=> i.name \notin Text)
      BY <2>5, NamesKnown
    <3> QED  BY <3>1, <2>4, <2>6 DEF FrameOK, NoneFreed
  <2>7. ASSUME NEW x, x.r \in {"content", ".", ".."}, x.cluster = n
        PROVE  FrameOK(Links, Recs, h, anc, currentCluster, todo', i, x)
    BY <2>1, <2>3, <2>4, <2>7 DEF FrameOK, NoneFreed, Owned
  <2>8. rs \in Seq(FrameType) /\ rs # <<>> /\ Shape(rs)
        /\ \A k \in DOMAIN rs :
             FrameOK(Links, Recs, h, anc, currentCluster, todo', i, rs[k])
    <3> DEFINE a == Frame("add", currentCluster)
               b == Frame(".", n)
               c == Frame("..", n)
               d == Frame("content", n)
    <3>1. /\ a \in FrameType /\ a.r = "add" /\ a.cluster = currentCluster
          /\ b \in FrameType /\ b.r = "." /\ b.cluster = n
          /\ c \in FrameType /\ c.r = ".." /\ c.cluster = n
          /\ d \in FrameType /\ d.r = "content" /\ d.cluster = n
      BY <2>1, <2>4, FrameIs, ZenonT(60) DEF Routines
    <3>2. \A x \in {a, b, c, d} :
            FrameOK(Links, Recs, h, anc, currentCluster, todo', i, x)
      BY <3>1, <2>6, <2>7
    <3>3. rs = <<a, b, c>> \/ rs = <<d, a>>
      BY DEF n
    <3> HIDE DEF a, b, c, d
    <3>4. CASE rs = <<a, b, c>>
      <4>1. /\ rs \in Seq(FrameType) /\ Len(rs) = 3 /\ rs # <<>>
            /\ rs[1] = a /\ rs[2] = b /\ rs[3] = c
            /\ \A k \in DOMAIN rs : rs[k] \in {a, b, c}
        BY <3>1, <3>4, ThreeFrames
      <4> QED  BY <4>1, <3>1, <3>2 DEF Shape
    <3>5. CASE rs = <<d, a>>
      <4>1. /\ rs \in Seq(FrameType) /\ Len(rs) = 2 /\ rs # <<>>
            /\ rs[1] = d /\ rs[2] = a
            /\ \A k \in DOMAIN rs : rs[k] \in {d, a}
        BY <3>1, <3>5, TwoFrames
      <4> QED  BY <4>1, <3>1, <3>2 DEF Shape
    <3> QED  BY <3>3, <3>4, <3>5
  <2>9. pc' = rs /\ job' = i
    <3>1. Tail(pc) = <<>>
      BY <1>2, Alone
    <3>2. rs \o <<>> = rs
      BY <2>8
    <3> QED  BY <3>1, <3>2, <2>8, <1>4 DEF Then, i, n
  <2>10. DiskOK(Links, Recs, h, rank, anc, currentCluster, todo', rs, i)
    BY <2>3, <2>4, <2>8 DEF DiskOK, FramesOK
  <2>11. DiskOK(Links, Recs, h, rank, anc, currentCluster', todo', pc', job')
    BY <2>9, <2>10
  <2> QED  BY <2>11, <1>4, Settled
<1> QED  BY <1>3, <1>4 DEF NewChain

LEMMA MkdirKeeps == ASSUME DInv, mkdir PROVE DInv'
<1>1. /\ todo = <<>> /\ pc # <<>> /\ halted \in BOOLEAN /\ job \in JobType
      /\ pc[1].r = "mkdir" /\ UNCHANGED <<disk, currentCluster, cuts>>
  BY Begins DEF mkdir
<1>2. CASE job.hit # NOWHERE /\ Return /\ UNCHANGED <<todo, halted>>
  <2>1. PICK home, rank, anc :
          DiskOK(Links, Recs, home, rank, anc, currentCluster, <<>>, pc, job)
    BY Begins DEF mkdir
  <2>2. Then(<<>>, job)
    BY <1>2 DEF Return
  <2> QED  BY <2>1, <2>2, <1>1, <1>2, ReturnKeeps
<1>3. CASE NewChain(<<Frame("add", currentCluster), Frame(".", FirstFree),
                      Frame("..", FirstFree)>>)
  BY <1>1, <1>3, NewChainKeeps
<1> QED  BY <1>2, <1>3 DEF mkdir

LEMMA WriteFileKeeps == ASSUME DInv, writeFile PROVE DInv'
<1>1. /\ todo = <<>> /\ pc # <<>> /\ halted \in BOOLEAN
      /\ pc[1].r = "writeFile" /\ UNCHANGED <<disk, currentCluster, cuts>>
  BY Begins DEF writeFile
<1>2. NewChain(<<Frame("content", FirstFree), Frame("add", currentCluster)>>)
  BY DEF writeFile
<1> QED  BY <1>1, <1>2, NewChainKeeps

LEMMA CdKeeps == ASSUME DInv, change_directory PROVE DInv'
<1> DEFINE x == job.hit
           g == Recs[x].cluster
<1>1. /\ todo = <<>> /\ pc # <<>> /\ halted \in BOOLEAN /\ job \in JobType /\ Shape(pc)
      /\ pc \in Seq(FrameType) /\ pc[1].r = "cd"
      /\ UNCHANGED <<disk, cuts>> /\ todo' = <<>> /\ halted' = halted
      /\ currentCluster' = IF x = NOWHERE THEN currentCluster ELSE FstCluster(x)
      /\ Then(<<>>, job)
  BY Begins DEF change_directory, Return
<1>2. PICK home, rank, anc :
        /\ DiskOK(Links, Recs, home, rank, anc, currentCluster, <<>>, pc, job)
        /\ FrameOK(Links, Recs, home, anc, currentCluster, <<>>, job, pc[1])
  BY Begins DEF change_directory
<1>3. /\ TableOK(Links, home, rank) /\ RecordsOK(Links, Recs, home)
      /\ PathOK(Recs, home, anc, currentCluster)
  BY <1>2 DEF DiskOK
<1>4. pc' = <<>> /\ job' = NoJob
  <2>1. Tail(pc) = <<>>
    BY <1>1, Alone
  <2>2. <<>> \o <<>> = <<>>
    OBVIOUS
  <2> QED  BY <2>1, <2>2, <1>1 DEF Then
<1>5. /\ anc \in Seq(Cluster) /\ Len(anc) \in Nat /\ Len(anc) > 0
      /\ anc[1] = ROOT /\ anc[Len(anc)] = currentCluster
      /\ \A i \in 1..Len(anc) : anc[i] \in Cluster
      /\ \A i, j \in 1..Len(anc) : anc[i] = anc[j] => i = j
      /\ \A i \in 1..(Len(anc) - 1) :
           \E y \in Place : /\ Owner(Recs, y, anc[i + 1]) /\ (KindsApart => Recs[y].dir)
                            /\ home[y.cluster] = anc[i]
      /\ currentCluster \in Cluster /\ Anchored(Recs, currentCluster)
  <2>1. /\ anc \in Seq(Cluster) /\ Len(anc) > 0
        /\ anc[1] = ROOT /\ anc[Len(anc)] = currentCluster
        /\ \A i, j \in 1..Len(anc) : anc[i] = anc[j] => i = j
        /\ \A i \in 1..(Len(anc) - 1) :
             \E y \in Place : /\ Owner(Recs, y, anc[i + 1]) /\ (KindsApart => Recs[y].dir)
                              /\ home[y.cluster] = anc[i]
    BY <1>3 DEF PathOK
  <2>2. Len(anc) \in Nat /\ \A i \in 1..Len(anc) : anc[i] \in Cluster
    BY <2>1
  <2>3. Anchored(Recs, currentCluster)
    BY <1>3, PathAnchored
  <2>4. currentCluster \in Cluster
    BY <2>3, <1>3, AnchoredHome
  <2> QED  BY <2>1, <2>2, <2>3, <2>4
<1>6. ASSUME NEW new, PathOK(Recs, home, new, currentCluster')
      PROVE  DInv'
  <2>1. DiskOK(Links, Recs, home, rank, new, currentCluster', <<>>, <<>>, NoJob)
    <3>1. NoJob \in JobType /\ <<>> \in Seq(FrameType) /\ <<>> \in Seq(Write)
      <4>1. <<>> \in Seq(TextType) /\ <<>> \in Seq(FrameType) /\ <<>> \in Seq(Write)
        OBVIOUS
      <4> QED  BY <4>1 DEF NoJob, JobType
    <3> QED  BY <3>1, <1>3, <1>6 DEF DiskOK, QueueOK, FramesOK, Shape
  <2> QED  BY <2>1, <1>1, <1>4, Settled
<1>7. CASE x = NOWHERE
  BY <1>1, <1>3, <1>6, <1>7
<1>8. CASE x # NOWHERE
  <2>1. HitOK(Recs, home, currentCluster, job) /\ job.name \in CdNames
    BY <1>1, <1>2 DEF FrameOK
  <2>2. /\ x \in Place /\ home[x.cluster] = currentCluster
        /\ Recs[x].name \in Names \cup Dots /\ (KindsApart => Recs[x].name \in CdNames)
    BY <2>1, <1>1, <1>8, FoundKind
  <2>3. Rec(x) = Recs[x]
    BY <2>2 DEF Recs
  <2>4. currentCluster' = IF g = 0 THEN ROOT ELSE g
    BY <2>3, <1>1, <1>8 DEF FstCluster
  <2>5. CASE Recs[x].name \in Names /\ g # 0
    <3>1. (KindsApart => Recs[x].dir) /\ g \in Cluster /\ ~OnPath(anc, g)
      <4>1. KindsApart => Recs[x].name \notin Text
        BY <2>2, <2>5, NamesKnown DEF CdNames
      <4> QED  BY <4>1, <2>2, <2>5, <1>3, NotOnPath DEF RecordsOK, RecType
    <3> DEFINE new == Append(anc, g)
    <3>2. /\ new \in Seq(Cluster) /\ Len(new) = Len(anc) + 1 /\ new[Len(anc) + 1] = g
          /\ \A i \in 1..Len(anc) : new[i] = anc[i]
      BY <1>5, <3>1
    <3> HIDE DEF new
    <3>3. \A i \in 1..Len(anc) : anc[i] # g
      BY <3>1 DEF OnPath
    <3>4. new[1] = ROOT /\ new[Len(new)] = g /\ Len(new) > 0
      BY <3>2, <1>5
    <3>5. \A i \in 1..Len(new) : i \in 1..Len(anc) \/ i = Len(anc) + 1
      BY <3>2, <1>5
    <3>6. \A i, j \in 1..Len(new) : new[i] = new[j] => i = j
      BY <3>2, <3>3, <3>5, <1>5
    <3>7. ASSUME NEW i \in 1..(Len(new) - 1)
          PROVE  \E y \in Place : /\ Owner(Recs, y, new[i + 1]) /\ (KindsApart => Recs[y].dir)
                                  /\ home[y.cluster] = new[i]
      <4>1. i \in 1..Len(anc) /\ new[i] = anc[i]
        BY <3>2, <1>5
      <4>2. CASE i = Len(anc)
        <5>1. Owner(Recs, x, g)
          BY <2>5 DEF Owner
        <5> QED  BY <4>1, <4>2, <5>1, <3>1, <3>2, <2>2, <1>5
      <4>3. CASE i # Len(anc)
        <5>1. i \in 1..(Len(anc) - 1) /\ i + 1 \in 1..Len(anc)
          BY <4>1, <4>3, <1>5
        <5>2. new[i + 1] = anc[i + 1]
          BY <5>1, <3>2
        <5> QED  BY <4>1, <5>1, <5>2, <1>5
      <4> QED  BY <4>2, <4>3
    <3>8. PathOK(Recs, home, new, g)
      BY <3>2, <3>4, <3>6, <3>7 DEF PathOK
    <3> QED  BY <3>8, <2>4, <2>5, <1>6
  <2>6. CASE Recs[x].name = DOT
    <3>1. g = currentCluster
      BY <2>2, <2>6, <1>3, <1>5 DEF RecordsOK
    <3>2. currentCluster' = currentCluster
      BY <3>1, <2>4, <1>5, Numbers
    <3> QED  BY <3>2, <1>3, <1>6
  <2>7. CASE Recs[x].name = DOTDOT
    <3>1. currentCluster # ROOT
      BY <2>2, <2>7, <1>3 DEF RecordsOK
    <3>2. Len(anc) # 1
      BY <3>1, <1>5
    <3> DEFINE m == Len(anc) - 1
    <3>3. m \in 1..(Len(anc) - 1) /\ m + 1 = Len(anc) /\ m \in 1..Len(anc) /\ m \in Nat
      <4>1. Len(anc) \in Nat /\ Len(anc) > 0 /\ Len(anc) # 1
        BY <3>2, <1>5
      <4> HIDE DEF m
      <4>2. \A n \in Nat : n > 0 /\ n # 1 => /\ n - 1 \in 1..(n - 1) /\ (n - 1) + 1 = n
                                            /\ n - 1 \in 1..n /\ n - 1 \in Nat
        OBVIOUS
      <4> QED  BY <4>1, <4>2 DEF m
    <3>4. PICK y \in Place : Owner(Recs, y, anc[m + 1]) /\ home[y.cluster] = anc[m]
      BY <3>3, <1>5
    <3> HIDE DEF m
    <3>5. Owner(Recs, y, home[x.cluster]) /\ home[x.cluster] # 0 /\ Anchored(Recs, home[y.cluster])
      BY <3>3, <3>4, <2>2, <1>3, <1>5, PathAnchored, Numbers
    <3>6. g = anc[m]
      BY <3>4, <3>5, <2>7, <2>2, <1>3 DEF RecordsOK
    <3>7. currentCluster' = anc[m]
      BY <3>3, <3>6, <2>4, <1>5, Numbers
    <3> DEFINE new == [i \in 1..m |-> anc[i]]
    <3>8. new \in Seq(Cluster) /\ Len(new) = m /\ \A i \in 1..m : new[i] = anc[i]
      <4>1. \A i \in 1..m : i \in 1..Len(anc)
        BY <3>3, <1>5
      <4>2. new \in [1..m -> Cluster]
        BY <4>1, <1>5
      <4> QED  BY <4>2, <3>3, FunctionSeq
    <3> HIDE DEF new
    <3>9. /\ \A i \in 1..m : i \in 1..Len(anc)
          /\ \A i \in 1..(m - 1) : i \in 1..(Len(anc) - 1) /\ i + 1 \in 1..m /\ i \in 1..m
          /\ m > 0 /\ 1 \in 1..m /\ m \in 1..m
      BY <3>3, <1>5
    <3>10. ASSUME NEW i \in 1..(Len(new) - 1)
           PROVE  \E z \in Place : /\ Owner(Recs, z, new[i + 1]) /\ (KindsApart => Recs[z].dir)
                                   /\ home[z.cluster] = new[i]
      <4>1. i \in 1..(Len(anc) - 1) /\ new[i] = anc[i] /\ new[i + 1] = anc[i + 1]
        BY <3>8, <3>9
      <4> QED  BY <4>1, <1>5
    <3>11. \A i, j \in 1..Len(new) : new[i] = new[j] => i = j
      BY <3>8, <3>9, <1>5
    <3>12. PathOK(Recs, home, new, anc[m])
      BY <3>8, <3>9, <3>10, <3>11, <1>5 DEF PathOK
    <3> QED  BY <3>7, <3>12, <1>6
  <2>8. CASE Recs[x].name \in Names /\ g = 0
    BY <2>4, <2>8, <1>6, PathAtRoot
  <2> QED  BY <2>2, <2>5, <2>6, <2>7, <2>8, NamesKnown
<1> QED  BY <1>7, <1>8

LEMMA ContentKeeps == ASSUME DInv, write_content PROVE DInv'
<1>1. /\ todo = <<>> /\ pc # <<>> /\ halted \in BOOLEAN /\ job \in JobType
      /\ Top = pc[1] /\ Top \in FrameType /\ Top.r = "content"
      /\ UNCHANGED <<disk, currentCluster, cuts>>
  BY Begins DEF write_content
<1>2. PICK home, rank, anc :
        /\ DiskOK(Links, Recs, home, rank, anc, currentCluster, <<>>, pc, job)
        /\ FrameOK(Links, Recs, home, anc, currentCluster, <<>>, job, pc[1])
  BY Begins DEF write_content
<1>3. CASE job.buffer = <<>> /\ Return /\ UNCHANGED <<todo, halted>>
  BY <1>1, <1>2, <1>3, ReturnKeeps DEF Return
<1>4. CASE /\ job.buffer # <<>>
           /\ NextSector(<<SetSector(Top.cluster, Top.sector,
                             [ZeroSector EXCEPT !.text = Head(job.buffer)])>>)
           /\ job' = [job EXCEPT !.buffer = Tail(@)]
  <2> DEFINE v == [ZeroSector EXCEPT !.text = Head(job.buffer)]
             w == SetSector(Top.cluster, Top.sector, v)
             ws == <<w>>
  <2>1. job.buffer \in Seq(TextType)
    BY <1>1 DEF JobType
  <2>2. Head(job.buffer) \in TextType /\ Tail(job.buffer) \in Seq(TextType)
    BY <2>1, <1>4
  <2>3. /\ job' \in JobType /\ job'.fst = job.fst /\ job'.name = job.name
        /\ job'.cmd = job.cmd /\ job'.hit = job.hit
    BY <2>2, <1>1, <1>4 DEF JobType
  <2>4. v \in SecType /\ \A p \in Pos : v.recs[p] = ZeroRec
    BY <2>2, ZeroSectorKnown DEF SecType
  <2>5. /\ Top.cluster \in Cluster /\ home[Top.cluster] = job.fst /\ Top.sector \in Sector
    BY <1>1, <1>2, WalkingAt DEF Walking, FrameType
  <2>6. ~Anchored(Recs, job.fst)
    <3>1. FreshOK(Links, Recs, home, <<>>, job)
      BY <1>1, <1>2 DEF FrameOK
    <3> QED  BY <3>1, Numbers DEF FreshOK, Anchored
  <2> HIDE DEF v
  <2>7. /\ w \in Write /\ w.w = "sector" /\ w.val = v /\ w.cluster = Top.cluster
    BY <2>4, <2>5 DEF SetSector, Write, SectorWrite
  <2>8. NextSector(ws)
    BY <1>4 DEF v
  <2> HIDE DEF w
  <2>9. ws \in Seq(Write) /\ \A i \in DOMAIN ws : ws[i] = w
    BY <2>7
  <2> HIDE DEF ws
  <2>10. Unnamed(Recs, home, ws)
    BY <2>4, <2>5, <2>6, <2>7, <2>9 DEF Unnamed, Has
  <2>11. HitOK(Recs, home, currentCluster, job) => HitOK(Recs, home, currentCluster, job')
    BY <2>3 DEF HitOK
  <2> QED  BY <2>3, <2>8, <2>10, <2>11, <1>1, <1>2, SectorKeeps DEF Walking
<1> QED  BY <1>3, <1>4 DEF write_content

LEMMA ReadKeeps == ASSUME DInv, read_file PROVE DInv'
<1> DEFINE x == job.hit
           z == Frame("readFile", FstCluster(x))
<1>1. /\ todo = <<>> /\ pc # <<>> /\ halted \in BOOLEAN /\ job \in JobType /\ Shape(pc)
      /\ pc \in Seq(FrameType) /\ pc[1].r = "read" /\ halted' = halted
      /\ UNCHANGED <<disk, currentCluster, todo, cuts>>
      /\ Then(IF x = NOWHERE THEN <<>> ELSE <<z>>, job)
  BY Begins DEF read_file
<1>2. PICK home, rank, anc :
        /\ DiskOK(Links, Recs, home, rank, anc, currentCluster, <<>>, pc, job)
        /\ FrameOK(Links, Recs, home, anc, currentCluster, <<>>, job, pc[1])
  BY Begins DEF read_file
<1>3. CASE x = NOWHERE
  BY <1>1, <1>2, <1>3, ReturnKeeps
<1>4. CASE x # NOWHERE
  <2>1. /\ TableOK(Links, home, rank) /\ RecordsOK(Links, Recs, home)
        /\ PathOK(Recs, home, anc, currentCluster)
        /\ QueueOK(Links, Recs, home, anc, currentCluster, <<>>, job.fst)
    BY <1>2 DEF DiskOK
  <2>2. HitOK(Recs, home, currentCluster, job) /\ job.name \in Text /\ job.fst = 0
    BY <1>1, <1>2 DEF FrameOK
  <2>3. x \in Place /\ Recs[x].name \in Names
    BY <2>2, <1>1, <1>4, FoundKind, NamesKnown
  <2>4. FstCluster(x) = HitFst(Recs, job)
    BY <2>3 DEF FstCluster, HitFst, Recs
  <2> DEFINE c == HitFst(Recs, job)
  <2>5. Anchored(Recs, c)
    BY <2>3 DEF HitFst, Anchored, Owned, Owner
  <2>6. c \in Cluster /\ home[c] = c /\ Links[c] # FREE
    BY <2>1, <2>5, AnchoredHome
  <2> HIDE DEF c
  <2>7. At(Links, home, <<>>, c, c)
    BY <2>6, AtRest
  <2>8. z \in FrameType /\ z.r = "readFile" /\ z.cluster = c
    <3>1. FstCluster(x) = c /\ c \in {0} \cup Cluster /\ "readFile" \in Routines
      BY <2>4, <2>6 DEF c, Routines
    <3>2. /\ Frame("readFile", c) \in FrameType /\ Frame("readFile", c).r = "readFile"
          /\ Frame("readFile", c).cluster = c
      BY <3>1, FrameIs
    <3> QED  BY <3>1, <3>2
  <2> HIDE DEF z
  <2>9. FrameOK(Links, Recs, home, anc, currentCluster, <<>>, job, z)
    BY <2>2, <2>3, <2>7, <2>8, <1>4 DEF FrameOK, Plain, c
  <2>10. <<z>> \in Seq(FrameType) /\ Shape(<<z>>) /\ <<z>> # <<>>
         /\ \A k \in DOMAIN <<z>> : <<z>>[k] = z
    <3>1. /\ <<z>> \in Seq(FrameType) /\ Len(<<z>>) = 1 /\ <<z>> # <<>> /\ <<z>>[1] = z
          /\ \A k \in DOMAIN <<z>> : <<z>>[k] = z
      BY <2>8, OneFrame
    <3> QED  BY <3>1, <2>8 DEF Shape
  <2>11. DiskOK(Links, Recs, home, rank, anc, currentCluster, <<>>, <<z>>, job)
    BY <2>1, <2>9, <2>10, <1>1 DEF DiskOK, FramesOK
  <2>12. pc' = <<z>> /\ job' = job
    <3>1. Tail(pc) = <<>>
      BY <1>1, Alone
    <3>2. <<z>> \o <<>> = <<z>>
      OBVIOUS
    <3> QED  BY <3>1, <3>2, <2>10, <1>1, <1>4 DEF Then
  <2>13. DiskOK(Links, Recs, home, rank, anc, currentCluster', todo', pc', job')
    BY <2>11, <2>12, <1>1
  <2> QED  BY <2>13, <1>1, Settled
<1> QED  BY <1>3, <1>4

LEMMA ReadFileKeeps == ASSUME DInv, readFile PROVE DInv'
<1>1. /\ todo = <<>> /\ pc # <<>> /\ halted \in BOOLEAN /\ job \in JobType
      /\ Top = pc[1] /\ Top \in FrameType /\ Top.r = "readFile"
      /\ UNCHANGED <<disk, currentCluster, cuts>>
  BY Begins DEF readFile
<1>2. PICK home, rank, anc :
        DiskOK(Links, Recs, home, rank, anc, currentCluster, <<>>, pc, job)
  BY Begins DEF readFile
<1>3. CASE Return /\ UNCHANGED <<todo, halted>>
  BY <1>1, <1>2, <1>3, ReturnKeeps DEF Return
<1>4. CASE NextSector(<<>>) /\ job' = [job EXCEPT !.buffer = Append(@, Here.text)]
  <2>1. Top.cluster \in Cluster /\ Top.sector \in Sector
    BY <1>1, <1>2, WalkingAt DEF Walking, FrameType
  <2>2. Here.text \in TextType
    BY <2>1, HereIs DEF Here, DInv, SecType
  <2>3. Append(job.buffer, Here.text) \in Seq(TextType)
    <3>1. job.buffer \in Seq(TextType)
      BY <1>1 DEF JobType
    <3> QED  BY <2>2, <3>1
  <2>4. /\ job' \in JobType /\ job'.fst = job.fst /\ job'.name = job.name
        /\ job'.cmd = job.cmd /\ job'.hit = job.hit
    BY <2>3, <1>1, <1>4 DEF JobType
  <2>5. Unnamed(Recs, home, <<>>)
    BY DEF Unnamed, Has
  <2>6. HitOK(Recs, home, currentCluster, job) => HitOK(Recs, home, currentCluster, job')
    BY <2>4 DEF HitOK
  <2> QED  BY <2>4, <2>5, <2>6, <1>1, <1>2, <1>4, SectorKeeps DEF Walking
<1> QED  BY <1>3, <1>4 DEF readFile

----------------------------------------------------------------------------
\* The commands, the power cut and the start.

LEMMA Consed ==
  ASSUME NEW S, NEW a \in S, NEW t \in Seq(S)
  PROVE  LET s == <<a>> \o t
         IN  /\ DOMAIN s = 1..Len(s) /\ Len(s) = Len(t) + 1 /\ s[1] = a
             /\ \A i \in 1..Len(t) : s[i + 1] = t[i]
<1> DEFINE s == <<a>> \o t
<1>1. <<a>> \in Seq(S) /\ Len(<<a>>) = 1 /\ <<a>>[1] = a /\ Len(t) \in Nat
  OBVIOUS
<1>2. s \in Seq(S) /\ Len(s) = Len(t) + 1
  BY <1>1
<1>3. IsSeq(t) /\ IsSeq(<<a>>)
  BY <1>1, SeqOfElements
<1>4. /\ \A i \in 1..Len(<<a>>) : s[i] = <<a>>[i]
      /\ \A i \in 1..Len(t) : s[Len(<<a>>) + i] = t[i]
  BY <1>3, JoinedElements
<1> HIDE DEF s
<1>5. \A i \in 1..Len(t) : 1 + i = i + 1
  BY <1>1
<1> QED  BY <1>1, <1>2, <1>4, <1>5 DEF s

LEMMA Listing ==
  ASSUME NEW cmd \in {"ls", "mkdir", "cd", "rm", "read", "write"}
  PROVE  LET calls == <<"list_files">> \o Calls(cmd)
         IN  /\ DOMAIN calls = 1..Len(calls) /\ calls[1] = "list_files"
             /\ Len(calls) = IF cmd = "ls" THEN 1 ELSE IF cmd = "write" THEN 3 ELSE 2
             /\ cmd = "write" => calls[2] = "rmold" /\ calls[3] = "writeFile"
             /\ cmd \in {"mkdir", "cd", "rm", "read"} => calls[2] = cmd
<1> DEFINE S == {"list_files", "rmold", "writeFile", cmd}
           t == Calls(cmd)
           calls == <<"list_files">> \o t
<1>1. /\ t \in Seq(S) /\ Len(t) = IF cmd = "ls" THEN 0 ELSE IF cmd = "write" THEN 2 ELSE 1
      /\ cmd = "write" => t[1] = "rmold" /\ t[2] = "writeFile"
      /\ cmd \in {"mkdir", "cd", "rm", "read"} => t[1] = cmd
  <2>1. CASE cmd = "ls"
    <3>1. t = <<>>
      BY <2>1 DEF Calls
    <3> HIDE DEF t, S
    <3> QED  BY <2>1, <3>1
  <2>2. CASE cmd = "write"
    <3>1. t = <<"rmold", "writeFile">>
      BY <2>2 DEF Calls
    <3> HIDE DEF t
    <3> QED  BY <2>2, <3>1
  <2>3. CASE cmd \notin {"ls", "write"}
    <3>1. t = <<cmd>>
      BY <2>3 DEF Calls
    <3> HIDE DEF t
    <3> QED  BY <2>3, <3>1
  <2> QED  BY <2>1, <2>2, <2>3
<1>2. "list_files" \in S
  OBVIOUS
<1> HIDE DEF S, t
<1>3. /\ DOMAIN calls = 1..Len(calls) /\ Len(calls) = Len(t) + 1 /\ calls[1] = "list_files"
      /\ \A i \in 1..Len(t) : calls[i + 1] = t[i]
  BY <1>1, <1>2, Consed
<1> HIDE DEF calls
<1>4. /\ Len(calls) = IF cmd = "ls" THEN 1 ELSE IF cmd = "write" THEN 3 ELSE 2
      /\ cmd = "write" => calls[2] = "rmold" /\ calls[3] = "writeFile"
      /\ cmd \in {"mkdir", "cd", "rm", "read"} => calls[2] = cmd
  <2>1. CASE cmd = "ls"
    BY <2>1, <1>1, <1>3
  <2>2. CASE cmd = "write"
    BY <2>2, <1>1, <1>3
  <2>3. CASE cmd \in {"mkdir", "cd", "rm", "read"}
    BY <2>3, <1>1, <1>3
  <2> QED  BY <2>1, <2>2, <2>3
<1> QED  BY <1>3, <1>4 DEF calls, t

LEMMA ProcessKeeps ==
  ASSUME DInv, NEW cmd, NEW name, NEW content \in Seq(TextType),
         \/ cmd = "ls" /\ name = DOT
         \/ cmd = "mkdir" /\ name \in Names \ Text
         \/ cmd = "cd" /\ name \in CdNames
         \/ cmd = "rm" /\ name \in Names
         \/ cmd \in {"write", "read"} /\ name \in Text,
         process_cmd(cmd, name, content)
  PROVE  DInv'
<1> DEFINE calls == <<"list_files">> \o Calls(cmd)
           i == [NoJob EXCEPT !.cmd = cmd, !.name = name, !.content = content,
                              !.buffer = content]
<1>1. /\ pc = <<>> /\ todo = <<>> /\ todo' = <<>> /\ job' = i
      /\ pc' = [k \in DOMAIN calls |-> Frame(calls[k], currentCluster)]
      /\ UNCHANGED <<disk, currentCluster, halted, cuts>>
  BY DEF process_cmd
<1>2. PICK home, rank, anc :
        DiskOK(Links, Recs, home, rank, anc, currentCluster, <<>>, pc, job)
  BY <1>1, Unprimed
<1>3. /\ TableOK(Links, home, rank) /\ RecordsOK(Links, Recs, home)
      /\ PathOK(Recs, home, anc, currentCluster)
  BY <1>2 DEF DiskOK
<1>4. currentCluster \in Cluster /\ At(Links, home, <<>>, currentCluster, currentCluster)
  <2>1. Anchored(Recs, currentCluster)
    BY <1>3, PathAnchored
  <2> QED  BY <2>1, <1>3, AnchoredHome, AtRest
<1>5. /\ cmd \in {"ls", "mkdir", "cd", "rm", "read", "write"}
      /\ name \in Names \cup Dots
  BY NamesKnown DEF CdNames, Dots
<1>6. /\ i \in JobType /\ i.fst = 0 /\ i.hit = NOWHERE /\ i.name = name /\ i.cmd = cmd
  BY <1>5 DEF JobType, NoJob
<1>7. /\ DOMAIN calls = 1..Len(calls) /\ calls[1] = "list_files"
      /\ Len(calls) = IF cmd = "ls" THEN 1 ELSE IF cmd = "write" THEN 3 ELSE 2
      /\ cmd = "write" => calls[2] = "rmold" /\ calls[3] = "writeFile"
      /\ cmd \in {"mkdir", "cd", "rm", "read"} => calls[2] = cmd
  BY <1>5, Listing
<1> HIDE DEF calls, i
<1>8. /\ \A k \in DOMAIN calls : k \in {1, 2, 3}
      /\ \A k \in DOMAIN calls :
           \/ calls[k] = "list_files"
           \/ calls[k] = cmd /\ cmd \in {"mkdir", "cd", "rm", "read"}
           \/ calls[k] \in {"rmold", "writeFile"} /\ cmd = "write"
  <2>1. DOMAIN calls \subseteq {1, 2, 3}
    BY <1>7
  <2>2. /\ 2 \in DOMAIN calls => cmd # "ls"
        /\ 3 \in DOMAIN calls => cmd = "write"
    BY <1>7
  <2> QED  BY <2>1, <2>2, <1>5, <1>7
<1>9. \A k \in DOMAIN calls : /\ pc'[k] \in FrameType /\ pc'[k].r = calls[k]
                              /\ pc'[k].cluster = currentCluster
  <2> TAKE k \in DOMAIN calls
  <2>1. calls[k] \in Routines
    BY <1>8 DEF Routines
  <2>2. pc'[k] = Frame(calls[k], currentCluster)
    BY <1>1
  <2>3. currentCluster \in {0} \cup Cluster
    BY <1>4
  <2> QED  BY <2>1, <2>2, <2>3, FrameIs
<1>10. /\ pc' \in Seq(FrameType) /\ Len(pc') = Len(calls) /\ DOMAIN pc' = DOMAIN calls
  <2>1. Len(calls) \in Nat
    BY <1>7
  <2>2. pc' \in [1..Len(calls) -> FrameType]
    BY <1>1, <1>7, <1>9
  <2> QED  BY <2>1, <2>2, <1>1, <1>7, FunctionSeq
<1>11. Shape(pc')
  <2>1. /\ 1 \in DOMAIN calls /\ (Len(calls) >= 2 => 2 \in DOMAIN calls)
        /\ (Len(calls) = 3 => 3 \in DOMAIN calls)
    BY <1>7
  <2>2. /\ pc'[1].r = calls[1] /\ (Len(calls) >= 2 => pc'[2].r = calls[2])
        /\ (Len(calls) = 3 => pc'[3].r = calls[3])
    BY <2>1, <1>9
  <2>3. CASE cmd = "ls"
    BY <2>2, <2>3, <1>7, <1>10 DEF Shape
  <2>4. CASE cmd = "write"
    BY <2>2, <2>4, <1>7, <1>10 DEF Shape
  <2>5. CASE cmd \in {"mkdir", "cd", "rm", "read"}
    BY <2>2, <2>5, <1>7, <1>10 DEF Shape
  <2> QED  BY <2>3, <2>4, <2>5, <1>5
<1>12. ASSUME NEW k \in DOMAIN pc'
       PROVE  FrameOK(Links, Recs, home, anc, currentCluster, <<>>, i, pc'[k])
  <2>1. HitOK(Recs, home, currentCluster, i) /\ Plain(<<>>)
    BY <1>6 DEF HitOK, Plain
  <2>2. /\ pc'[k].cluster = currentCluster
        /\ \/ pc'[k].r = "list_files"
           \/ pc'[k].r = cmd /\ cmd \in {"mkdir", "cd", "rm", "read"}
           \/ pc'[k].r \in {"rmold", "writeFile"} /\ cmd = "write"
    BY <1>8, <1>9, <1>10
  <2>3. CASE pc'[k].r = "list_files"
    BY <2>1, <2>2, <2>3, <1>4, <1>6 DEF FrameOK, Freeing
  <2>4. CASE pc'[k].r = cmd /\ cmd \in {"mkdir", "cd", "rm", "read"}
    BY <2>1, <2>2, <2>4, <1>4, <1>6 DEF FrameOK, Freeing
  <2>5. CASE pc'[k].r \in {"rmold", "writeFile"} /\ cmd = "write"
    BY <2>1, <2>2, <2>5, <1>4, <1>6, NamesKnown DEF FrameOK, Freeing
  <2> QED  BY <2>2, <2>3, <2>4, <2>5
<1>13. DiskOK(Links, Recs, home, rank, anc, currentCluster', todo', pc', job')
  <2>1. QueueOK(Links, Recs, home, anc, currentCluster, <<>>, i.fst)
    <3>1. <<>> \in Seq(Write)
      OBVIOUS
    <3> QED  BY <3>1 DEF QueueOK
  <2> QED  BY <2>1, <1>1, <1>3, <1>6, <1>10, <1>11, <1>12 DEF DiskOK, FramesOK
<1>14. halted' \in BOOLEAN
  BY <1>1 DEF DInv, Types
<1> QED  BY <1>1, <1>13, <1>14, Settled

LEMMA CommandKeeps == ASSUME DInv, Command PROVE DInv'
<1>1. <<>> \in Seq(TextType)
  OBVIOUS
<1>2. \A content \in Contents : content \in Seq(TextType)
  <2> TAKE content \in Contents
  <2>1. content \in Seq(STRING)
    BY ContentsAssumption
  <2>2. \A A, B : \A q \in Seq(A) : A \subseteq B => q \in Seq(B)
    <3> TAKE A, B
    <3> TAKE q \in Seq(A)
    <3> HAVE A \subseteq B
    <3>1. Len(q) \in Nat /\ q \in [1..Len(q) -> B]
      OBVIOUS
    <3> QED  BY <3>1, FunctionSeq
  <2>3. STRING \subseteq TextType
    BY DEF TextType
  <2> HIDE DEF TextType
  <2> QED  BY ONLY <2>1, <2>2, <2>3
<1>3. CASE process_cmd("ls", DOT, <<>>)
  BY <1>1, <1>3, ProcessKeeps
<1>4. ASSUME NEW n \in Names \ Text, process_cmd("mkdir", n, <<>>) PROVE DInv'
  BY <1>1, <1>4, ProcessKeeps
<1>5. ASSUME NEW n \in CdNames, process_cmd("cd", n, <<>>) PROVE DInv'
  BY <1>1, <1>5, ProcessKeeps
<1>6. ASSUME NEW n \in Names, process_cmd("rm", n, <<>>) PROVE DInv'
  BY <1>1, <1>6, ProcessKeeps
<1>7. ASSUME NEW n \in Text, NEW content \in Contents, process_cmd("write", n, content)
      PROVE  DInv'
  BY <1>2, <1>7, ProcessKeeps
<1>8. ASSUME NEW n \in Text, process_cmd("read", n, <<>>) PROVE DInv'
  BY <1>1, <1>8, ProcessKeeps
<1> QED  BY <1>3, <1>4, <1>5, <1>6, <1>7, <1>8 DEF Command

LEMMA AtStart ==
  ASSUME NEW home, NEW rank, TableOK(Links, home, rank), RecordsOK(Links, Recs, home)
  PROVE  DiskOK(Links, Recs, home, rank, <<ROOT>>, ROOT, <<>>, <<>>, NoJob)
<1>1. PathOK(Recs, home, <<ROOT>>, ROOT)
  BY PathAtRoot
<1>2. NoJob \in JobType /\ <<>> \in Seq(FrameType) /\ <<>> \in Seq(Write)
  <2>1. <<>> \in Seq(TextType) /\ <<>> \in Seq(FrameType) /\ <<>> \in Seq(Write)
    OBVIOUS
  <2> QED  BY <2>1 DEF NoJob, JobType
<1> QED  BY <1>1, <1>2 DEF DiskOK, QueueOK, FramesOK, Shape

LEMMA CutKeepsDisk == ASSUME DInv, PowerCut PROVE DInv'
<1>1. \E home, rank : TableOK(Links, home, rank) /\ RecordsOK(Links, Recs, home)
  BY Unprimed DEF DiskOK
<1>2. /\ Links' = Links /\ Recs' = Recs /\ currentCluster' = ROOT /\ pc' = <<>>
      /\ todo' = <<>> /\ job' = NoJob
  BY SameDisk DEF PowerCut
<1>3. Types'
  <2>1. cuts' \in 0..MaxCuts /\ halted' \in BOOLEAN
    <3>1. cuts \in 0..MaxCuts /\ MaxCuts \in Nat /\ cuts < MaxCuts /\ cuts' = cuts + 1
      BY Fat32Assumption DEF DInv, Types, PowerCut
    <3>2. cuts' \in 0..MaxCuts
      BY <3>1
    <3> QED  BY <3>2 DEF PowerCut
  <2> QED  BY <2>1 DEF DInv, Types, PowerCut, disk
<1>4. ASSUME NEW home, NEW rank, TableOK(Links, home, rank), RecordsOK(Links, Recs, home)
      PROVE  DInv'
  <2>1. DiskOK(Links, Recs, home, rank, <<ROOT>>, ROOT, <<>>, <<>>, NoJob)
    BY <1>4, AtStart
  <2>2. DiskOK(Links', Recs', home, rank, <<ROOT>>, currentCluster', todo', pc', job')
    BY <1>2, <2>1
  <2> QED  BY <1>3, <2>2, Primed
<1> QED  BY <1>1, <1>4

LEMMA DiskInit == Init => DInv
<1> SUFFICES ASSUME Init PROVE DInv
  OBVIOUS
<1> DEFINE home == [c \in Cluster |-> IF c = ROOT THEN ROOT ELSE 0]
           rank == [c \in Cluster |-> 0]
           first == [c \in Entries |-> IF c = 0 THEN MEDIA
                                       ELSE IF c \in {1, ROOT} THEN END_CLUSTER ELSE FREE]
<1>1. /\ fat = [k \in Copy |-> first] /\ first \in [Entries -> FatValue]
      /\ first[0] = MEDIA /\ first[ROOT] = END_CLUSTER
      /\ \A c \in Cluster : c # ROOT => first[c] = FREE
  <2>1. \A c \in Entries : /\ first[c] = CASE c = 0 -> MEDIA [] c \in {1, ROOT} -> END_CLUSTER
                                           [] OTHER -> FREE
    BY DEF ROOT
  <2>2. fat = [k \in Copy |-> first]
    BY <2>1 DEF Init
  <2>3. \A c \in Cluster : c # 0 /\ c # 1
    BY DEF Cluster
  <2> QED  BY <2>2, <2>3, Numbers DEF ROOT
<1>2. Links = first
  BY <1>1, OneCopy DEF Links
<1> HIDE DEF first
<1>3. TableOK(Links, home, rank)
  BY <1>1, <1>2, Numbers DEF TableOK
<1>4. PICK recs \in [Pos -> {ZeroRec} \cup {[ZeroRec EXCEPT !.name = n] : n \in Foreign}] :
        data = [c \in Cluster |-> [s \in Sector |->
                  IF c = ROOT /\ s = 0 THEN [ZeroSector EXCEPT !.recs = recs]
                  ELSE ZeroSector]]
  BY DEF Init
<1>5. \A n \in Foreign : /\ [ZeroRec EXCEPT !.name = n] \in RecType /\ n \in Text
                         /\ [ZeroRec EXCEPT !.name = n].cluster = 0
                         /\ [ZeroRec EXCEPT !.name = n].name = n
                         /\ [ZeroRec EXCEPT !.name = n].dir = FALSE
  BY Fat32Assumption DEF ZeroRec, RecType
<1>6. \A p \in Pos : /\ recs[p] \in RecType /\ recs[p].cluster = 0 /\ recs[p].dir = FALSE
                     /\ recs[p].name \in Text \cup {UNUSED}
  <2> TAKE p \in Pos
  <2>1. CASE recs[p] = ZeroRec
    <3>1. ZeroRec.dir = FALSE
      BY DEF ZeroRec
    <3> QED  BY <2>1, <3>1, NamesKnown
  <2>2. CASE \E n \in Foreign : recs[p] = [ZeroRec EXCEPT !.name = n]
    BY <2>2, <1>5
  <2> QED  BY <2>1, <2>2, <1>4
<1>7. data \in [Cluster -> [Sector -> SecType]]
  <2>1. ZeroSector \in SecType
    BY ZeroSectorKnown
  <2>2. recs \in [Pos -> RecType]
    BY <1>4, <1>6
  <2>3. [ZeroSector EXCEPT !.recs = recs] \in SecType
    BY <2>1, <2>2 DEF SecType
  <2> QED  BY <2>1, <2>3, <1>4
<1>8. \A x \in Place : /\ Recs[x] \in RecType /\ Recs[x].cluster = 0 /\ Recs[x].dir = FALSE
                       /\ Recs[x].name \in Text \cup {UNUSED}
  <2> TAKE x \in Place
  <2>1. x.cluster \in Cluster /\ x.sector \in Sector /\ x.pos \in Pos
    BY DEF Place
  <2>2. Recs[x] = data[x.cluster][x.sector].recs[x.pos]
    BY DEF Recs, Rec
  <2>3. CASE x.cluster = ROOT /\ x.sector = 0
    <3>1. data[x.cluster][x.sector] = [ZeroSector EXCEPT !.recs = recs]
      BY <2>1, <2>3, <1>4
    <3>2. Recs[x] = recs[x.pos]
      BY <3>1, <2>2 DEF ZeroSector
    <3> QED  BY <3>2, <2>1, <1>6
  <2>4. CASE ~(x.cluster = ROOT /\ x.sector = 0)
    <3>1. data[x.cluster][x.sector] = ZeroSector
      BY <2>1, <2>4, <1>4
    <3>2. Recs[x] = ZeroRec
      BY <3>1, <2>1, <2>2, ZeroSectorKnown
    <3> QED  BY <3>2, NamesKnown DEF ZeroRec
  <2> QED  BY <2>3, <2>4
<1>9. RecordsOK(Links, Recs, home)
  <2>1. Recs \in [Place -> RecType]
    BY <1>8 DEF Recs
  <2>2. home[ROOT] = ROOT /\ Links[ROOT] # FREE
    BY <1>1, <1>2, Numbers
  <2>3. \A x \in Place : Recs[x].name \notin {DOT, DOTDOT}
    BY <1>8, NamesKnown
  <2>4. \A x \in Place : Recs[x].name \in Names => Recs[x].name \in Text
    BY <1>8, NamesKnown
  <2> HIDE DEF home
  <2> QED  BY <2>1, <2>2, <2>3, <2>4, <1>8 DEF RecordsOK
<1>10. DiskOK(Links, Recs, home, rank, <<ROOT>>, ROOT, <<>>, <<>>, NoJob)
  BY <1>3, <1>9, AtStart
<1> HIDE DEF home, rank
<1>11. DiskOK(Links, Recs, home, rank, <<ROOT>>, currentCluster, todo, pc, job)
  BY <1>10 DEF Init
<1>12. /\ home \in [Cluster -> {0} \cup Cluster] /\ rank \in [Cluster -> Nat]
       /\ <<ROOT>> \in Seq(Cluster)
  BY <1>11 DEF DiskOK, TableOK, PathOK
<1>13. Types
  <2>1. halted = FALSE /\ cuts = 0 /\ 0 \in 0..MaxCuts
    BY Fat32Assumption DEF Init
  <2> QED  BY <2>1, <1>1, <1>7 DEF Types
<1> QED  BY <1>11, <1>12, <1>13 DEF DInv

\* Whose the clusters are is kept by every step of the driver, every command
\* and every power cut, wherever it falls.
THEOREM DiskInvariance == Spec => []DInv
<1>1. Init => DInv
  BY DiskInit
<1>2. ASSUME DInv, [Next]_vars PROVE DInv'
  <2>1. CASE Driver
    <3>1. CASE \E r \in {"add", ".", ".."} : addFileToDirectory(r)
      BY <3>1, <1>2, AddKeeps
    <3>2. CASE \E r \in {"rm", "rmold"} : removeEntryFromDirectory(r)
      BY <3>2, <1>2, RemoveKeeps
    <3> QED  BY <2>1, <3>1, <3>2, <1>2, WriteKeepsDisk, ListKeeps, FreeKeeps, MkdirKeeps,
                CdKeeps, WriteFileKeeps, ContentKeeps, ReadKeeps, ReadFileKeeps DEF Driver
  <2>2. CASE UNCHANGED vars
    <3>1. PICK home, rank, anc :
            DiskOK(Links, Recs, home, rank, anc, currentCluster, todo, pc, job)
      BY <1>2, Unprimed
    <3>2. DiskOK(Links, Recs, home, rank, anc, currentCluster', todo', pc', job')
      BY <2>2, <3>1 DEF vars
    <3>3. halted' \in BOOLEAN /\ UNCHANGED <<disk, cuts>>
      BY <2>2, <1>2 DEF vars, DInv, Types
    <3> QED  BY <3>2, <3>3, <1>2, Settled
  <2>3. CASE Command
    BY <2>3, <1>2, CommandKeeps
  <2>4. CASE PowerCut
    BY <2>4, <1>2, CutKeepsDisk
  <2>5. CASE Stopped
    BY <2>5, <2>2 DEF Stopped
  <2> QED  BY <2>1, <2>2, <2>3, <2>4, <2>5, <1>2 DEF Next
<1> QED  BY <1>1, <1>2, PTL DEF Spec


----------------------------------------------------------------------------
\* What is read off the disk: iterated sets that grow until they stay.

LEMMA NoLeast ==
  ASSUME NEW Bad \in SUBSET Nat, \A m \in Bad : \E k \in Bad : k < m
  PROVE  Bad = {}
<1> SUFFICES ASSUME Bad # {} PROVE FALSE
  OBVIOUS
<1>1. Least(Bad) \in Bad /\ \A y \in Bad : Least(Bad) <= y
  BY LeastIn
<1>2. PICK k \in Bad : k < Least(Bad)
  BY <1>1
<1>3. k \in Nat /\ Least(Bad) \in Nat /\ Least(Bad) <= k
  BY <1>1
<1> QED  BY <1>2, <1>3

\* A function applied over and over has its iterates.
LEMMA Iterates ==
  ASSUME NEW T, NEW s \in T, NEW G \in [T -> T]
  PROVE  \E f \in [Nat -> T] : f[0] = s /\ \A n \in Nat : f[n + 1] = G[f[n]]
<1> DEFINE A(n) == {a \in [0..n -> T] : a[0] = s /\ \A i \in 0..(n - 1) : a[i + 1] = G[a[i]]}
<1>1. \A n \in Nat : A(n) # {}
  <2> DEFINE Bad == {n \in Nat : A(n) = {}}
  <2>1. ASSUME NEW m \in Bad PROVE \E k \in Bad : k < m
    <3>1. m \in Nat /\ A(m) = {}
      OBVIOUS
    <3>2. m # 0
      <4> SUFFICES ASSUME m = 0 PROVE FALSE
        OBVIOUS
      <4> DEFINE a == [i \in 0..0 |-> s]
      <4>1. a \in [0..0 -> T] /\ a[0] = s /\ \A i \in 0..(0 - 1) : FALSE
        OBVIOUS
      <4>2. a \in A(0)
        BY <4>1
      <4> QED  BY <3>1, <4>2
    <3>3. m - 1 \in Nat /\ m - 1 < m
      BY <3>1, <3>2
    <3>4. A(m - 1) = {}
      <4> SUFFICES ASSUME A(m - 1) # {} PROVE FALSE
        OBVIOUS
      <4>1. PICK a \in A(m - 1) : TRUE
        OBVIOUS
      <4>2. /\ a \in [0..(m - 1) -> T] /\ a[0] = s
            /\ \A i \in 0..((m - 1) - 1) : a[i + 1] = G[a[i]]
        OBVIOUS
      <4> DEFINE b == [i \in 0..m |-> IF i = m THEN G[a[m - 1]] ELSE a[i]]
      <4>3. m - 1 \in 0..(m - 1) /\ \A i \in 0..m : i # m => i \in 0..(m - 1)
        BY <3>1, <3>3
      <4>4. b \in [0..m -> T]
        BY <4>2, <4>3
      <4>5. b[0] = s
        BY <4>2, <3>1, <3>2
      <4>6. ASSUME NEW i \in 0..(m - 1) PROVE b[i + 1] = G[b[i]]
        <5>1. i \in 0..m /\ i + 1 \in 0..m /\ i # m /\ b[i] = a[i]
          BY <3>1, <3>3
        <5>2. CASE i = m - 1
          BY <5>1, <5>2, <3>1
        <5>3. CASE i # m - 1
          <6>1. i \in 0..((m - 1) - 1) /\ i + 1 # m
            BY <5>3, <3>1, <3>3
          <6> QED  BY <6>1, <5>1, <4>2
        <5> QED  BY <5>2, <5>3
      <4> HIDE DEF b
      <4>7. b \in A(m)
        BY <4>4, <4>5, <4>6
      <4> QED  BY <4>7, <3>1
    <3> QED  BY <3>3, <3>4
  <2>2. Bad \in SUBSET Nat
    OBVIOUS
  <2> HIDE DEF Bad
  <2>3. Bad = {}
    BY <2>1, <2>2, NoLeast
  <2> QED  BY <2>3 DEF Bad
<1>2. ASSUME NEW n \in Nat, NEW a \in A(n), NEW b \in A(n + 1)
      PROVE  a[n] = b[n] /\ b[n + 1] = G[b[n]]
  <2>1. /\ a \in [0..n -> T] /\ a[0] = s /\ \A i \in 0..(n - 1) : a[i + 1] = G[a[i]]
        /\ b \in [0..(n + 1) -> T] /\ b[0] = s
        /\ \A i \in 0..((n + 1) - 1) : b[i + 1] = G[b[i]]
    OBVIOUS
  <2> DEFINE Bad == {i \in 0..n : a[i] # b[i]}
  <2>2. ASSUME NEW m \in Bad PROVE \E k \in Bad : k < m
    <3>1. m \in 0..n /\ a[m] # b[m] /\ m # 0
      BY <2>1
    <3>2. m - 1 \in 0..(n - 1) /\ m - 1 \in 0..((n + 1) - 1) /\ (m - 1) + 1 = m
          /\ m - 1 \in 0..n /\ m - 1 < m
      BY <3>1
    <3>3. a[(m - 1) + 1] = G[a[m - 1]] /\ b[(m - 1) + 1] = G[b[m - 1]]
      BY <2>1, <3>2
    <3>4. m - 1 \in Bad
      BY <3>1, <3>2, <3>3
    <3> QED  BY <3>2, <3>4
  <2>3. Bad \in SUBSET Nat
    OBVIOUS
  <2> HIDE DEF Bad
  <2>4. Bad = {}
    BY <2>2, <2>3, NoLeast
  <2>5. n \in 0..n /\ n \in 0..((n + 1) - 1)
    OBVIOUS
  <2> QED  BY <2>1, <2>4, <2>5 DEF Bad
<1> DEFINE C(n) == CHOOSE a \in A(n) : TRUE
           f == [n \in Nat |-> C(n)[n]]
<1>3. ASSUME NEW n \in Nat PROVE C(n) \in A(n) /\ f[n] = C(n)[n] /\ f[n] \in T
  <2>1. C(n) \in A(n)
    <3> HIDE DEF A
    <3> QED  BY <1>1
  <2>2. C(n) \in [0..n -> T] /\ n \in 0..n
    <3> HIDE DEF C
    <3> QED  BY <2>1
  <2> HIDE DEF A, C
  <2> QED  BY <2>1, <2>2
<1>4. C(0)[0] = s
  <2> HIDE DEF C
  <2> QED  BY <1>3
<1>5. ASSUME NEW n \in Nat PROVE f[n + 1] = G[f[n]]
  <2>1. n + 1 \in Nat
    OBVIOUS
  <2> HIDE DEF A, C, f
  <2> QED  BY <2>1, <1>2, <1>3
<1> HIDE DEF A, C
<1>6. f \in [Nat -> T]
  BY <1>3
<1>7. f[0] = s
  BY <1>4
<1> QED  BY <1>5, <1>6, <1>7

\* Iterates that only grow stay once there is no room to grow.
Growing(T, L, G, f) ==
  /\ IsFiniteSet(T) /\ L \in Nat /\ Cardinality(T) <= L + 1
  /\ G \in [SUBSET T -> SUBSET T] /\ \A S \in SUBSET T : S \subseteq G[S]
  /\ f \in [Nat -> SUBSET T] /\ f[0] # {} /\ \A n \in Nat : f[n + 1] = G[f[n]]

LEMMA Saturated ==
  ASSUME NEW T, NEW L, NEW G, NEW f, Growing(T, L, G, f)
  PROVE  G[f[L]] = f[L]
<1> USE DEF Growing
<1>1. ASSUME NEW n \in Nat
      PROVE  /\ IsFiniteSet(f[n]) /\ Cardinality(f[n]) \in Nat
             /\ Cardinality(f[n]) <= Cardinality(T) /\ f[n] \subseteq f[n + 1]
  <2>1. f[n] \in SUBSET T
    OBVIOUS
  <2> QED  BY <2>1, FS_Subset, FS_CardinalityType
<1>2. CASE \E n \in 0..L : f[n + 1] = f[n]
  <2>1. PICK n \in 0..L : f[n + 1] = f[n]
    BY <1>2
  <2> DEFINE Bad == {m \in Nat : n <= m /\ f[m] # f[n]}
  <2>2. ASSUME NEW m \in Bad PROVE \E k \in Bad : k < m
    <3>1. m \in Nat /\ n \in Nat /\ n <= m /\ f[m] # f[n] /\ m # n
      OBVIOUS
    <3>2. m - 1 \in Nat /\ n <= m - 1 /\ m - 1 < m /\ (m - 1) + 1 = m
      BY <3>1
    <3>3. f[(m - 1) + 1] = G[f[m - 1]] /\ f[n + 1] = G[f[n]]
      BY <3>1, <3>2
    <3>4. f[m - 1] # f[n]
      BY <2>1, <3>1, <3>2, <3>3
    <3> QED  BY <3>2, <3>4
  <2>3. Bad \in SUBSET Nat
    OBVIOUS
  <2> HIDE DEF Bad
  <2>4. Bad = {}
    BY <2>2, <2>3, NoLeast
  <2>5. L \in Nat /\ n <= L /\ L + 1 \in Nat /\ n <= L + 1 /\ n \in Nat
    OBVIOUS
  <2>6. f[L] = f[n] /\ f[L + 1] = f[n]
    BY <2>4, <2>5 DEF Bad
  <2> QED  BY <2>6
<1>3. CASE \A n \in 0..L : f[n + 1] # f[n]
  <2> DEFINE Bad == {n \in 0..(L + 1) : Cardinality(f[n]) < n + 1}
  <2>1. ASSUME NEW m \in Bad PROVE \E k \in Bad : k < m
    <3>1. m \in Nat /\ m \in 0..(L + 1) /\ Cardinality(f[m]) < m + 1
      OBVIOUS
    <3>2. m # 0
      <4> SUFFICES ASSUME m = 0 PROVE FALSE
        OBVIOUS
      <4>1. Cardinality(f[0]) \in Nat /\ IsFiniteSet(f[0])
        BY <1>1
      <4>2. Cardinality(f[0]) # 0
        BY <4>1, FS_EmptySet
      <4> QED  BY <3>1, <4>1, <4>2
    <3>3. m - 1 \in Nat /\ m - 1 \in 0..L /\ m - 1 < m /\ (m - 1) + 1 = m
          /\ m - 1 \in 0..(L + 1)
      BY <3>1, <3>2
    <3>4. f[m] # f[m - 1] /\ f[m - 1] \subseteq f[m]
      <4>1. f[(m - 1) + 1] # f[m - 1] /\ f[m - 1] \subseteq f[(m - 1) + 1]
        BY <3>3, <1>1, <1>3
      <4> QED  BY <4>1, <3>3
    <3>5. /\ Cardinality(f[m]) \in Nat /\ Cardinality(f[m - 1]) \in Nat
          /\ IsFiniteSet(f[m])
      BY <3>1, <3>3, <1>1
    <3>6. Cardinality(f[m - 1]) <= Cardinality(f[m]) /\ Cardinality(f[m]) # Cardinality(f[m - 1])
      <4>1. f[m - 1] \in SUBSET f[m]
        BY <3>4
      <4>2. /\ Cardinality(f[m - 1]) <= Cardinality(f[m])
            /\ Cardinality(f[m]) = Cardinality(f[m - 1]) => f[m] = f[m - 1]
        BY <4>1, <3>5, FS_Subset
      <4> QED  BY <4>2, <3>4
    <3>7. Cardinality(f[m - 1]) < (m - 1) + 1
      <4>1. \A u, v, k \in Nat : u <= v /\ v # u /\ v < k + 1 /\ k # 0 => u < (k - 1) + 1
        OBVIOUS
      <4> QED  BY <4>1, <3>1, <3>2, <3>5, <3>6
    <3> QED  BY <3>3, <3>7
  <2>2. Bad \in SUBSET Nat
    OBVIOUS
  <2> HIDE DEF Bad
  <2>3. Bad = {}
    BY <2>1, <2>2, NoLeast
  <2>4. L + 1 \in 0..(L + 1) /\ L + 1 \in Nat
    OBVIOUS
  <2>5. ~(Cardinality(f[L + 1]) < (L + 1) + 1)
    BY <2>3, <2>4 DEF Bad
  <2>6. Cardinality(f[L + 1]) \in Nat /\ Cardinality(f[L + 1]) <= Cardinality(T)
        /\ Cardinality(T) \in Nat
    BY <2>4, <1>1, FS_CardinalityType
  <2> QED  BY <2>5, <2>6
<1> QED  BY <1>2, <1>3

----------------------------------------------------------------------------
\* Chains.

Linkable == {FREE, END_CLUSTER} \cup Cluster

Linked ==
  [S \in SUBSET Linkable |->
     UNION {{c} \cup (IF c \in Cluster THEN {fat[1][c]} ELSE {}) : c \in S}]

ChainGrows(g, h) ==
  g = [n \in Nat |->
        IF n = 0 THEN {h} \ {0}
        ELSE UNION {{c} \cup (IF c \in Cluster THEN {fat[1][c]} ELSE {}) : c \in g[n - 1]}]

ChainSets(g, h) ==
  /\ g \in [Nat -> SUBSET Linkable] /\ g[0] = {h} \ {0}
  /\ \A n \in Nat : g[n + 1] = Linked[g[n]]
  /\ Chain(h) = g[LAST_CLUSTER] \ {END_CLUSTER}

LEMMA LinkedType ==
  ASSUME \A c \in Cluster : Links[c] \in Linkable
  PROVE  /\ Linked \in [SUBSET Linkable -> SUBSET Linkable]
         /\ \A S \in SUBSET Linkable :
              /\ S \subseteq Linked[S]
              /\ \A c \in S \cap Cluster : Links[c] \in Linked[S]
              /\ \A d \in Linked[S] : d \in S \/ \E c \in S \cap Cluster : d = Links[c]
<1> DEFINE U(S) == UNION {{c} \cup (IF c \in Cluster THEN {fat[1][c]} ELSE {}) : c \in S}
<1>1. ASSUME NEW S \in SUBSET Linkable
      PROVE  /\ U(S) \subseteq Linkable /\ S \subseteq U(S)
             /\ \A c \in S \cap Cluster : Links[c] \in U(S)
             /\ \A d \in U(S) : d \in S \/ \E c \in S \cap Cluster : d = Links[c]
  <2>1. ASSUME NEW d \in U(S) PROVE d \in S \/ \E c \in S \cap Cluster : d = Links[c]
    BY DEF Links
  <2>2. S \subseteq U(S)
    OBVIOUS
  <2>3. \A c \in S \cap Cluster : Links[c] \in U(S)
    BY DEF Links
  <2> HIDE DEF U
  <2> QED  BY <2>1, <2>2, <2>3
<1>2. Linked = [S \in SUBSET Linkable |-> U(S)]
  BY DEF Linked
<1> HIDE DEF U
<1> QED  BY <1>1, <1>2

LEMMA ChainIs ==
  ASSUME \A c \in Cluster : Links[c] \in Linkable, NEW h \in {0} \cup Cluster
  PROVE  \E g : ChainSets(g, h)
<1>1. Linked \in [SUBSET Linkable -> SUBSET Linkable]
  BY LinkedType
<1>2. {h} \ {0} \in SUBSET Linkable
  BY DEF Linkable
<1>3. PICK f \in [Nat -> SUBSET Linkable] :
        f[0] = {h} \ {0} /\ \A n \in Nat : f[n + 1] = Linked[f[n]]
  <2> DEFINE T == SUBSET Linkable
  <2>1. Linked \in [T -> T] /\ {h} \ {0} \in T
    BY <1>1, <1>2
  <2> HIDE DEF T
  <2>2. \E f \in [Nat -> T] : f[0] = {h} \ {0} /\ \A n \in Nat : f[n + 1] = Linked[f[n]]
    BY <2>1, Iterates, SMTT(60)
  <2> QED  BY <2>2 DEF T
<1>4. ChainGrows(f, h)
  <2>1. ASSUME NEW n \in Nat, n # 0
        PROVE  f[n] = UNION {{c} \cup (IF c \in Cluster THEN {fat[1][c]} ELSE {}) : c \in f[n - 1]}
    <3>1. n - 1 \in Nat /\ (n - 1) + 1 = n
      BY <2>1
    <3>2. f[n] = Linked[f[n - 1]] /\ f[n - 1] \in SUBSET Linkable
      BY <1>3, <3>1
    <3> QED  BY <3>2 DEF Linked
  <2>2. \A n \in Nat :
          f[n] = IF n = 0 THEN {h} \ {0}
                 ELSE UNION {{c} \cup (IF c \in Cluster THEN {fat[1][c]} ELSE {}) : c \in f[n - 1]}
    BY <2>1, <1>3
  <2>3. f = [n \in Nat |-> f[n]]
    BY <1>3
  <2> QED  BY <2>2, <2>3 DEF ChainGrows
<1> DEFINE g == CHOOSE k : ChainGrows(k, h)
<1>5. ChainGrows(g, h)
  BY <1>4
<1>6. Chain(h) = g[LAST_CLUSTER] \ {END_CLUSTER}
  BY Zenon DEF Chain, ChainGrows
<1> HIDE DEF g
<1>7. /\ g = [n \in Nat |-> g[n]] /\ g[0] = {h} \ {0}
      /\ \A n \in Nat : g[n + 1] =
           UNION {{c} \cup (IF c \in Cluster THEN {fat[1][c]} ELSE {}) : c \in g[n]}
  <2>1. /\ g = [n \in Nat |-> g[n]] /\ g[0] = {h} \ {0}
        /\ \A n \in Nat : n # 0 => g[n] =
             UNION {{c} \cup (IF c \in Cluster THEN {fat[1][c]} ELSE {}) : c \in g[n - 1]}
    BY <1>5 DEF ChainGrows
  <2>2. \A n \in Nat : n + 1 \in Nat /\ n + 1 # 0 /\ (n + 1) - 1 = n
    OBVIOUS
  <2> QED  BY <2>1, <2>2
<1>8. \A n \in Nat : g[n] \in SUBSET Linkable => g[n + 1] = Linked[g[n]]
  BY <1>7 DEF Linked
<1>9. \A n \in Nat : g[n] \in SUBSET Linkable
  <2> DEFINE Bad == {n \in Nat : g[n] \notin SUBSET Linkable}
  <2>1. ASSUME NEW m \in Bad PROVE \E k \in Bad : k < m
    <3>1. m \in Nat /\ m # 0
      BY <1>2, <1>7
    <3>2. m - 1 \in Nat /\ (m - 1) + 1 = m /\ m - 1 < m
      BY <3>1
    <3>3. m - 1 \in Bad
      <4> SUFFICES ASSUME g[m - 1] \in SUBSET Linkable PROVE FALSE
        BY <3>2
      <4>1. g[m] = Linked[g[m - 1]]
        BY <3>2, <1>8
      <4> QED  BY <4>1, <1>1
    <3> QED  BY <3>2, <3>3
  <2>2. Bad \in SUBSET Nat
    OBVIOUS
  <2> HIDE DEF Bad
  <2>3. Bad = {}
    BY <2>1, <2>2, NoLeast
  <2> QED  BY <2>3 DEF Bad
<1>10. ChainSets(g, h)
  BY <1>6, <1>7, <1>8, <1>9 DEF ChainSets
<1> QED  BY <1>10

LEMMA LinkRoom == IsFiniteSet(Linkable) /\ Cardinality(Linkable) <= LAST_CLUSTER + 1
<1>1. LAST_CLUSTER \in Nat /\ LAST_CLUSTER >= 2
  BY Fat32Assumption DEF ROOT
<1>2. IsFiniteSet(Cluster) /\ Cardinality(Cluster) = LAST_CLUSTER - 1
  <2>1. IsFiniteSet(2..LAST_CLUSTER) /\
        Cardinality(2..LAST_CLUSTER) = IF 2 > LAST_CLUSTER THEN 0 ELSE LAST_CLUSTER - 2 + 1
    BY <1>1, FS_Interval
  <2> QED  BY <1>1, <2>1 DEF Cluster
<1>3. /\ IsFiniteSet(Cluster \cup {FREE})
      /\ Cardinality(Cluster \cup {FREE}) = LAST_CLUSTER
  BY <1>1, <1>2, Numbers, FS_AddElement, SMTT(60)
<1>4. /\ IsFiniteSet((Cluster \cup {FREE}) \cup {END_CLUSTER})
      /\ Cardinality((Cluster \cup {FREE}) \cup {END_CLUSTER}) = LAST_CLUSTER + 1
  BY <1>1, <1>3, Numbers, FS_AddElement
<1>5. Linkable = (Cluster \cup {FREE}) \cup {END_CLUSTER}
  BY DEF Linkable
<1> QED  BY <1>1, <1>4, <1>5

\* A chain has the clusters of its home, and no others.
LEMMA ChainHome ==
  ASSUME NEW home, NEW rank, TableOK(Links, home, rank), NEW h \in Cluster,
         home[h] = h, Links[h] # FREE
  PROVE  /\ Chain(h) = {c \in Cluster : home[c] = h}
         /\ \A c \in Chain(h) : Links[c] # FREE
<1>1. \A c \in Cluster : Links[c] \in Linkable
  BY DEF TableOK, Linkable
<1>2. PICK g : ChainSets(g, h)
  BY <1>1, ChainIs
<1>3. /\ g \in [Nat -> SUBSET Linkable] /\ g[0] = {h}
      /\ \A n \in Nat : g[n + 1] = Linked[g[n]]
      /\ Chain(h) = g[LAST_CLUSTER] \ {END_CLUSTER} /\ LAST_CLUSTER \in Nat
  BY <1>2, Numbers, Fat32Assumption DEF ChainSets
<1> DEFINE Mine == {c \in Cluster : home[c] = h /\ Links[c] # FREE}
<1>4. \A n \in Nat : g[n] \subseteq Mine \cup {END_CLUSTER}
  <2> DEFINE Bad == {n \in Nat : ~(g[n] \subseteq Mine \cup {END_CLUSTER})}
  <2>1. ASSUME NEW m \in Bad PROVE \E k \in Bad : k < m
    <3>1. m \in Nat /\ m # 0
      BY <1>3
    <3>2. m - 1 \in Nat /\ (m - 1) + 1 = m /\ m - 1 < m
      BY <3>1
    <3>3. m - 1 \in Bad
      <4> SUFFICES ASSUME g[m - 1] \subseteq Mine \cup {END_CLUSTER} PROVE FALSE
        BY <3>2
      <4>1. g[m] = Linked[g[m - 1]] /\ g[m - 1] \in SUBSET Linkable
        BY <3>2, <1>3
      <4>2. PICK d \in g[m] : d \notin Mine \cup {END_CLUSTER}
        OBVIOUS
      <4>3. d \in g[m - 1] \/ \E c \in g[m - 1] \cap Cluster : d = Links[c]
        BY <4>1, <4>2, <1>1, LinkedType
      <4>4. PICK c \in g[m - 1] \cap Cluster : d = Links[c]
        BY <4>2, <4>3
      <4>5. c \in Mine
        BY <4>4, Numbers
      <4>6. d \in Cluster
        BY <4>2, <4>4, <4>5, <1>1 DEF Linkable
      <4>7. home[d] = h /\ Links[d] # FREE
        BY <4>4, <4>5, <4>6 DEF TableOK
      <4> QED  BY <4>2, <4>6, <4>7
    <3> QED  BY <3>2, <3>3
  <2>2. Bad \in SUBSET Nat
    OBVIOUS
  <2> HIDE DEF Bad
  <2>3. Bad = {}
    BY <2>1, <2>2, NoLeast
  <2> QED  BY <2>3 DEF Bad
<1>5. Linked[g[LAST_CLUSTER]] = g[LAST_CLUSTER] /\ h \in g[LAST_CLUSTER]
  <2>1. /\ Linked \in [SUBSET Linkable -> SUBSET Linkable]
        /\ \A S \in SUBSET Linkable : S \subseteq Linked[S]
    BY <1>1, LinkedType
  <2>2. g[0] # {}
    BY <1>3
  <2>3. Linked[g[LAST_CLUSTER]] = g[LAST_CLUSTER]
    <3>1. /\ IsFiniteSet(Linkable) /\ Cardinality(Linkable) <= LAST_CLUSTER + 1
          /\ LAST_CLUSTER \in Nat /\ g \in [Nat -> SUBSET Linkable]
          /\ \A n \in Nat : g[n + 1] = Linked[g[n]]
      BY <1>3, LinkRoom
    <3>2. Growing(Linkable, LAST_CLUSTER, Linked, g)
      BY <2>1, <2>2, <3>1 DEF Growing
    <3> QED  BY <3>2, Saturated
  <2>4. \A n \in Nat : h \in g[n]
    <3> DEFINE Bad == {n \in Nat : h \notin g[n]}
    <3>1. ASSUME NEW m \in Bad PROVE \E k \in Bad : k < m
      <4>1. m \in Nat /\ m # 0
        BY <1>3
      <4>2. m - 1 \in Nat /\ (m - 1) + 1 = m /\ m - 1 < m
        BY <4>1
      <4>3. g[m] = Linked[g[m - 1]] /\ g[m - 1] \in SUBSET Linkable
        BY <4>2, <1>3
      <4> QED  BY <4>2, <4>3, <2>1
    <3>2. Bad \in SUBSET Nat
      OBVIOUS
    <3> HIDE DEF Bad
    <3>3. Bad = {}
      BY <3>1, <3>2, NoLeast
    <3> QED  BY <3>3 DEF Bad
  <2> QED  BY <2>3, <2>4, <1>3
<1>6. ASSUME NEW c \in Cluster, home[c] = h PROVE c \in g[LAST_CLUSTER]
  <2> DEFINE Out == {b \in Cluster : home[b] = h /\ b \notin g[LAST_CLUSTER]}
             Bad == {rank[b] : b \in Out}
  <2>1. ASSUME NEW m \in Bad PROVE \E k \in Bad : k < m
    <3>1. PICK d \in Out : m = rank[d]
      OBVIOUS
    <3>2. d \in Cluster /\ home[d] = h /\ d \notin g[LAST_CLUSTER] /\ d # h
      BY <1>5
    <3>3. PICK b \in Cluster : Links[b] = d
      BY <3>2, Numbers DEF TableOK
    <3>4. home[b] = h /\ rank[b] < rank[d]
      BY <3>2, <3>3 DEF TableOK
    <3>5. b \notin g[LAST_CLUSTER]
      BY <3>2, <3>3, <1>1, <1>3, <1>5, LinkedType
    <3>6. b \in Out
      BY <3>4, <3>5
    <3> QED  BY <3>1, <3>4, <3>6
  <2>2. Bad \in SUBSET Nat
    <3>1. rank \in [Cluster -> Nat]
      BY DEF TableOK
    <3> QED  BY <3>1
  <2> HIDE DEF Bad
  <2>3. Bad = {}
    BY <2>1, <2>2, NoLeast
  <2> QED  BY <2>3, <1>6 DEF Bad
<1>7. ASSUME NEW c \in Chain(h) PROVE c \in Mine
  BY <1>3, <1>4, <1>7
<1>8. ASSUME NEW c \in Cluster, home[c] = h PROVE c \in Chain(h)
  BY <1>3, <1>6, <1>8, Numbers
<1> QED  BY <1>7, <1>8

LEMMA ChainNone ==
  ASSUME \A c \in Cluster : Links[c] \in Linkable
  PROVE  Chain(0) = {}
<1>1. PICK g : ChainSets(g, 0)
  BY ChainIs
<1>2. /\ g \in [Nat -> SUBSET Linkable] /\ g[0] = {}
      /\ \A n \in Nat : g[n + 1] = Linked[g[n]]
      /\ Chain(0) = g[LAST_CLUSTER] \ {END_CLUSTER} /\ LAST_CLUSTER \in Nat
  BY <1>1, Fat32Assumption DEF ChainSets
<1>3. {} \in SUBSET Linkable /\ Linked[{}] = {}
  <2>1. \A d \in Linked[{}] : FALSE
    BY LinkedType
  <2> QED  BY <2>1
<1> DEFINE Bad == {n \in Nat : g[n] # {}}
<1>4. ASSUME NEW m \in Bad PROVE \E k \in Bad : k < m
  <2>1. m \in Nat /\ m # 0
    BY <1>2
  <2>2. m - 1 \in Nat /\ (m - 1) + 1 = m /\ m - 1 < m
    BY <2>1
  <2>3. g[m] = Linked[g[m - 1]]
    BY <2>2, <1>2
  <2> QED  BY <2>2, <2>3, <1>3
<1>5. Bad \in SUBSET Nat
  OBVIOUS
<1> HIDE DEF Bad
<1>6. Bad = {}
  BY <1>4, <1>5, NoLeast
<1>7. g[LAST_CLUSTER] = {}
  BY <1>2, <1>6 DEF Bad
<1> QED  BY <1>2, <1>7

----------------------------------------------------------------------------
\* Directories.

DirSets == {0} \cup Cluster

Listed == [S \in SUBSET DirSets |-> UNION {{h} \cup Subdirectories(h) : h \in S}]

DirGrows(g) ==
  g = [n \in Nat |->
        IF n = 0 THEN {ROOT} ELSE UNION {{h} \cup Subdirectories(h) : h \in g[n - 1]}]

LEMMA PlacesIn ==
  ASSUME Types, NEW h
  PROVE  /\ Places(h) = {x \in Place : x.cluster \in Chain(h) /\ Recs[x].name \in Names}
         /\ \A x \in Place : Recs[x] = Rec(x) /\ Rec(x) \in RecType
         /\ Subdirectories(h) \subseteq DirSets
<1>1. \A x \in Place : Recs[x] = Rec(x) /\ Rec(x) \in RecType
  <2> TAKE x \in Place
  <2>1. x.cluster \in Cluster /\ x.sector \in Sector /\ x.pos \in Pos
    BY DEF Place
  <2>2. Rec(x) = data[x.cluster][x.sector].recs[x.pos]
    BY DEF Rec
  <2> QED  BY <2>1, <2>2, HereIs DEF Recs
<1>2. [cluster: Chain(h) \cap Cluster, sector: Sector, pos: Pos] =
        {x \in Place : x.cluster \in Chain(h)}
  BY DEF Place
<1>3. Places(h) = {x \in Place : x.cluster \in Chain(h) /\ Recs[x].name \in Names}
  BY <1>1, <1>2 DEF Places
<1>4. \A x \in Place : Rec(x).cluster \in DirSets
  BY <1>1 DEF RecType, DirSets
<1>5. Subdirectories(h) \subseteq DirSets
  BY <1>3, <1>4 DEF Subdirectories
<1> QED  BY <1>1, <1>3, <1>5

\* The directories are the least set with the root in it that is closed
\* under going into one.
LEMMA DirectoriesAre ==
  ASSUME Types
  PROVE  /\ ROOT \in Directories
         /\ \A h \in Directories : Subdirectories(h) \subseteq Directories
         /\ \A S : ROOT \in S /\ (\A h \in S : Subdirectories(h) \subseteq S)
                    => Directories \subseteq S
<1>1. /\ Listed \in [SUBSET DirSets -> SUBSET DirSets]
      /\ \A S \in SUBSET DirSets : S \subseteq Listed[S]
      /\ \A S \in SUBSET DirSets : \A h \in S : Subdirectories(h) \subseteq Listed[S]
  <2> DEFINE U(S) == UNION {{h} \cup Subdirectories(h) : h \in S}
  <2>1. ASSUME NEW S \in SUBSET DirSets
        PROVE  /\ U(S) \subseteq DirSets /\ S \subseteq U(S)
               /\ \A h \in S : Subdirectories(h) \subseteq U(S)
    BY PlacesIn
  <2>2. Listed = [S \in SUBSET DirSets |-> U(S)]
    BY DEF Listed
  <2> HIDE DEF U
  <2> QED  BY <2>1, <2>2
<1>2. {ROOT} \in SUBSET DirSets
  BY Numbers DEF DirSets
<1>3. PICK f \in [Nat -> SUBSET DirSets] :
        f[0] = {ROOT} /\ \A n \in Nat : f[n + 1] = Listed[f[n]]
  <2> DEFINE T == SUBSET DirSets
  <2>1. Listed \in [T -> T] /\ {ROOT} \in T
    BY <1>1, <1>2
  <2> HIDE DEF T
  <2>2. \E f \in [Nat -> T] : f[0] = {ROOT} /\ \A n \in Nat : f[n + 1] = Listed[f[n]]
    BY <2>1, Iterates, SMTT(60)
  <2> QED  BY <2>2 DEF T
<1>4. DirGrows(f)
  <2>1. ASSUME NEW n \in Nat, n # 0
        PROVE  f[n] = UNION {{h} \cup Subdirectories(h) : h \in f[n - 1]}
    <3>1. n - 1 \in Nat /\ (n - 1) + 1 = n
      BY <2>1
    <3>2. f[n] = Listed[f[n - 1]] /\ f[n - 1] \in SUBSET DirSets
      BY <1>3, <3>1
    <3> QED  BY <3>2 DEF Listed
  <2>2. \A n \in Nat :
          f[n] = IF n = 0 THEN {ROOT}
                 ELSE UNION {{h} \cup Subdirectories(h) : h \in f[n - 1]}
    BY <2>1, <1>3
  <2>3. f = [n \in Nat |-> f[n]]
    BY <1>3
  <2> QED  BY <2>2, <2>3 DEF DirGrows
<1> DEFINE g == CHOOSE k : DirGrows(k)
<1>5. DirGrows(g)
  BY <1>4
<1>6. Directories = g[LAST_CLUSTER]
  BY Zenon DEF Directories, DirGrows
<1> HIDE DEF g
<1>7. /\ g = [n \in Nat |-> g[n]] /\ g[0] = {ROOT}
      /\ \A n \in Nat : g[n + 1] = UNION {{h} \cup Subdirectories(h) : h \in g[n]}
  <2>1. /\ g = [n \in Nat |-> g[n]] /\ g[0] = {ROOT}
        /\ \A n \in Nat : n # 0 => g[n] = UNION {{h} \cup Subdirectories(h) : h \in g[n - 1]}
    BY <1>5 DEF DirGrows
  <2>2. \A n \in Nat : n + 1 \in Nat /\ n + 1 # 0 /\ (n + 1) - 1 = n
    OBVIOUS
  <2> QED  BY <2>1, <2>2
<1>8. \A n \in Nat : g[n] \in SUBSET DirSets => g[n + 1] = Listed[g[n]]
  BY <1>7 DEF Listed
<1>9. \A n \in Nat : g[n] \in SUBSET DirSets /\ ROOT \in g[n]
  <2> DEFINE Bad == {n \in Nat : ~(g[n] \in SUBSET DirSets /\ ROOT \in g[n])}
  <2>1. ASSUME NEW m \in Bad PROVE \E k \in Bad : k < m
    <3>1. m \in Nat /\ m # 0
      BY <1>2, <1>7
    <3>2. m - 1 \in Nat /\ (m - 1) + 1 = m /\ m - 1 < m
      BY <3>1
    <3>3. m - 1 \in Bad
      <4> SUFFICES ASSUME g[m - 1] \in SUBSET DirSets, ROOT \in g[m - 1] PROVE FALSE
        BY <3>2
      <4>1. g[m] = Listed[g[m - 1]]
        BY <3>2, <1>8
      <4> QED  BY <4>1, <1>1
    <3> QED  BY <3>2, <3>3
  <2>2. Bad \in SUBSET Nat
    OBVIOUS
  <2> HIDE DEF Bad
  <2>3. Bad = {}
    BY <2>1, <2>2, NoLeast
  <2> QED  BY <2>3 DEF Bad
<1>10. g \in [Nat -> SUBSET DirSets] /\ \A n \in Nat : g[n + 1] = Listed[g[n]]
  BY <1>7, <1>8, <1>9
<1>11. IsFiniteSet(DirSets) /\ Cardinality(DirSets) <= LAST_CLUSTER + 1
  <2>1. DirSets \in SUBSET Linkable
    BY DEF DirSets, Linkable, FREE
  <2>2. IsFiniteSet(DirSets) /\ Cardinality(DirSets) <= Cardinality(Linkable)
    BY <2>1, LinkRoom, FS_Subset
  <2>3. Cardinality(DirSets) \in Nat /\ Cardinality(Linkable) \in Nat /\ LAST_CLUSTER \in Nat
    BY <2>2, LinkRoom, FS_CardinalityType, Fat32Assumption
  <2> QED  BY <2>2, <2>3, LinkRoom
<1>12. LAST_CLUSTER \in Nat /\ g[0] # {}
  BY <1>7, Fat32Assumption
<1>13. Listed[g[LAST_CLUSTER]] = g[LAST_CLUSTER]
  <2>1. Growing(DirSets, LAST_CLUSTER, Listed, g)
    BY <1>1, <1>10, <1>11, <1>12 DEF Growing
  <2> QED  BY <2>1, Saturated
<1>14. ASSUME NEW S, ROOT \in S, \A h \in S : Subdirectories(h) \subseteq S
       PROVE  Directories \subseteq S
  <2> DEFINE Bad == {n \in Nat : ~(g[n] \subseteq S)}
  <2>1. ASSUME NEW m \in Bad PROVE \E k \in Bad : k < m
    <3>1. m \in Nat /\ m # 0
      BY <1>7, <1>14
    <3>2. m - 1 \in Nat /\ (m - 1) + 1 = m /\ m - 1 < m
      BY <3>1
    <3>3. g[m] = UNION {{h} \cup Subdirectories(h) : h \in g[m - 1]}
      BY <3>2, <1>7
    <3>4. m - 1 \in Bad
      BY <3>2, <3>3, <1>14
    <3> QED  BY <3>2, <3>4
  <2>2. Bad \in SUBSET Nat
    OBVIOUS
  <2> HIDE DEF Bad
  <2>3. Bad = {}
    BY <2>1, <2>2, NoLeast
  <2> QED  BY <2>3, <1>6, <1>12 DEF Bad
<1>15. \A S : ROOT \in S /\ (\A h \in S : Subdirectories(h) \subseteq S)
              => Directories \subseteq S
  BY <1>14
<1>16. ROOT \in Directories /\ \A h \in Directories : Subdirectories(h) \subseteq Directories
  BY <1>1, <1>6, <1>9, <1>12, <1>13
<1> QED  BY <1>15, <1>16

----------------------------------------------------------------------------
\* Type correctness of the disk, the routines and the queue of sector writes,
\* for a disk of any size.
THEOREM DiskTypes == Spec => []TypeOK
<1>1. DInv => TypeOK
  <2> SUFFICES ASSUME DInv PROVE TypeOK
    OBVIOUS
  <2>1. PICK home, rank, anc :
          DiskOK(Links, Recs, home, rank, anc, currentCluster, todo, pc, job)
    BY Unprimed
  <2>2. Types
    BY DEF DInv
  <2>3. currentCluster \in Cluster
    <3>1. RecordsOK(Links, Recs, home) /\ Anchored(Recs, currentCluster)
      BY <2>1, PathAnchored DEF DiskOK
    <3> QED  BY <3>1, AnchoredHome
  <2>4. \A c \in Cluster, s \in Sector, p \in Pos : data[c][s].recs[p] \in RecType
    BY <2>2, HereIs
  <2>5. \A i \in DOMAIN pc : pc[i].cluster \in Entries /\ pc[i].sector \in Sector
    <3> TAKE i \in DOMAIN pc
    <3>1. pc \in Seq(FrameType)
      BY <2>1 DEF DiskOK, FramesOK
    <3>2. pc[i] \in FrameType
      BY <3>1
    <3> QED  BY <3>2, Numbers DEF FrameType
  <2>6. \A i \in DOMAIN todo : todo[i].cluster \in Entries
    <3> TAKE i \in DOMAIN todo
    <3>1. todo \in Seq(Write)
      BY <2>1 DEF DiskOK, QueueOK
    <3>2. todo[i] \in Write
      BY <3>1
    <3> QED  BY <3>2, Numbers DEF Write, EntryWrite, CopyWrite, SectorWrite
  <2> QED  BY <2>2, <2>3, <2>4, <2>5, <2>6 DEF Types, TypeOK
<1> QED  BY <1>1, DiskInvariance, PTL

LEMMA HeadChain ==
  ASSUME NEW home, NEW rank, TableOK(Links, home, rank), RecordsOK(Links, Recs, home),
         NEW h, h = 0 \/ Anchored(Recs, h)
  PROVE  \A c \in Chain(h) : /\ c \in Cluster /\ Links[c] # FREE
                             /\ home[c] = h /\ h # 0
<1>1. CASE h = 0
  <2>1. \A c \in Cluster : Links[c] \in Linkable
    BY DEF TableOK, Linkable
  <2> QED  BY <1>1, <2>1, ChainNone
<1>2. CASE Anchored(Recs, h)
  <2>1. h \in Cluster /\ home[h] = h /\ Links[h] # FREE
    BY <1>2, AnchoredHome
  <2> QED  BY <2>1, ChainHome, Numbers
<1> QED  BY <1>1, <1>2

\* Wherever the power goes, the chains of what can be reached are allocated
\* and shared with nothing else: the order in which allocateFreeCluster,
\* removeFATChain and the directory records are written keeps it so, on a disk
\* of any size and for any number of power cuts.
THEOREM ChainsApart == Spec => []NoSharing
<1>1. DInv => NoSharing
  <2> SUFFICES ASSUME DInv PROVE NoSharing
    OBVIOUS
  <2>1. PICK home, rank, anc :
          DiskOK(Links, Recs, home, rank, anc, currentCluster, todo, pc, job)
    BY Unprimed
  <2>2. Types /\ TableOK(Links, home, rank) /\ RecordsOK(Links, Recs, home)
    BY <2>1 DEF DInv, DiskOK
  <2>3. \A x \in Live : x \in Place /\ Rec(x) = Recs[x] /\ Recs[x].name \in Names
    <3> TAKE x \in Live
    <3>1. PICK h : x \in Places(h)
      BY DEF Live
    <3> QED  BY <3>1, <2>2, PlacesIn
  <2>4. \A x \in Live : \/ Rec(x).cluster = 0
                        \/ Anchored(Recs, Rec(x).cluster) /\ Rec(x).cluster # ROOT
    BY <2>2, <2>3 DEF RecordsOK, Anchored, Owned, Owner
  <2>5. ASSUME NEW h, h = 0 \/ Anchored(Recs, h)
        PROVE  \A c \in Chain(h) : c \in Cluster /\ Links[c] # FREE /\ home[c] = h /\ h # 0
    BY <2>2, <2>5, HeadChain
  <2>6. Anchored(Recs, ROOT)
    BY DEF Anchored
  <2>7. \A c \in Reached : c \in Cluster /\ fat[1][c] # FREE
    <3> TAKE c \in Reached
    <3>1. c \in Chain(ROOT) \/ \E x \in Live : c \in Chain(Rec(x).cluster)
      BY DEF Reached
    <3> QED  BY <3>1, <2>4, <2>5, <2>6 DEF Links
  <2>8. ASSUME NEW x \in Live
        PROVE  Chain(Rec(x).cluster) \cap Chain(ROOT) = {}
    BY <2>4, <2>5, <2>6
  <2>9. ASSUME NEW x \in Live, NEW y \in Live \ {x}
        PROVE  Chain(Rec(x).cluster) \cap Chain(Rec(y).cluster) = {}
    <3> SUFFICES ASSUME NEW c \in Chain(Rec(x).cluster), c \in Chain(Rec(y).cluster)
                 PROVE  FALSE
      OBVIOUS
    <3>1. Rec(x).cluster = Rec(y).cluster /\ Rec(x).cluster # 0
      BY <2>4, <2>5
    <3>2. x = y
      BY <3>1, <2>2, <2>3 DEF RecordsOK
    <3> QED  BY <3>2
  <2> QED  BY <2>7, <2>8, <2>9 DEF NoSharing
<1> QED  BY <1>1, DiskInvariance, PTL

\* The path to the current directory is one of directories.
LEMMA PathReached == DInv => (KindsApart => InDirectory)
<1>1. ASSUME DInv, KindsApart PROVE InDirectory
  <2>1. PICK home, rank, anc :
          DiskOK(Links, Recs, home, rank, anc, currentCluster, todo, pc, job)
    BY <1>1, Unprimed
  <2>2. /\ Types /\ TableOK(Links, home, rank) /\ RecordsOK(Links, Recs, home)
        /\ PathOK(Recs, home, anc, currentCluster)
    BY <1>1, <2>1 DEF DInv, DiskOK
  <2>3. /\ ROOT \in Directories
        /\ \A h \in Directories : Subdirectories(h) \subseteq Directories
    BY <2>2, DirectoriesAre
  <2>4. /\ Len(anc) \in Nat /\ Len(anc) > 0 /\ anc[1] = ROOT
        /\ anc[Len(anc)] = currentCluster
        /\ \A i \in 1..(Len(anc) - 1) :
             \E x \in Place : /\ Owner(Recs, x, anc[i + 1]) /\ Recs[x].dir
                              /\ home[x.cluster] = anc[i]
    BY <1>1, <2>2 DEF PathOK
  <2> DEFINE Bad == {i \in 1..Len(anc) : anc[i] \notin Directories}
  <2>5. ASSUME NEW m \in Bad PROVE \E k \in Bad : k < m
    <3>1. m \in 1..Len(anc) /\ m # 1 /\ anc[m] \notin Directories
      BY <2>3, <2>4
    <3>2. /\ m - 1 \in 1..(Len(anc) - 1) /\ m - 1 \in 1..Len(anc) /\ (m - 1) + 1 = m
          /\ m - 1 < m
      BY <3>1, <2>4
    <3>3. PICK x \in Place : /\ Owner(Recs, x, anc[m]) /\ Recs[x].dir
                             /\ home[x.cluster] = anc[m - 1]
      BY <3>2, <2>4
    <3>4. anc[m - 1] \in Cluster /\ Anchored(Recs, anc[m - 1])
      BY <3>2, <2>2, PathAnchored
    <3>5. home[anc[m - 1]] = anc[m - 1] /\ Links[anc[m - 1]] # FREE
      BY <3>4, <2>2, AnchoredHome
    <3>6. x.cluster \in Chain(anc[m - 1])
      <4>1. x.cluster \in Cluster
        BY DEF Place
      <4> QED  BY <4>1, <3>3, <3>4, <3>5, <2>2, ChainHome
    <3>7. x \in Places(anc[m - 1]) /\ Rec(x).dir /\ Rec(x).cluster = anc[m]
      BY <3>3, <3>6, <2>2, PlacesIn DEF Owner
    <3>8. anc[m] \in Subdirectories(anc[m - 1])
      BY <3>7 DEF Subdirectories
    <3>9. m - 1 \in Bad
      BY <3>1, <3>2, <3>8, <2>3
    <3> QED  BY <3>2, <3>9
  <2>6. Bad \in SUBSET Nat
    OBVIOUS
  <2> HIDE DEF Bad
  <2>7. Bad = {}
    BY <2>5, <2>6, NoLeast
  <2>8. Len(anc) \in 1..Len(anc)
    BY <2>4
  <2> QED  BY <2>4, <2>7, <2>8 DEF Bad, InDirectory
<1> QED  BY <1>1

\* No sequence of cd, mkdir, rm and power cuts leaves the shell in a directory
\* that is gone, or in a file, if no .TXT name shares the characters the
\* shell compares with a name that is none: currentCluster is the root or
\* reached from it, for a tree of any shape.  The condition is on what the
\* person types; process_cmd does not see to it, and without it cd goes
\* into the text file.
THEOREM ShellInDirectory == Spec => [](KindsApart => InDirectory)
BY PathReached, DiskInvariance, PTL
=============================================================================
