-------------------------------- MODULE Fat32 --------------------------------
(***************************************************************************)
(* The FAT32 driver and the file-system calls over it, driven by the       *)
(* shell's commands.                                                       *)
(*                                                                         *)
(* The driver runs with interrupts off, so nothing interleaves with it;    *)
(* but it changes the disk one sector at a time, and the power may go      *)
(* between two sector writes.  A command is a stack of routines (pc), each *)
(* with the cluster and sector it has come to.  The routine on top reads   *)
(* the disk and queues its sector writes (todo); they reach the disk one   *)
(* by one before the next routine runs.                                    *)
(*                                                                         *)
(* A name is what a directory record holds.  Content is counted in         *)
(* sectors.  The place of a record stands for the index of the file in its *)
(* directory, which list_files returns and getToDirEl resolves again.      *)
(*                                                                         *)
(* The person does not type while a command runs: a key would overwrite    *)
(* %rax (shell.c:46), by which list_files returns the index.               *)
(***************************************************************************)
EXTENDS Integers, Sequences, FiniteSets

CONSTANTS
  nbFats,             \* copies of the allocation table
  sectorPerCluster,
  RECORDS,            \* directory records per sector (16)
  FAT_ENTRIES,        \* table entries per sector (128)
  LAST_CLUSTER,       \* the table has entries 0..LAST_CLUSTER
  Names,              \* names the person may use
  Text,               \* those that end in .TXT
  Prefix,             \* name -> the part the shell's strcmp compares
  Foreign,            \* empty files another system made in the root
  Contents,           \* sequences of sectors the person may write
  MaxCuts             \* bound: power cuts

FREE         == 0
END_CLUSTER  == 268435455    \* 0x0FFFFFFF
END_CLUSTERS == 268435448    \* 0x0FFFFFF8: this and above end a chain
MEDIA        == 268435448    \* entry 0 of a formatted table
ROOT         == 2            \* infoFat.rootCluster of a formatted disk

Entries == 0..LAST_CLUSTER
Cluster == 2..LAST_CLUSTER
Sector  == 0..(sectorPerCluster - 1)
Pos     == 0..(RECORDS - 1)
Copy    == 1..nbFats

DOT     == "."
DOTDOT  == ".."
UNUSED  == ""                \* name[0] = 0: nothing here or further on
REMOVED == "removed"         \* name[0] = 0xE5
Dots    == {DOT, DOTDOT}

ASSUME Fat32Assumption ==
  /\ nbFats \in Nat \ {0} /\ sectorPerCluster \in Nat \ {0}
  /\ RECORDS \in Nat \ {0} /\ FAT_ENTRIES \in Nat \ {0}
  /\ LAST_CLUSTER \in Nat /\ LAST_CLUSTER >= ROOT /\ LAST_CLUSTER < END_CLUSTERS
  /\ (Names \cup Dots) \cap {UNUSED, REMOVED} = {} /\ Names \cap Dots = {}
  /\ Foreign \subseteq Text
  /\ Cardinality(Foreign) < RECORDS
  /\ Text \subseteq Names /\ DOMAIN Prefix = Names \cup Dots
  /\ MaxCuts \in Nat

\* A dot name, shorter than what is compared, equals no other name.
ASSUME DotsAssumption ==
  \A d \in Dots : \A n \in Names \cup Dots : Prefix[n] = Prefix[d] => n = d

ASSUME ContentsAssumption == Contents \subseteq Seq(STRING)

VARIABLES
  fat,             \* copy -> table entries
  data,            \* cluster -> sector -> [text, recs]
  currentCluster,  \* first cluster of the current directory
  pc,              \* routines to run, [r, cluster, sector]; none: shell waits
  todo,            \* sector writes queued by the last routine
  job,             \* the command and its locals
  halted,          \* fail("no new cluster can be allocated"), after todo
  cuts             \* power cuts so far

disk == <<fat, data>>
vars == <<disk, currentCluster, pc, todo, job, halted, cuts>>

\* What the comparison does not tell apart is of one kind: text files, or
\* directories.  Nothing in the code sees to it: it compares seven characters,
\* so that LETTERS and LETTERS.TXT are the same to the shell.
KindsApart ==
  \A m, n \in Names : Prefix[m] = Prefix[n] => (m \in Text <=> n \in Text)

NOWHERE == [cluster |-> 0, sector |-> 0, pos |-> 0]

\* hit: the record found; fst: entry.fstCluster of the file being made;
\* buffer: the sectors still to be written, or those read.
NoJob == [cmd |-> "", name |-> "", content |-> <<>>, hit |-> NOWHERE,
          fst |-> 0, buffer |-> <<>>]

ZeroRec    == [name |-> UNUSED, dir |-> FALSE, cluster |-> 0, size |-> 0]
ZeroSector == [text |-> "", recs |-> [p \in Pos |-> ZeroRec]]

\* setupDrive on a disk formatted elsewhere, with at most empty files on it:
\* those have no cluster.
Init ==
  /\ fat = [i \in Copy |->
              [c \in Entries |-> CASE c = 0 -> MEDIA [] c \in {1, ROOT} -> END_CLUSTER
                                   [] OTHER -> FREE]]
  /\ \E recs \in [Pos -> {ZeroRec} \cup {[ZeroRec EXCEPT !.name = n] : n \in Foreign}] :
       /\ \A p \in Pos : recs[p].name # UNUSED <=> p < Cardinality(Foreign)
       /\ {recs[p].name : p \in Pos} = Foreign \cup {UNUSED}
       /\ data = [c \in Cluster |-> [s \in Sector |->
                    IF c = ROOT /\ s = 0 THEN [ZeroSector EXCEPT !.recs = recs]
                    ELSE ZeroSector]]
  /\ currentCluster = ROOT
  /\ pc = <<>> /\ todo = <<>> /\ job = NoJob
  /\ halted = FALSE /\ cuts = 0

----------------------------------------------------------------------------
\* Sector writes.  The driver reads copy 1 of the table only, and writes the
\* sector it changed to every copy in turn.

SetEntry(c, v)     == [w |-> "entry", cluster |-> c, val |-> v]
CopyEntry(c, i)    == [w |-> "copy", cluster |-> c, copy |-> i]
SetSector(c, s, x) == [w |-> "sector", cluster |-> c, sector |-> s, val |-> x]

\* Mutant: the last copy is forgotten.
updateEveryFat_short(c, v) ==
  <<SetEntry(c, v)>> \o [i \in 1..(nbFats - 2) |-> CopyEntry(c, i + 1)]

updateEveryFat(c, v) ==
  <<SetEntry(c, v)>> \o [i \in 1..(nbFats - 1) |-> CopyEntry(c, i + 1)]

SameFatSector(c, d) == c \div FAT_ENTRIES = d \div FAT_ENTRIES

writeDiskSector ==
  LET t == Head(todo)
  IN  /\ todo # <<>> /\ todo' = Tail(todo)
      /\ \/ /\ t.w = "entry"
            /\ fat' = [fat EXCEPT ![1][t.cluster] = t.val]
            /\ UNCHANGED data
         \/ /\ t.w = "copy"
            /\ fat' = [fat EXCEPT ![t.copy] =
                         [c \in Entries |-> IF SameFatSector(c, t.cluster)
                                            THEN fat[1][c] ELSE @[c]]]
            /\ UNCHANGED data
         \/ /\ t.w = "sector"
            /\ data' = [data EXCEPT ![t.cluster][t.sector] = t.val]
            /\ UNCHANGED fat
      /\ UNCHANGED <<currentCluster, pc, job, halted, cuts>>

----------------------------------------------------------------------------
\* Control.

Frame(r, c) == [r |-> r, cluster |-> c, sector |-> 0]
Top         == Head(pc)

Running(r) == ~halted /\ todo = <<>> /\ pc # <<>> /\ Top.r = r

\* The routine ends and those in rs come next, with locals j; the last one
\* leaves nothing behind.
Then(rs, j) ==
  /\ pc' = rs \o Tail(pc)
  /\ job' = IF rs \o Tail(pc) = <<>> THEN NoJob ELSE j

Return == Then(<<>>, job)

MoveTo(c, s) == pc' = <<[Top EXCEPT !.cluster = c, !.sector = s]>> \o Tail(pc)

----------------------------------------------------------------------------
\* Clusters.

FreeClusters == {c \in Cluster : fat[1][c] = FREE}
FirstFree    == CHOOSE c \in FreeClusters : \A d \in FreeClusters : c <= d

Wipe(c) == [i \in 1..sectorPerCluster |-> SetSector(c, i - 1, ZeroSector)]

\* Mutant: links the cluster before it is marked.
allocateFreeCluster_link_first(lastCluster) ==
  (IF lastCluster # 0 THEN updateEveryFat(lastCluster, FirstFree) ELSE <<>>)
    \o updateEveryFat(FirstFree, END_CLUSTER) \o Wipe(FirstFree)

\* The sector writes of allocateFreeCluster: mark, wipe, and link behind
\* lastCluster unless that is 0.
allocateFreeCluster(lastCluster) ==
  updateEveryFat(FirstFree, END_CLUSTER) \o Wipe(FirstFree)
    \o IF lastCluster # 0 THEN updateEveryFat(lastCluster, FirstFree) ELSE <<>>

\* After the writes ws, on to the next sector of the chain: nextCluster at
\* the end of a cluster, which extends the chain when there is no next one.
NextSector(ws) ==
  LET c == Top.cluster
  IN  \/ /\ Top.sector + 1 < sectorPerCluster
         /\ MoveTo(c, Top.sector + 1) /\ todo' = ws /\ UNCHANGED halted
      \/ /\ Top.sector + 1 = sectorPerCluster /\ fat[1][c] < END_CLUSTERS
         /\ MoveTo(fat[1][c], 0) /\ todo' = ws /\ UNCHANGED halted
      \/ /\ Top.sector + 1 = sectorPerCluster /\ fat[1][c] >= END_CLUSTERS
         /\ FreeClusters # {}
         /\ MoveTo(FirstFree, 0) /\ todo' = ws \o allocateFreeCluster(c)
         /\ UNCHANGED halted
      \/ /\ Top.sector + 1 = sectorPerCluster /\ fat[1][c] >= END_CLUSTERS
         /\ FreeClusters = {}
         /\ halted' = TRUE /\ todo' = ws /\ UNCHANGED pc

\* A new chain of one cluster, then the routines in rs.
NewChain(rs) ==
  \/ /\ FreeClusters # {}
     /\ todo' = allocateFreeCluster(0)
     /\ Then(rs, [job EXCEPT !.fst = FirstFree])
     /\ UNCHANGED halted
  \/ /\ FreeClusters = {}
     /\ halted' = TRUE /\ UNCHANGED <<todo, pc, job>>

\* Mutants: takes the end mark for a cluster; frees the first cluster only.
removeFATChain_past_end ==
  LET c == Top.cluster
      newCluster == fat[1][c]
  IN  /\ Running("removeFATChain")
      /\ todo' = updateEveryFat(c, FREE)
      /\ IF newCluster <= END_CLUSTER
         THEN MoveTo(newCluster, 0) /\ UNCHANGED job
         ELSE Return
      /\ UNCHANGED <<disk, currentCluster, halted, cuts>>

removeFATChain_first ==
  /\ Running("removeFATChain")
  /\ todo' = updateEveryFat(Top.cluster, FREE)
  /\ Return
  /\ UNCHANGED <<disk, currentCluster, halted, cuts>>

removeFATChain ==
  LET c == Top.cluster
      newCluster == fat[1][c]
  IN  /\ Running("removeFATChain")
      /\ todo' = updateEveryFat(c, FREE)
      /\ IF newCluster < END_CLUSTERS
         THEN MoveTo(newCluster, 0) /\ UNCHANGED job
         ELSE Return
      /\ UNCHANGED <<disk, currentCluster, halted, cuts>>

----------------------------------------------------------------------------
\* Directories.

Here   == data[Top.cluster][Top.sector]
Unused == {p \in Pos : Here.recs[p].name = UNUSED}
Rec(h) == data[h.cluster][h.sector].recs[h.pos]

\* entry.fstCluster as getMetadataFileFromDirectory gives it: 0 is the root.
FstCluster(h) == IF Rec(h).cluster = 0 THEN ROOT ELSE Rec(h).cluster

Least(S)    == CHOOSE p \in S : \A q \in S : p <= q
Greatest(S) == CHOOSE p \in S : \A q \in S : q <= p

\* The shell calls list_files until it returns -1 and keeps the last index
\* whose name compares equal.
Matches == {p \in Pos : /\ \A q \in Unused : p < q
                        /\ Here.recs[p].name # REMOVED
                        /\ Prefix[Here.recs[p].name] = Prefix[job.name]}

Found == IF Matches = {} THEN job.hit
         ELSE [cluster |-> Top.cluster, sector |-> Top.sector,
               pos |-> Greatest(Matches)]

list_files ==
  /\ Running("list_files")
  /\ \/ Unused # {} /\ Then(<<>>, [job EXCEPT !.hit = Found]) /\ UNCHANGED <<todo, halted>>
     \/ Unused = {} /\ NextSector(<<>>) /\ job' = [job EXCEPT !.hit = Found]
  /\ UNCHANGED <<disk, currentCluster, cuts>>

\* Mutant: `..' names the directory itself.
Entry_self(r) ==
  [name |-> IF r = "add" THEN job.name ELSE r, dir |-> r # "add" \/ job.cmd = "mkdir",
   cluster |-> job.fst, size |-> IF r = "add" THEN Len(job.content) ELSE 0]

\* The entry each use of addFileToDirectory adds.  fat32.c:227 keeps the size
\* modulo 2^16; the shell's line holds no content that long.
Entry(r) ==
  CASE r = "add"  -> [name |-> job.name, dir |-> job.cmd = "mkdir",
                      cluster |-> job.fst, size |-> Len(job.content)]
    [] r = "."    -> [name |-> DOT, dir |-> TRUE, cluster |-> job.fst, size |-> 0]
    [] r = ".."   -> [name |-> DOTDOT, dir |-> TRUE, cluster |-> currentCluster,
                      size |-> 0]

\* Mutant: forgets to go to the next cluster.
addFileToDirectory_stays(r) ==
  /\ Running(r)
  /\ \/ /\ Unused # {}
        /\ todo' = <<SetSector(Top.cluster, Top.sector,
                       [Here EXCEPT !.recs[Least(Unused)] = Entry(r)])>>
        /\ Return
     \/ /\ Unused = {}
        /\ MoveTo(Top.cluster, (Top.sector + 1) % sectorPerCluster)
        /\ UNCHANGED <<todo, job>>
  /\ UNCHANGED <<disk, currentCluster, halted, cuts>>

\* The first record never used gets it; removed ones are not used again.
addFileToDirectory(r) ==
  /\ Running(r)
  /\ \/ /\ Unused # {}
        /\ todo' = <<SetSector(Top.cluster, Top.sector,
                       [Here EXCEPT !.recs[Least(Unused)] = Entry(r)])>>
        /\ Return /\ UNCHANGED halted
     \/ Unused = {} /\ NextSector(<<>>) /\ UNCHANGED job
  /\ UNCHANGED <<disk, currentCluster, cuts>>

removeEntryFromDirectory(r) ==
  /\ Running(r)
  /\ IF job.hit = NOWHERE
     THEN Return /\ UNCHANGED todo
     ELSE /\ todo' = <<SetSector(job.hit.cluster, job.hit.sector,
                         [data[job.hit.cluster][job.hit.sector] EXCEPT
                            !.recs[job.hit.pos].name = REMOVED])>>
          /\ Then(<<Frame("removeFATChain", Rec(job.hit).cluster)>>, job)
  /\ UNCHANGED <<disk, currentCluster, halted, cuts>>

----------------------------------------------------------------------------
\* The calls behind the system calls, once the shell has looked the name up.

mkdir ==
  /\ Running("mkdir")
  /\ \/ job.hit # NOWHERE /\ Return /\ UNCHANGED <<todo, halted>>
     \/ /\ job.hit = NOWHERE
        /\ NewChain(<<Frame("add", currentCluster), Frame(".", FirstFree),
                      Frame("..", FirstFree)>>)
  /\ UNCHANGED <<disk, currentCluster, cuts>>

change_directory ==
  /\ Running("cd")
  /\ currentCluster' = IF job.hit = NOWHERE THEN currentCluster
                       ELSE FstCluster(job.hit)
  /\ Return
  /\ UNCHANGED <<disk, todo, halted, cuts>>

\* Mutant: the directory entry comes first.
writeFile_entry_first ==
  /\ Running("writeFile")
  /\ NewChain(<<Frame("add", currentCluster), Frame("content", FirstFree)>>)
  /\ UNCHANGED <<disk, currentCluster, cuts>>

writeFile ==
  /\ Running("writeFile")
  /\ NewChain(<<Frame("content", FirstFree), Frame("add", currentCluster)>>)
  /\ UNCHANGED <<disk, currentCluster, cuts>>

\* while(bufferSize): one sector of content.
write_content ==
  /\ Running("content")
  /\ \/ job.buffer = <<>> /\ Return /\ UNCHANGED <<todo, halted>>
     \/ /\ job.buffer # <<>>
        /\ NextSector(<<SetSector(Top.cluster, Top.sector,
                          [ZeroSector EXCEPT !.text = Head(job.buffer)])>>)
        /\ job' = [job EXCEPT !.buffer = Tail(@)]
  /\ UNCHANGED <<disk, currentCluster, cuts>>

read_file ==
  /\ Running("read")
  /\ Then(IF job.hit = NOWHERE THEN <<>>
          ELSE <<Frame("readFile", FstCluster(job.hit))>>, job)
  /\ UNCHANGED <<disk, currentCluster, todo, halted, cuts>>

\* Mutant: reads the first sector over and over.
readFile_stays ==
  /\ Running("readFile")
  /\ \/ Len(job.buffer) = Rec(job.hit).size /\ Return
     \/ /\ Len(job.buffer) < Rec(job.hit).size
        /\ job' = [job EXCEPT !.buffer = Append(@, Here.text)]
        /\ UNCHANGED pc
  /\ UNCHANGED <<disk, currentCluster, todo, halted, cuts>>

readFile ==
  /\ Running("readFile")
  /\ \/ /\ Len(job.buffer) = Rec(job.hit).size
        /\ Return /\ UNCHANGED <<todo, halted>>
     \/ /\ Len(job.buffer) < Rec(job.hit).size
        /\ NextSector(<<>>)
        /\ job' = [job EXCEPT !.buffer = Append(@, Here.text)]
  /\ UNCHANGED <<disk, currentCluster, cuts>>

----------------------------------------------------------------------------
\* The shell's commands (process_cmd): what it refuses before any call, and
\* the calls it makes otherwise.

Calls(cmd) == CASE cmd = "write" -> <<"rmold", "writeFile">>
                [] cmd = "ls"    -> <<>>
                [] OTHER         -> <<cmd>>

process_cmd(cmd, name, content) ==
  LET calls == <<"list_files">> \o Calls(cmd)
  IN  /\ pc = <<>> /\ todo = <<>> /\ ~halted
      /\ pc' = [i \in DOMAIN calls |-> Frame(calls[i], currentCluster)]
      /\ job' = [NoJob EXCEPT !.cmd = cmd, !.name = name, !.content = content,
                              !.buffer = content]
      /\ UNCHANGED <<disk, currentCluster, todo, halted, cuts>>

\* The bytes of a text file are not directory records: once the shell is
\* inside one with content, the model stops following it.  It never comes to
\* that when KindsApart holds.
InText == data[currentCluster][0].text # ""

\* Mutant: cd does not look at the name's ending.
CdNames_any == Names \cup Dots

\* The names cd does not refuse at sight.
CdNames == (Names \ Text) \cup Dots

Command ==
  /\ ~InText
  /\ \/ process_cmd("ls", DOT, <<>>)
     \/ \E n \in Names \ Text : process_cmd("mkdir", n, <<>>)
     \/ \E n \in CdNames : process_cmd("cd", n, <<>>)
     \/ \E n \in Names : process_cmd("rm", n, <<>>)
     \/ \E n \in Text, content \in Contents : process_cmd("write", n, content)
     \/ \E n \in Text : process_cmd("read", n, <<>>)

\* The power goes and comes back: the disk is as it was, setupDrive starts
\* in the root directory.
PowerCut ==
  /\ cuts < MaxCuts /\ cuts' = cuts + 1
  /\ currentCluster' = ROOT
  /\ pc' = <<>> /\ todo' = <<>> /\ job' = NoJob /\ halted' = FALSE
  /\ UNCHANGED disk

Stopped ==
  /\ halted /\ todo = <<>>
  /\ UNCHANGED vars

Driver ==
  \/ writeDiskSector \/ list_files \/ removeFATChain
  \/ \E r \in {"add", ".", ".."} : addFileToDirectory(r)
  \/ \E r \in {"rm", "rmold"} : removeEntryFromDirectory(r)
  \/ mkdir \/ change_directory \/ writeFile \/ write_content
  \/ read_file \/ readFile

Next == Command \/ Driver \/ PowerCut \/ Stopped

Spec == Init /\ [][Next]_vars

\* The processor goes on executing the driver.
FairSpec == Spec /\ WF_vars(Driver)

----------------------------------------------------------------------------
\* What is on the disk, as the driver reads it (copy 1 of the table).

\* The clusters of the chain that begins at h (none if h is 0), and its
\* k-th one from 0.
Chain(h) ==
  LET f[n \in Nat] ==
        IF n = 0 THEN {h} \ {0}
        ELSE UNION {{c} \cup (IF c \in Cluster THEN {fat[1][c]} ELSE {}) : c \in f[n - 1]}
  IN  f[LAST_CLUSTER] \ {END_CLUSTER}

Nth(h, k) ==
  LET f[n \in Nat] == IF n = 0 THEN h
                      ELSE IF f[n - 1] \in Cluster THEN fat[1][f[n - 1]] ELSE 0
  IN  f[k]

\* The places of the files and directories in directory h.
Places(h) ==
  {x \in [cluster: Chain(h) \cap Cluster, sector: Sector, pos: Pos] : Rec(x).name \in Names}

Subdirectories(h) == {Rec(x).cluster : x \in {y \in Places(h) : Rec(y).dir}}

\* The directories the person can reach.
Directories ==
  LET f[n \in Nat] ==
        IF n = 0 THEN {ROOT} ELSE UNION {{h} \cup Subdirectories(h) : h \in f[n - 1]}
  IN  f[LAST_CLUSTER]

Live == UNION {Places(h) : h \in Directories}

Reached == Chain(ROOT) \cup UNION {Chain(Rec(x).cluster) : x \in Live}

\* What is read of a file; NOTHING past the end of its chain.
NOTHING == "?"

Content(r) ==
  [i \in 1..r.size |->
     LET c == Nth(r.cluster, (i - 1) \div sectorPerCluster)
     IN  IF c \in Cluster THEN data[c][(i - 1) % sectorPerCluster].text ELSE NOTHING]

Idle == pc = <<>> /\ todo = <<>> /\ ~halted

----------------------------------------------------------------------------
FatValue == {FREE, END_CLUSTER, MEDIA} \cup Cluster
RecType  == [name: Names \cup Dots \cup {UNUSED, REMOVED}, dir: BOOLEAN,
             cluster: {0} \cup Cluster, size: Nat]

\* Type correctness: table entries are free, an end mark or a cluster, and
\* every cluster a routine, a queued write or the current directory names is
\* one of the disk.
TypeOK ==
  /\ fat \in [Copy -> [Entries -> FatValue]]
  /\ \A c \in Cluster, s \in Sector, p \in Pos : data[c][s].recs[p] \in RecType
  /\ currentCluster \in Cluster
  /\ \A i \in DOMAIN pc : pc[i].cluster \in Entries /\ pc[i].sector \in Sector
  /\ \A i \in DOMAIN todo : todo[i].cluster \in Entries
  /\ halted \in BOOLEAN /\ cuts \in 0..MaxCuts

\* Whatever was interrupted and wherever: every file and directory that can
\* be reached has allocated clusters that end in an end mark, and shares
\* none of them with another one or with the root directory.
NoSharing ==
  /\ \A c \in Reached : c \in Cluster /\ fat[1][c] # FREE
  /\ \A x \in Live :
       /\ Chain(Rec(x).cluster) \cap Chain(ROOT) = {}
       /\ \A y \in Live \ {x} : Chain(Rec(x).cluster) \cap Chain(Rec(y).cluster) = {}

FatSectors == {c \div FAT_ENTRIES : c \in Cluster}
TornSectors == {k \in FatSectors : \E c \in Cluster, i \in Copy :
                  c \div FAT_ENTRIES = k /\ fat[i][c] # fat[1][c]}

\* The copies of the table are the same between two updates, and a power cut
\* leaves at most one sector of them different, the one being written.
CopiesAgree == Cardinality(TornSectors) <= cuts + IF todo = <<>> THEN 0 ELSE 1

\* The current directory is one, and one that can be reached.
InDirectory == currentCluster \in Directories

\* cd .. undoes cd: while no power cut has interrupted a mkdir, `..' of every
\* directory names the directory it is listed in.
Parents ==
  Idle /\ cuts = 0 =>
    \A h \in Directories : \A x \in Places(h) :
      Rec(x).dir => \E y \in [cluster: Chain(Rec(x).cluster), sector: Sector, pos: Pos] :
                      Rec(y).name = DOTDOT /\ Rec(y).cluster = h

\* Nothing leaks: between two commands, every cluster in use belongs to a
\* file or directory that can be reached, as long as no power cut came and no
\* directory was removed (rm frees the directory, not what is in it).
DirectoryRemoved ==
  \E h \in Directories : \E x \in [cluster: Chain(h), sector: Sector, pos: Pos] :
    Rec(x).name = REMOVED /\ Rec(x).dir

NoLeak == Idle /\ cuts = 0 /\ ~DirectoryRemoved => Cluster \ FreeClusters = Reached

\* A file that is read has the content its directory entry promises, however
\* its clusters lie on the disk.
ReadReturnsContent ==
  Running("readFile") /\ Len(job.buffer) = Rec(job.hit).size
    => job.buffer = Content(Rec(job.hit))

\* Every command ends: the search for a free record, and the freeing of a
\* chain, come to an end unless the disk is full.
CommandsEnd == (pc # <<>>) ~> (pc = <<>> \/ halted)

\* The tree below the root, each node with the record that names it.
RootNode == [path |-> <<>>, rec |-> [ZeroRec EXCEPT !.dir = TRUE, !.cluster = ROOT]]

Below(x) ==
  IF x.rec.dir
  THEN {[path |-> Append(x.path, Rec(y).name), rec |-> Rec(y)] : y \in Places(x.rec.cluster)}
  ELSE {}

Nodes ==
  LET f[n \in Nat] ==
        IF n = 0 THEN {RootNode} ELSE UNION {{x} \cup Below(x) : x \in f[n - 1]}
  IN  f[LAST_CLUSTER]

FS == INSTANCE FileStore WITH
        tree <- {[path |-> x.path, dir |-> x.rec.dir,
                  content |-> IF x.rec.dir THEN <<>> ELSE Content(x.rec)] : x \in Nodes}

\* Each call takes effect at once, in full, even if the power goes in the
\* middle of it: the driver and its sector writes implement FileStore.
FileStoreRefined == FS!FSSpec
=============================================================================
