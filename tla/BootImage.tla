------------------------------ MODULE BootImage ------------------------------
(***************************************************************************)
(* The image builder mkbootdisk, run as the makefile runs it (a boot       *)
(* sector, then files or @SECNUM), writing through a system call that may  *)
(* take only part of what it is given, be interrupted or fail.             *)
(*                                                                         *)
(* A byte is named by its file and its place in it.                        *)
(***************************************************************************)
EXTENDS Integers, Sequences

CONSTANTS
  SECT,        \* bytes of a sector (512)
  CHUNK,       \* sectors read at once (8)
  FILL,        \* sectors the image is filled out to (1024)
  ArgLists     \* command lines: the boot sector file, then files and skips

\* An argument: a file of n bytes, or @n.
Argument == [kind: {"file", "skip"}, name: STRING, n: Nat]

ASSUME ImageAssumption ==
  /\ SECT \in Nat /\ SECT > 2 /\ CHUNK \in Nat \ {0} /\ FILL \in Nat
  /\ \A a \in ArgLists : a \in Seq(Argument) /\ a # <<>>

Byte(f, i)  == [file |-> f, i |-> i]
Zeros(n)    == [i \in 1..n |-> Byte("zero", 0)]
Bytes(f, from, to) == [i \in 1..(to - from) |-> Byte(f, from + i - 1)]
File(f, n)  == [kind |-> "file", name |-> f, n |-> n]
SkipTo(k)   == [kind |-> "skip", name |-> "", n |-> k]

VARIABLES
  pc,          \* what main is at
  args,        \* arguments still to come
  nsectors, pos,
  out,         \* the image so far
  buf          \* what diskwrite still has to write

ivars == <<pc, args, nsectors, pos, out, buf>>

ImageInit ==
  /\ pc = "boot" /\ args \in ArgLists /\ nsectors = 0 /\ pos = 0
  /\ out = <<>> /\ buf = <<>>

\* main goes on only when diskwrite has returned.
At(label) == pc = label /\ buf = <<>>

\* Mutant: a short write is taken for a whole one.
diskwrite_once ==
  /\ buf # <<>> /\ pc # "usage"
  /\ \E w \in 1..Len(buf) : out' = out \o SubSeq(buf, 1, w)
  /\ buf' = <<>>
  /\ UNCHANGED <<pc, args, nsectors, pos>>

\* One write(2) of diskwrite's loop; EINTR changes nothing.
diskwrite ==
  /\ buf # <<>> /\ pc # "usage"
  /\ \E w \in 1..Len(buf) :
       /\ out' = out \o SubSeq(buf, 1, w)
       /\ buf' = SubSeq(buf, w + 1, Len(buf))
  /\ UNCHANGED <<pc, args, nsectors, pos>>

\* Any other error, or a write of nothing: usage() exits.
diskwrite_fails ==
  /\ buf # <<>> /\ pc # "usage" /\ pc' = "usage"
  /\ UNCHANGED <<args, nsectors, pos, out, buf>>

\* The boot sector, with its signature.
boot_sector ==
  LET n == Head(args).n
  IN  /\ At("boot")
      /\ \/ n > SECT - 2 /\ pc' = "usage" /\ UNCHANGED <<args, nsectors, buf>>
         \/ /\ n <= SECT - 2
            /\ buf' = Bytes("boot", 0, n) \o Zeros(SECT - 2 - n) \o Bytes("signature", 0, 2)
            /\ nsectors' = 1 /\ args' = Tail(args) /\ pc' = "arg"
      /\ UNCHANGED <<pos, out>>

\* "@X" means "skip to sector X".
skip_sectors ==
  /\ At("arg") /\ args # <<>> /\ Head(args).kind = "skip"
  /\ \/ nsectors > Head(args).n /\ pc' = "usage" /\ UNCHANGED <<args, nsectors, buf>>
     \/ /\ nsectors < Head(args).n
        /\ buf' = Zeros(SECT) /\ nsectors' = nsectors + 1 /\ UNCHANGED <<pc, args>>
     \/ nsectors = Head(args).n /\ args' = Tail(args) /\ UNCHANGED <<pc, nsectors, buf>>
  /\ UNCHANGED <<pos, out>>

\* One fread of the file.
read_file ==
  LET a == Head(args)
      n == IF a.n - pos < CHUNK * SECT THEN a.n - pos ELSE CHUNK * SECT
  IN  /\ At("arg") /\ args # <<>> /\ a.kind = "file"
      /\ \/ n > 0 /\ buf' = Bytes(a.name, pos, pos + n) /\ pos' = pos + n /\ UNCHANGED pc
         \/ n = 0 /\ pc' = "pad" /\ UNCHANGED <<buf, pos>>
      /\ UNCHANGED <<args, nsectors, out>>

pad_file ==
  LET pad == IF pos % SECT # 0 THEN SECT - (pos % SECT) ELSE 0
  IN  /\ At("pad")
      /\ buf' = Zeros(pad)
      /\ nsectors' = nsectors + ((pos + pad) \div SECT)
      /\ pos' = 0 /\ args' = Tail(args) /\ pc' = "arg"
      /\ UNCHANGED out

fill_out ==
  /\ At("arg") /\ args = <<>>
  /\ \/ nsectors < FILL /\ buf' = Zeros(SECT) /\ nsectors' = nsectors + 1 /\ UNCHANGED pc
     \/ nsectors >= FILL /\ pc' = "built" /\ UNCHANGED <<buf, nsectors>>
  /\ UNCHANGED <<args, pos, out>>

mkbootdisk == \/ diskwrite \/ diskwrite_fails \/ boot_sector \/ skip_sectors
              \/ read_file \/ pad_file \/ fill_out

ImageSpec == ImageInit /\ [][mkbootdisk]_ivars

----------------------------------------------------------------------------
\* The sectors counted are the sectors written, whatever writes came short,
\* so that @SECNUM and the filling count from the truth.
SectorsCounted == At("arg") /\ pos = 0 => Len(out) = nsectors * SECT
=============================================================================
