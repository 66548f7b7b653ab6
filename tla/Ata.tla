--------------------------------- MODULE Ata ---------------------------------
(***************************************************************************)
(* The disk driver against the two ATA channels of a PC: setupDrive's      *)
(* search for a drive and a partition, then the sector reads and writes    *)
(* its callers ask for.  The drives are hardware: what each does with a    *)
(* command, at its own pace.  A byte register holds RADIX values, so that  *)
(* a sector number still takes three of them and the head register.        *)
(***************************************************************************)
EXTENDS Integers, Sequences, FiniteSets

CONSTANTS
  RADIX,       \* values of a register of the sector number
  SECTORS,     \* sectors of a drive
  Hardware,    \* machines: what kind of device each drive is, what is on it
  Asked        \* sectors the file system asks for

Channels == {"primary", "secondary"}
Units    == {"master", "slave"}
Drives   == Channels \X Units
Kinds    == {"absent", "ata", "atapi"}
Sector   == 0..(SECTORS - 1)
Boot     == <<"primary", "master">>

\* What the driver looks at in a sector: partition entries, the signature,
\* the sector size, or just its data.
Partition == [type: {0, \h0B, \h0C, \h83}, start: Sector]
Contents  == [parts: Seq(Partition), signed: BOOLEAN, b512: BOOLEAN, data: {"x", "y"}]
Data(d)   == [parts |-> <<>>, signed |-> FALSE, b512 |-> FALSE, data |-> d]
Written   == {Data("x"), Data("y")}

\* Values of two, three and four registers.
R2 == RADIX * RADIX
R3 == RADIX * R2
R4 == RADIX * R3

ASSUME AtaAssumption ==
  /\ RADIX \in Nat /\ RADIX > 1
  /\ SECTORS \in Nat /\ SECTORS > 0 /\ SECTORS <= R4
  /\ \A h \in Hardware : /\ h.kind \in [Drives -> Kinds] /\ h.kind[Boot] = "ata"
                         /\ h.disk \in [Drives -> [Sector -> Contents]]
  /\ Asked \subseteq Sector

VARIABLES
  pc, activeDriveIndex, op, caller, diskBuffer, partitionStart,
  kind,        \* drive -> what is plugged in
  sel,         \* channel -> unit selected
  dev,         \* drive -> [st, cmd, lba]: what it is doing
  cache        \* drive -> sector -> value, what it holds

drv   == <<pc, activeDriveIndex, op, caller, diskBuffer, partitionStart>>
hw    == <<kind, sel, dev, cache>>
vars  == <<drv, hw>>

possibleDrives ==
  << <<"primary", "slave">>, <<"secondary", "master">>, <<"secondary", "slave">> >>

activeDrive == possibleDrives[activeDriveIndex]

Read(s)  == [kind |-> "read", sector |-> s]
Write(s) == [kind |-> "write", sector |-> s]
Idle     == [st |-> "idle", cmd |-> "none", lba |-> 0]

Init ==
  /\ pc = "ping" /\ activeDriveIndex = 1 /\ op = Read(0) /\ caller = "mbr"
  /\ diskBuffer = Data("x") /\ partitionStart = 0
  /\ \E h \in Hardware : kind = h.kind /\ cache = h.disk
  /\ sel = [c \in Channels |-> "master"]
  /\ dev = [d \in Drives |-> Idle]

----------------------------------------------------------------------------
\* The drives.  Status is of the unit selected on the channel; nothing
\* there reads as zero.  A packet device refuses IDENTIFY.

Unit(c)   == <<c, sel[c]>>
Zero(c)   == kind[Unit(c)] = "absent"
Busy(c)   == ~Zero(c) /\ dev[Unit(c)].st = "busy"
DRDY(c)   == ~Zero(c) /\ ~Busy(c)
DRQ(c)    == ~Zero(c) /\ dev[Unit(c)].st \in {"in", "out"}
Failed(c) == ~Zero(c) /\ dev[Unit(c)].st = "aborted"

\* A command given to a drive that is busy, or that is not there, is lost.
After(d, cmd, lba) ==
  IF kind[d] = "absent" \/ dev[d].st = "busy" THEN dev
  ELSE [dev EXCEPT ![d] = [st |-> "busy", cmd |-> cmd, lba |-> lba]]

Device(d) ==
  /\ dev[d].st = "busy"
  /\ LET done(st) == dev' = [dev EXCEPT ![d].st = st]
     IN  \/ kind[d] = "atapi" /\ done("aborted")
         \/ kind[d] = "ata" /\ dev[d].cmd \in {"identify", "read"} /\ done("in")
         \/ kind[d] = "ata" /\ dev[d].cmd = "write" /\ done("out")
         \/ kind[d] = "ata" /\ dev[d].cmd \in {"store", "flush"} /\ done("idle")
  /\ UNCHANGED <<drv, kind, sel, cache>>

----------------------------------------------------------------------------
\* setupDrive's search.

\* Mutant: the loop goes one past the table.
NextDrive_past ==
  /\ activeDriveIndex' = activeDriveIndex + 1
  /\ pc' = IF activeDriveIndex <= 3 THEN "ping" ELSE "failed"
  /\ UNCHANGED <<op, caller, diskBuffer, partitionStart>>

\* No further drive: fail("No disk found").
NextDrive ==
  /\ activeDriveIndex' = IF activeDriveIndex < 3 THEN activeDriveIndex + 1 ELSE 3
  /\ pc' = IF activeDriveIndex < 3 THEN "ping" ELSE "failed"
  /\ UNCHANGED <<op, caller, diskBuffer, partitionStart>>

\* Select, IDENTIFY.
pingDisk ==
  /\ pc = "ping" /\ pc' = "pinged"
  /\ sel' = [sel EXCEPT ![activeDrive[1]] = activeDrive[2]]
  /\ dev' = After(activeDrive, "identify", 0)
  /\ UNCHANGED <<activeDriveIndex, op, caller, diskBuffer, partitionStart, kind, cache>>

pingDisk_status ==
  /\ pc = "pinged"
  /\ \/ Zero(activeDrive[1]) /\ NextDrive
     \/ /\ ~Zero(activeDrive[1]) /\ pc' = "identify"
        /\ UNCHANGED <<activeDriveIndex, op, caller, diskBuffer, partitionStart>>
  /\ UNCHANGED hw

pingDisk_wait ==
  /\ pc = "identify" /\ ~Busy(activeDrive[1])
  /\ \/ Failed(activeDrive[1]) /\ NextDrive /\ UNCHANGED dev
     \/ /\ ~Failed(activeDrive[1])       \* discard the data
        /\ dev' = [dev EXCEPT ![activeDrive].st = "idle"]
        /\ pc' = "ready" /\ op' = Read(0) /\ caller' = "mbr"
        /\ UNCHANGED <<activeDriveIndex, diskBuffer, partitionStart>>
  /\ UNCHANGED <<kind, sel, cache>>

----------------------------------------------------------------------------
\* readDiskSector and writeDiskSector.

\* Mutant: DRQ is waited for before the command too.
waitdisk_always(drq) == DRDY("primary") /\ DRQ("primary")

\* The loop is left: whichever drive is meant, 0x1F7 is polled.
waitdisk(drq) == DRDY("primary") /\ (drq => DRQ("primary"))

\* Mutant: the middle register gets the low part again.
lba_registers_low(n) == <<n % RADIX, n % RADIX, (n \div R2) % RADIX>>

\* Registers 3 to 5.
lba_registers(n) ==
  <<n % RADIX, (n \div RADIX) % RADIX, (n \div R2) % RADIX>>

\* Mutant: the drive bit is left out.
head_register_master(n) == [unit |-> "master", top |-> (n \div R3) % RADIX]

\* Register 6: the rest of the sector number, and the drive.  The code ORs
\* the two; they share no bit as long as sectors are less than R4.
head_register(n) == [unit |-> activeDrive[2], top |-> (n \div R3) % RADIX]

\* What the drive makes of them.
lba(low, head) ==
  low[1] + low[2] * RADIX + low[3] * R2 + head.top * R3

command ==
  LET head == head_register(op.sector)
      c    == activeDrive[1]
  IN  /\ pc = "ready" /\ waitdisk(FALSE)
      /\ pc' = "data"
      /\ sel' = [sel EXCEPT ![c] = head.unit]
      /\ dev' = After(<<c, head.unit>>, op.kind, lba(lba_registers(op.sector), head))
      /\ UNCHANGED <<activeDriveIndex, op, caller, diskBuffer, partitionStart, kind, cache>>

insl ==
  LET d == Unit(activeDrive[1])
  IN  /\ pc = "data" /\ op.kind = "read" /\ waitdisk(TRUE)
      /\ diskBuffer' = cache[d][dev[d].lba]
      /\ dev' = [dev EXCEPT ![d] = Idle]
      /\ pc' = caller
      /\ UNCHANGED <<activeDriveIndex, op, caller, partitionStart, kind, sel, cache>>

\* The drive takes the sector into its cache, at once or after a while.
outsl ==
  LET d == Unit(activeDrive[1])
  IN  /\ pc = "data" /\ op.kind = "write" /\ waitdisk(TRUE)
      /\ cache' = [cache EXCEPT ![d][dev[d].lba] = diskBuffer]
      /\ \E st \in {"idle", "busy"} :
           dev' = [dev EXCEPT ![d] = [st |-> st, cmd |-> "store", lba |-> 0]]
      /\ pc' = "flush"
      /\ UNCHANGED <<activeDriveIndex, op, caller, diskBuffer, partitionStart, kind, sel>>

flush ==
  /\ pc = "flush" /\ pc' = caller
  /\ dev' = After(Unit(activeDrive[1]), "flush", 0)
  /\ UNCHANGED <<activeDriveIndex, op, caller, diskBuffer, partitionStart, kind, sel, cache>>

----------------------------------------------------------------------------
is_fat32(type) == type \in {\h0B, \h0C}

\* Start of the first FAT32 partition, 0 if there is none.
first_fat32(parts) ==
  LET Fat == {i \in DOMAIN parts : is_fat32(parts[i].type)}
  IN  IF Fat = {} THEN 0
      ELSE parts[CHOOSE i \in Fat : \A j \in Fat : i <= j].start

\* What the file system asks for, its tables and clusters (fatLBA and
\* fstClusterLBA on), lies behind the boot sector of its partition.
ASSUME AskedAssumption ==
  \A h \in Hardware : \A d \in Drives \ {Boot} :
    Asked \cap {0, first_fat32(h.disk[d][0].parts)} = {}

\* fail("No partition found on the disk"), or on to readBootSector.
findPartition ==
  /\ pc = "mbr"
  /\ partitionStart' = first_fat32(diskBuffer.parts)
  /\ \/ /\ partitionStart' = 0 /\ pc' = "failed" /\ UNCHANGED <<op, caller>>
     \/ /\ partitionStart' # 0
        /\ op' = Read(partitionStart') /\ caller' = "boot" /\ pc' = "ready"
  /\ UNCHANGED <<activeDriveIndex, diskBuffer, hw>>

\* fail("Invalid partition"), fail("... sectors of 512 bytes"), or done.
readBootSector ==
  /\ pc = "boot"
  /\ pc' = IF diskBuffer.signed /\ diskBuffer.b512 THEN "serve" ELSE "failed"
  /\ caller' = "serve"
  /\ UNCHANGED <<activeDriveIndex, op, diskBuffer, partitionStart, hw>>

\* The file system asks.
Request ==
  /\ pc = "serve" /\ pc' = "ready"
  /\ \E s \in Asked :
       \/ op' = Read(s) /\ UNCHANGED diskBuffer
       \/ op' = Write(s) /\ diskBuffer' \in Written
  /\ UNCHANGED <<activeDriveIndex, caller, partitionStart, hw>>

Driver == \/ pingDisk \/ pingDisk_status \/ pingDisk_wait
          \/ command \/ insl \/ outsl \/ flush
          \/ findPartition \/ readBootSector

Next == Driver \/ Request \/ \E d \in Drives : Device(d)

Spec == Init /\ [][Next]_vars

\* The kernel runs on, and a drive ends every command.
FairSpec == Spec /\ WF_vars(Driver) /\ \A d \in Drives : WF_vars(Device(d))

----------------------------------------------------------------------------
\* Type correctness of the driver's state and of the registers.
TypeOK ==
  /\ pc \in {"ping", "pinged", "identify", "ready", "data", "flush", "mbr",
             "boot", "serve", "failed"}
  /\ activeDriveIndex \in 1..3 /\ caller \in {"mbr", "boot", "serve"}
  /\ op \in [kind: {"read", "write"}, sector: Sector] /\ partitionStart \in Sector
  /\ sel \in [Channels -> Units]
  /\ \A d \in Drives :
       /\ dev[d].st \in {"idle", "busy", "in", "out", "aborted"}
       /\ dev[d].lba \in Sector

\* The drive setupDrive should settle on, and what is on it.
Attached == {i \in DOMAIN possibleDrives : kind[possibleDrives[i]] = "ata"}
Target   == IF Attached = {} THEN Boot
            ELSE possibleDrives[CHOOSE i \in Attached : \A j \in Attached : i <= j]

Start(mbr) ==
  CHOOSE s \in Sector :
    IF \E i \in DOMAIN mbr.parts : mbr.parts[i].type \in {\h0B, \h0C}
    THEN \E i \in DOMAIN mbr.parts :
           /\ mbr.parts[i].type \in {\h0B, \h0C} /\ mbr.parts[i].start = s
           /\ \A j \in 1..(i - 1) : mbr.parts[j].type \notin {\h0B, \h0C}
    ELSE s = 0

\* The report: "The first such partition is the one used."  setupDrive
\* succeeds exactly on machines with a drive besides the boot disk whose
\* first FAT32 partition has a sound boot sector, and then works on that
\* drive and partition, whatever is on the other drives, the boot disk among
\* them; the polls and aborted commands on the way leave no trace in the
\* outcome.
SetupOutcome ==
  LET disk  == cache[Target]
      start == Start(disk[0])
      sound == Attached # {} /\ start # 0 /\ disk[start].signed /\ disk[start].b512
  IN  /\ pc = "failed" => ~sound
      /\ caller = "serve" /\ pc # "failed" =>
           sound /\ activeDrive = Target /\ partitionStart = start

\* The comment "primary master is always the boot disk here": no step
\* changes a drive other than the one found, the boot disk least of all.
OthersKept ==
  [][\A d \in Drives \ {Target} : cache'[d] = cache[d]]_vars

\* Reads and writes, register by register and with the drive at its own
\* pace, are those of an array of sectors.
Store ==
  INSTANCE SectorStore WITH
    Value <- Contents,
    store <- cache[Target],
    buf   <- diskBuffer,
    req   <- IF pc \in {"ready", "data"} THEN op ELSE [kind |-> "none", sector |-> 0]

SectorStoreRefined == Store!Spec

\* waitdisk polls 0x1F7, the primary channel's status, for a drive on the
\* secondary one.
WrongPoll == pc \in {"ready", "data"} /\ activeDrive[1] = "secondary"

\* setupDrive ends, by finding a file system or in fail(), and so does every
\* request: no wait for the controller is for ever, but for the wait at the
\* wrong channel.
Answered == (pc # "serve") ~> (pc \in {"serve", "failed"} \/ WrongPoll)
=============================================================================
