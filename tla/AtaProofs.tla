------------------------------ MODULE AtaProofs ------------------------------
(***************************************************************************)
(* What holds of the disk driver for every register width, drive size,     *)
(* machine and disk contents: the sector number survives its registers,    *)
(* only the drive found is ever written, what setupDrive settles on, and   *)
(* that the whole serves its callers like an array of sectors.             *)
(***************************************************************************)
EXTENDS Ata, TLAPS, WellFoundedInduction, NaturalsInduction

\* The least of a set of numbers.
LEMMA Least ==
  ASSUME NEW T \in SUBSET Nat, T # {}
  PROVE  \E x \in T : \A y \in T : x <= y
<1>1. PICK x \in T : \A y \in T : ~(<<y, x>> \in OpToRel(<, Nat))
  BY NatLessThanWellFounded, WFMin
<1>2. \A y \in T : ~(y < x)
  BY <1>1 DEF OpToRel
<1> QED  BY <1>2

\* Dividing twice is dividing by the product.
LEMMA DivDiv ==
  ASSUME NEW n \in Nat, NEW a \in Nat \ {0}, NEW b \in Nat \ {0}
  PROVE  n \div (a * b) = (n \div a) \div b
<1> DEFINE q == n \div a
           r == n % a
           p == q \div b
           s == q % b
<1>1. q \in Nat /\ r \in 0..(a - 1) /\ n = a * q + r
  OBVIOUS
<1> HIDE DEF q, r
<1>2. p \in Nat /\ s \in 0..(b - 1) /\ q = b * p + s
  BY <1>1
<1> HIDE DEF p, s
<1>3. a * q = a * b * p + a * s
  BY <1>1, <1>2
<1>4. a * s + a <= a * b
  <2>1. a * (s + 1) <= a * b
    BY <1>2
  <2> QED  BY <1>2, <2>1
<1>5. a * s + r \in 0..(a * b - 1)
  BY <1>1, <1>2, <1>4
<1>6. n = (a * b) * p + (a * s + r) /\ a * b \in Nat \ {0}
  BY <1>1, <1>2, <1>3
<1>7. n \div (a * b) = p
  <2> DEFINE m == a * b
             t == a * s + r
  <2>1. m \in Nat \ {0} /\ t \in 0..(m - 1) /\ n = m * p + t
    BY <1>5, <1>6
  <2> HIDE DEF m, t
  <2>2. n \div m = p
    BY <1>2, <2>1
  <2> QED  BY <2>2 DEF m
<1> QED  BY <1>7 DEF p, q

\* Quotient and remainder.
LEMMA DivMod ==
  ASSUME NEW n \in Nat, NEW a \in Nat \ {0}
  PROVE  n \div a \in Nat /\ n % a \in 0..(a - 1) /\ n = a * (n \div a) + (n % a)
OBVIOUS

\* A small number is its own remainder.
LEMMA SmallMod ==
  ASSUME NEW n \in Nat, NEW a \in Nat \ {0}, n < a PROVE n % a = n
OBVIOUS

\* Three remainders and a quotient make up a number again.
LEMMA Horner ==
  ASSUME NEW a \in Nat \ {0}, NEW n \in Nat, NEW q1 \in Nat, NEW q2 \in Nat, NEW q3 \in Nat,
         NEW r0 \in Nat, NEW r1 \in Nat, NEW r2 \in Nat,
         n = a * q1 + r0, q1 = a * q2 + r1, q2 = a * q3 + r2
  PROVE  /\ n = r0 + r1 * a + r2 * (a * a) + q3 * (a * (a * a))
         /\ n < a * (a * (a * a)) => q3 < a
<1>1. q1 = a * (a * q3) + a * r2 + r1
  OBVIOUS
<1>2. a * q1 = a * (a * (a * q3)) + a * (a * r2) + a * r1
  BY <1>1
<1>3. n = a * (a * (a * q3)) + a * (a * r2) + a * r1 + r0
  BY <1>2
<1>4. n = r0 + r1 * a + r2 * (a * a) + q3 * (a * (a * a))
  BY <1>3
<1>5. ASSUME q3 >= a PROVE n >= a * (a * (a * a))
  <2>1. a * q3 >= a * a
    BY <1>5
  <2>2. a * (a * q3) >= a * (a * a)
    BY <2>1
  <2>3. a * (a * (a * q3)) >= a * (a * (a * a))
    BY <2>2
  <2>4. a * (a * r2) \in Nat /\ a * r1 \in Nat
    OBVIOUS
  <2> QED  BY <1>3, <2>3, <2>4
<1> QED  BY <1>4, <1>5

\* The drive is sent the sector number it is meant to get.
LEMMA Registers ==
  ASSUME NEW n \in Sector
  PROVE  lba(lba_registers(n), head_register(n)) = n
<1> DEFINE q1 == n \div RADIX
           q2 == q1 \div RADIX
           q3 == q2 \div RADIX
           r0 == n % RADIX
           r1 == q1 % RADIX
           r2 == q2 % RADIX
<1>0. RADIX \in Nat \ {0} /\ n \in Nat /\ n < R4
  <2>1. RADIX \in Nat \ {0} /\ SECTORS \in Nat /\ SECTORS <= R4
    BY AtaAssumption
  <2>2. R2 \in Nat
    BY <2>1 DEF R2
  <2>3. R3 \in Nat
    BY <2>1, <2>2 DEF R3
  <2>4. R4 \in Nat
    BY <2>1, <2>3 DEF R4
  <2> QED  BY <2>1, <2>4 DEF Sector
<1>1. q1 \in Nat /\ r0 \in 0..(RADIX - 1) /\ n = RADIX * q1 + r0
  BY <1>0, DivMod
<1> HIDE DEF q1, r0
<1>2. q2 \in Nat /\ r1 \in 0..(RADIX - 1) /\ q1 = RADIX * q2 + r1
  BY <1>0, <1>1, DivMod
<1> HIDE DEF q2, r1
<1>3. q3 \in Nat /\ r2 \in 0..(RADIX - 1) /\ q2 = RADIX * q3 + r2
  BY <1>0, <1>2, DivMod
<1> HIDE DEF q3, r2
<1>a. r0 \in Nat /\ r1 \in Nat /\ r2 \in Nat
  BY <1>0, <1>1, <1>2, <1>3
<1> USE DEF q1, q2, q3, r0, r1, r2
<1>4. n \div R2 = q2
  BY <1>0, DivDiv DEF R2
<1>5. n \div R3 = q3
  <2>1. R3 = R2 * RADIX /\ R2 \in Nat \ {0}
    BY <1>0 DEF R3, R2
  <2>2. n \div (R2 * RADIX) = (n \div R2) \div RADIX
    BY <1>0, <2>1, DivDiv
  <2> QED  BY <1>4, <2>1, <2>2
<1>6. lba(lba_registers(n), head_register(n)) = r0 + r1 * RADIX + r2 * R2 + (q3 % RADIX) * R3
  BY <1>4, <1>5 DEF lba, lba_registers, head_register
<1> HIDE DEF q1, q2, q3, r0, r1, r2
<1>7. /\ n = r0 + r1 * RADIX + r2 * (RADIX * RADIX) + q3 * (RADIX * (RADIX * RADIX))
      /\ n < RADIX * (RADIX * (RADIX * RADIX)) => q3 < RADIX
  BY <1>0, <1>a, <1>1, <1>2, <1>3, Horner
<1>8. q3 % RADIX = q3
  <2>1. q3 < RADIX
    BY <1>0, <1>7 DEF R4, R3, R2
  <2> QED  BY <1>0, <1>3, <2>1, SmallMod
<1> QED  BY <1>6, <1>7, <1>8 DEF R2, R3

----------------------------------------------------------------------------
\* The inductive invariant.

Value == Contents
State == [st: {"idle", "busy", "in", "out", "aborted"},
          cmd: {"none", "identify", "read", "write", "store", "flush"}, lba: Sector]

\* Types, of the hardware too.
Typed ==
  /\ TypeOK
  /\ kind \in [Drives -> Kinds] /\ dev \in [Drives -> State]
  /\ cache \in [Drives -> [Sector -> Value]] /\ diskBuffer \in Value

\* Only a disk transfers data, only a packet device refuses a command.
Behaving ==
  \A d \in Drives : /\ kind[d] # "ata" => dev[d].st \notin {"in", "out"}
                    /\ kind[d] = "ata" => dev[d].st # "aborted"

\* What the search has passed over and settled on.  Once it is past the
\* first drive, the primary channel shows a drive that is no disk, and
\* waitdisk, which looks there, lets no transfer happen.
Searching ==
  /\ \A i \in 1..(activeDriveIndex - 1) : kind[possibleDrives[i]] # "ata"
  /\ pc # "ping" => sel[activeDrive[1]] = activeDrive[2]
  /\ activeDriveIndex > 1 => sel["primary"] = "slave"
  /\ pc \in {"pinged", "identify"} /\ kind[activeDrive] = "atapi" =>
       dev[activeDrive].st \in {"busy", "aborted"}
  /\ pc = "identify" => kind[activeDrive] # "absent"
  /\ pc \notin {"ping", "pinged", "identify", "failed"} => kind[activeDrive] = "ata"
  /\ pc \in {"ping", "pinged", "identify"} => caller = "mbr"
  /\ pc \in {"flush", "mbr", "boot", "serve"} \/ caller # "mbr" =>
       activeDriveIndex = 1 /\ kind[activeDrive] = "ata"

\* Who asked for what, and that the drive has been told so.
Asking ==
  /\ pc = "data" /\ activeDriveIndex = 1 => dev[activeDrive].lba = op.sector
  /\ op.kind = "write" => caller = "serve" /\ op.sector \in Asked
  /\ pc \in {"ready", "data"} /\ caller = "mbr" => op = Read(0)
  /\ pc \in {"ready", "data"} /\ caller = "boot" => op = Read(partitionStart)
  /\ pc = "mbr" => caller = "mbr" /\ diskBuffer = cache[activeDrive][0]
  /\ pc = "boot" => caller = "boot" /\ diskBuffer = cache[activeDrive][partitionStart]
  /\ pc = "serve" => caller = "serve"
  /\ pc = "flush" => op.kind = "write"

\* The partition of a drive whose boot record is untouched.
First(d) == first_fat32(cache[d][0].parts)
SoundAt(d, s) == cache[d][s].signed /\ cache[d][s].b512

\* What has been found.
Found ==
  /\ \E h \in Hardware : \A d \in Drives : cache[d][0] = h.disk[d][0]
  /\ caller # "mbr" => partitionStart = First(activeDrive) /\ partitionStart # 0
  /\ caller = "serve" /\ pc # "failed" => SoundAt(activeDrive, partitionStart)
  /\ pc = "failed" =>
       \/ Attached = {}
       \/ /\ activeDriveIndex = 1 /\ kind[activeDrive] = "ata"
          /\ First(activeDrive) = 0 \/ ~SoundAt(activeDrive, First(activeDrive))

AInv == Typed /\ Behaving /\ Searching /\ Asking /\ Found

\* The drive at work, as a channel and a unit.
LEMMA ActiveDrive ==
  ASSUME activeDriveIndex \in 1..3
  PROVE  /\ activeDrive \in Drives /\ activeDrive = <<activeDrive[1], activeDrive[2]>>
         /\ activeDrive[1] \in Channels /\ activeDrive[2] \in Units
         /\ activeDriveIndex = 1 => activeDrive = <<"primary", "slave">>
         /\ activeDriveIndex > 1 => activeDrive[1] = "secondary"
<1>1. CASE activeDriveIndex = 1
  BY <1>1 DEF activeDrive, possibleDrives, Drives, Channels, Units
<1>2. CASE activeDriveIndex = 2
  BY <1>2 DEF activeDrive, possibleDrives, Drives, Channels, Units
<1>3. CASE activeDriveIndex = 3
  BY <1>3 DEF activeDrive, possibleDrives, Drives, Channels, Units
<1> QED  BY <1>1, <1>2, <1>3

\* Sectors and what they may hold.
LEMMA Values ==
  /\ 0 \in Sector /\ SECTORS \in Nat /\ Value \subseteq Contents
  /\ Data("x") \in Value /\ Written \subseteq Value
<1>1. 0 \in Sector /\ SECTORS \in Nat
  BY AtaAssumption DEF Sector
<1>2. Written \subseteq Contents
  <2>1. <<>> \in Seq(Partition)
    OBVIOUS
  <2>2. "x" \in {"x", "y"} /\ "y" \in {"x", "y"}
    OBVIOUS
  <2>3. Data("x") \in Contents /\ Data("y") \in Contents
    BY <2>1, <2>2 DEF Data, Contents
  <2> QED  BY <2>3 DEF Written
<1> QED  BY <1>1, <1>2 DEF Value, Written

\* The loop over the partition entries finds what Start describes.
LEMMA FirstFat ==
  ASSUME NEW c \in Contents
  PROVE  first_fat32(c.parts) \in Sector /\ Start(c) = first_fat32(c.parts)
<1> DEFINE parts == c.parts
           Fat == {i \in DOMAIN parts : is_fat32(parts[i].type)}
           Is(s) == IF \E i \in DOMAIN parts : parts[i].type \in {\h0B, \h0C}
                    THEN \E i \in DOMAIN parts :
                           /\ parts[i].type \in {\h0B, \h0C} /\ parts[i].start = s
                           /\ \A j \in 1..(i - 1) : parts[j].type \notin {\h0B, \h0C}
                    ELSE s = 0
<1>1. parts \in Seq(Partition) /\ 0 \in Sector
  BY Values DEF Contents
<1>2. DOMAIN parts = 1..Len(parts) /\ Len(parts) \in Nat
      /\ \A i \in DOMAIN parts : parts[i].start \in Sector
  <2> HIDE DEF parts
  <2>1. DOMAIN parts = 1..Len(parts) /\ Len(parts) \in Nat
    BY <1>1
  <2>2. ASSUME NEW i \in DOMAIN parts PROVE parts[i].start \in Sector
    <3>1. parts[i] \in Partition
      BY <1>1
    <3> QED  BY <3>1 DEF Partition
  <2> QED  BY <2>1, <2>2
<1>3. Start(c) = CHOOSE s \in Sector : Is(s)
  BY Zenon DEF Start
<1>4. first_fat32(parts) = IF Fat = {} THEN 0
                           ELSE parts[CHOOSE i \in Fat : \A j \in Fat : i <= j].start
  BY DEF first_fat32
<1> HIDE DEF parts
<1>5. CASE Fat = {}
  <2>1. \A s : Is(s) <=> s = 0
    BY <1>5 DEF is_fat32
  <2> HIDE DEF Is
  <2>2. (CHOOSE s \in Sector : Is(s)) = 0
    BY <1>1, <2>1
  <2> QED  BY <1>1, <1>3, <1>4, <1>5, <2>2 DEF parts
<1>6. CASE Fat # {}
  <2>1. Fat \in SUBSET Nat
    BY <1>2
  <2> DEFINE m == CHOOSE i \in Fat : \A j \in Fat : i <= j
  <2>2. m \in Fat /\ \A j \in Fat : m <= j
    <3>1. \E i \in Fat : \A j \in Fat : i <= j
      BY <1>6, <2>1, Least
    <3> HIDE DEF Fat
    <3> QED  BY <3>1
  <2>3. first_fat32(parts) = parts[m].start
    BY <1>4, <1>6
  <2> HIDE DEF m
  <2>4. m \in DOMAIN parts /\ is_fat32(parts[m].type) /\ m \in Nat
    BY <1>2, <2>2
  <2>5. parts[m].start \in Sector
    BY <1>2, <2>4
  <2>6. \A j \in 1..(m - 1) : ~is_fat32(parts[j].type)
    BY <1>2, <2>2, <2>4
  <2>7. Is(parts[m].start)
    BY <2>4, <2>6 DEF is_fat32
  <2>8. ASSUME NEW s \in Sector, Is(s) PROVE s = parts[m].start
    <3>1. PICK i \in DOMAIN parts :
            /\ parts[i].type \in {\h0B, \h0C} /\ parts[i].start = s
            /\ \A j \in 1..(i - 1) : parts[j].type \notin {\h0B, \h0C}
      BY <2>4, <2>8 DEF is_fat32
    <3>2. i \in Nat /\ i \in Fat
      BY <1>2, <3>1 DEF is_fat32
    <3>3. m <= i
      BY <2>2, <3>2
    <3>4. ~(m < i)
      BY <1>2, <2>4, <3>1, <3>2 DEF is_fat32
    <3> QED  BY <2>4, <3>1, <3>2, <3>3, <3>4
  <2> HIDE DEF Is
  <2>9. (CHOOSE s \in Sector : Is(s)) = parts[m].start
    BY <2>5, <2>7, <2>8
  <2> QED  BY <1>3, <2>3, <2>5, <2>9 DEF parts
<1> QED  BY <1>5, <1>6

\* What a command changes.
LEMMA Commanded ==
  ASSUME NEW d \in Drives, NEW l \in Sector, dev \in [Drives -> State],
         NEW c \in {"identify", "read", "write", "flush"}
  PROVE  /\ After(d, c, l) \in [Drives -> State]
         /\ \A e \in Drives : e # d => After(d, c, l)[e] = dev[e]
         /\ After(d, c, l)[d].st = "busy" \/ After(d, c, l)[d] = dev[d]
         /\ kind[d] # "absent" => After(d, c, l)[d].st = "busy"
         /\ kind[d] # "absent" /\ dev[d].st # "busy" => After(d, c, l)[d].lba = l
<1> DEFINE new == [st |-> "busy", cmd |-> c, lba |-> l]
<1>1. new \in State
  BY DEF State
<1>2. CASE kind[d] = "absent" \/ dev[d].st = "busy"
  BY <1>2 DEF After
<1>3. CASE ~(kind[d] = "absent" \/ dev[d].st = "busy")
  <2>1. After(d, c, l) = [dev EXCEPT ![d] = new]
    BY <1>3 DEF After
  <2>2. new.st = "busy" /\ new.lba = l
    OBVIOUS
  <2> HIDE DEF new
  <2> QED  BY <1>1, <2>1, <2>2
<1> QED  BY <1>2, <1>3

\* A drive in one of its states is typed.
LEMMA Registered ==
  \A f \in [Drives -> State] : \A d \in Drives :
    /\ f[d].st \in {"idle", "busy", "in", "out", "aborted"}
    /\ f[d].lba \in Sector
BY DEF State

\* What AInv says of types, in one place.
LEMMA Types ==
  ASSUME AInv
  PROVE  /\ activeDriveIndex \in 1..3 /\ caller \in {"mbr", "boot", "serve"}
         /\ op \in [kind: {"read", "write"}, sector: Sector] /\ partitionStart \in Sector
         /\ op.kind \in {"read", "write"} /\ op.sector \in Sector
         /\ sel \in [Channels -> Units] /\ kind \in [Drives -> Kinds]
         /\ dev \in [Drives -> State] /\ cache \in [Drives -> [Sector -> Value]]
         /\ diskBuffer \in Value
BY DEF AInv, Typed, TypeOK

\* The drive at work is the one its channel shows.
LEMMA Shown ==
  ASSUME AInv, pc # "ping" PROVE Unit(activeDrive[1]) = activeDrive
BY Types, ActiveDrive DEF AInv, Searching, Unit

\* A transfer is with the first drive of the table.
LEMMA Transfer ==
  ASSUME AInv, pc = "data", waitdisk(TRUE)
  PROVE  /\ activeDriveIndex = 1 /\ kind[activeDrive] = "ata"
         /\ Unit(activeDrive[1]) = activeDrive
         /\ dev[activeDrive].lba = op.sector
<1>1. SUFFICES ASSUME activeDriveIndex > 1 PROVE FALSE
  BY Types, Shown DEF AInv, Searching, Asking
<1>2. Unit("primary") = <<"primary", "slave">> /\ <<"primary", "slave">> \in Drives
  BY <1>1 DEF AInv, Searching, Unit, Drives, Channels, Units
<1>3. kind[<<"primary", "slave">>] # "ata"
  <2>1. 1 \in 1..(activeDriveIndex - 1)
    BY <1>1, Types
  <2> QED  BY <2>1 DEF AInv, Searching, possibleDrives
<1>4. dev[<<"primary", "slave">>].st \notin {"in", "out"}
  BY <1>2, <1>3 DEF AInv, Behaving
<1> QED  BY <1>2, <1>4 DEF waitdisk, DRQ

----------------------------------------------------------------------------
\* Every step keeps it.

\* The drives at their own pace.
LEMMA DeviceKeeps ==
  ASSUME AInv, NEW d \in Drives, Device(d) PROVE AInv'
<1>0. /\ activeDriveIndex \in 1..3 /\ dev \in [Drives -> State] /\ activeDrive \in Drives
      /\ dev[d] \in State
  BY Types, ActiveDrive
<1>1. UNCHANGED <<pc, activeDriveIndex, op, caller, diskBuffer, partitionStart,
                  kind, sel, cache, activeDrive>>
  BY DEF Device, drv, activeDrive
<1>2. PICK st \in {"aborted", "in", "out", "idle"} :
        /\ dev' = [dev EXCEPT ![d].st = st]
        /\ st = "aborted" => kind[d] = "atapi"
        /\ st \in {"in", "out"} => kind[d] = "ata"
        /\ kind[d] = "atapi" => st = "aborted"
  BY DEF Device
<1>3. /\ dev' \in [Drives -> State]
      /\ \A e \in Drives : e # d => dev'[e] = dev[e]
      /\ dev'[d].st = st /\ dev'[d].lba = dev[d].lba
  BY <1>0, <1>2 DEF State
<1>4. Typed'
  BY <1>1, <1>3, Registered DEF AInv, Typed, TypeOK
<1>5. Behaving'
  BY <1>1, <1>2, <1>3 DEF AInv, Behaving
<1>6. Searching'
  <2>1. kind[activeDrive] = "atapi" /\ dev[activeDrive].st \in {"busy", "aborted"} =>
          dev'[activeDrive].st \in {"busy", "aborted"}
    BY <1>0, <1>2, <1>3
  <2> QED  BY <1>1, <2>1 DEF AInv, Searching, possibleDrives
<1>7. Asking'
  <2>1. dev'[activeDrive].lba = dev[activeDrive].lba
    BY <1>0, <1>3
  <2> QED  BY <1>1, <2>1 DEF AInv, Asking, Read
<1>8. Found'
  BY <1>1 DEF AInv, Found, First, SoundAt, Attached, possibleDrives
<1> QED  BY <1>4, <1>5, <1>6, <1>7, <1>8 DEF AInv

\* On to the next drive, or out of drives.
LEMMA NextDriveKeeps ==
  ASSUME AInv, pc \in {"pinged", "identify"}, kind[activeDrive] # "ata",
         NextDrive, UNCHANGED hw
  PROVE  AInv'
<1>0. /\ activeDriveIndex \in 1..3 /\ caller = "mbr" /\ op.kind # "write"
      /\ sel[activeDrive[1]] = activeDrive[2]
      /\ activeDriveIndex = 1 => activeDrive = <<"primary", "slave">>
  BY Types, ActiveDrive DEF AInv, Searching, Asking
<1>1. /\ UNCHANGED <<op, caller, diskBuffer, partitionStart, kind, sel, dev, cache>>
      /\ pc' \in {"ping", "failed"}
  BY DEF NextDrive, hw
<1>2. \/ activeDriveIndex < 3 /\ activeDriveIndex' = activeDriveIndex + 1 /\ pc' = "ping"
      \/ activeDriveIndex = 3 /\ activeDriveIndex' = 3 /\ pc' = "failed"
  BY <1>0 DEF NextDrive
<1>3. activeDriveIndex' \in 1..3
  BY <1>0, <1>2
<1>4. \A i \in 1..activeDriveIndex : kind[possibleDrives[i]] # "ata"
  BY <1>0 DEF AInv, Searching, activeDrive
<1>5. Typed'
  BY <1>1, <1>3, Registered DEF AInv, Typed, TypeOK
<1>6. Behaving'
  BY <1>1 DEF AInv, Behaving
<1>7. Searching'
  <2>1. \A i \in 1..(activeDriveIndex' - 1) : kind'[possibleDrives[i]] # "ata"
    BY <1>0, <1>1, <1>2, <1>4
  <2>2. activeDriveIndex' > 1 => sel'["primary"] = "slave"
    BY <1>0, <1>1, <1>2 DEF AInv, Searching
  <2>3. pc' # "ping" => sel'[activeDrive'[1]] = activeDrive'[2]
    BY <1>0, <1>1, <1>2 DEF activeDrive
  <2> QED  BY <1>0, <1>1, <2>1, <2>2, <2>3 DEF Searching, possibleDrives
<1>8. Asking'
  BY <1>0, <1>1 DEF Asking
<1>9. Found'
  <2>1. pc' = "failed" => Attached' = {}
    BY <1>1, <1>2, <1>4 DEF Attached, possibleDrives
  <2> QED  BY <1>0, <1>1, <2>1 DEF AInv, Found
<1> QED  BY <1>5, <1>6, <1>7, <1>8, <1>9 DEF AInv

\* The search.
LEMMA SearchKeeps ==
  ASSUME AInv, pingDisk \/ pingDisk_status \/ pingDisk_wait PROVE AInv'
<1>0. /\ activeDriveIndex \in 1..3 /\ activeDrive \in Drives
      /\ activeDrive = <<activeDrive[1], activeDrive[2]>>
      /\ activeDrive[1] \in Channels /\ activeDrive[2] \in Units
      /\ activeDriveIndex = 1 => activeDrive = <<"primary", "slave">>
      /\ activeDriveIndex > 1 => activeDrive[1] = "secondary"
      /\ dev \in [Drives -> State] /\ 0 \in Sector /\ sel \in [Channels -> Units]
      /\ kind[activeDrive] \in Kinds
  BY Types, ActiveDrive, Values
<1>1. CASE pingDisk
  <2>1. /\ pc = "ping" /\ pc' = "pinged"
        /\ sel' = [sel EXCEPT ![activeDrive[1]] = activeDrive[2]]
        /\ dev' = After(activeDrive, "identify", 0)
        /\ UNCHANGED <<activeDriveIndex, op, caller, diskBuffer, partitionStart,
                       kind, cache, activeDrive>>
    BY <1>1 DEF pingDisk, activeDrive
  <2>2. /\ dev' \in [Drives -> State]
        /\ \A e \in Drives : e # activeDrive => dev'[e] = dev[e]
        /\ dev'[activeDrive].st = "busy" \/ dev'[activeDrive] = dev[activeDrive]
        /\ kind[activeDrive] # "absent" => dev'[activeDrive].st = "busy"
    BY <1>0, <2>1, Commanded
  <2>3. sel' \in [Channels -> Units] /\ sel'[activeDrive[1]] = activeDrive[2]
    BY <1>0, <2>1
  <2>4. Typed'
    BY <2>1, <2>2, <2>3, Registered DEF AInv, Typed, TypeOK
  <2>5. Behaving'
    BY <2>1, <2>2 DEF AInv, Behaving
  <2>6. Searching'
    <3>1. activeDriveIndex > 1 => sel'["primary"] = "slave"
      BY <1>0, <2>1 DEF AInv, Searching, Channels
    <3> QED  BY <2>1, <2>2, <2>3, <3>1 DEF AInv, Searching, possibleDrives
  <2>7. Asking'
    BY <2>1 DEF AInv, Asking
  <2>8. Found'
    <3>1. /\ pc = "ping" /\ pc' = "pinged"
          /\ UNCHANGED <<caller, partitionStart, kind, cache, activeDrive>>
      BY <2>1
    <3> QED  BY <3>1 DEF AInv, Found, First, SoundAt
  <2> QED  BY <2>4, <2>5, <2>6, <2>7, <2>8 DEF AInv
<1>2. CASE pingDisk_status
  <2>1. pc = "pinged" /\ UNCHANGED hw /\ Unit(activeDrive[1]) = activeDrive
    BY <1>2, Shown DEF pingDisk_status
  <2>2. CASE Zero(activeDrive[1]) /\ NextDrive
    BY <2>1, <2>2, NextDriveKeeps DEF Zero
  <2>3. CASE /\ ~Zero(activeDrive[1]) /\ pc' = "identify"
             /\ UNCHANGED <<activeDriveIndex, op, caller, diskBuffer, partitionStart>>
    <3>1. UNCHANGED <<activeDriveIndex, op, caller, diskBuffer, partitionStart,
                      kind, sel, dev, cache, activeDrive>> /\ kind[activeDrive] # "absent"
      BY <2>1, <2>3 DEF Zero, hw, activeDrive
    <3>2. Typed'
      BY <2>3, <3>1, Registered DEF AInv, Typed, TypeOK
    <3>3. Behaving'
      BY <3>1 DEF AInv, Behaving
    <3>4. Searching'
      BY <2>1, <2>3, <3>1 DEF AInv, Searching, possibleDrives
    <3>5. Asking'
      BY <2>3, <3>1 DEF AInv, Asking
    <3>6. Found'
      BY <2>1, <2>3, <3>1 DEF AInv, Found, First, SoundAt
    <3> QED  BY <3>2, <3>3, <3>4, <3>5, <3>6 DEF AInv
  <2> QED  BY <1>2, <2>2, <2>3 DEF pingDisk_status
<1>3. CASE pingDisk_wait
  <2>1. /\ pc = "identify" /\ UNCHANGED <<kind, sel, cache>>
        /\ Unit(activeDrive[1]) = activeDrive /\ ~Busy(activeDrive[1])
        /\ kind[activeDrive] # "absent"
    BY <1>3, Shown DEF pingDisk_wait, AInv, Searching
  <2>2. dev[activeDrive].st # "busy"
    BY <2>1 DEF Busy, Zero
  <2>3. CASE Failed(activeDrive[1]) /\ NextDrive /\ UNCHANGED dev
    <3>1. dev[activeDrive].st = "aborted"
      BY <2>1, <2>3 DEF Failed
    <3>2. kind[activeDrive] # "ata"
      BY <1>0, <3>1 DEF AInv, Behaving
    <3> QED  BY <2>1, <2>3, <3>2, NextDriveKeeps DEF hw
  <2>4. CASE /\ ~Failed(activeDrive[1])
             /\ dev' = [dev EXCEPT ![activeDrive].st = "idle"]
             /\ pc' = "ready" /\ op' = Read(0) /\ caller' = "mbr"
             /\ UNCHANGED <<activeDriveIndex, diskBuffer, partitionStart>>
    <3>1. UNCHANGED <<activeDriveIndex, diskBuffer, partitionStart,
                      kind, sel, cache, activeDrive>>
      BY <2>1, <2>4 DEF activeDrive
    <3>2. dev[activeDrive].st # "aborted"
      BY <2>1, <2>4 DEF Failed, Zero
    <3>3. kind[activeDrive] = "ata"
      BY <1>0, <2>1, <2>2, <3>2 DEF AInv, Searching, Kinds
    <3>4. /\ dev' \in [Drives -> State]
          /\ \A e \in Drives : e # activeDrive => dev'[e] = dev[e]
          /\ dev'[activeDrive].st = "idle"
      BY <1>0, <2>4 DEF State
    <3>5. /\ op' \in [kind: {"read", "write"}, sector: Sector]
          /\ op'.kind = "read" /\ op' = Read(0)
      BY <1>0, <2>4 DEF Read
    <3>6. Typed'
      BY <2>4, <3>1, <3>4, <3>5, Registered DEF AInv, Typed, TypeOK
    <3>7. Behaving'
      BY <3>1, <3>4 DEF AInv, Behaving
    <3>8. Searching'
      BY <2>1, <2>4, <3>1, <3>3 DEF AInv, Searching, possibleDrives
    <3>9. Asking'
      BY <2>4, <3>5 DEF Asking, Read
    <3>10. Found'
      BY <2>4, <3>1 DEF AInv, Found
    <3> QED  BY <3>6, <3>7, <3>8, <3>9, <3>10 DEF AInv
  <2> QED  BY <1>3, <2>3, <2>4 DEF pingDisk_wait
<1> QED  BY <1>1, <1>2, <1>3

\* A command, with its registers.
LEMMA CommandKeeps ==
  ASSUME AInv, command PROVE AInv'
<1>0. /\ activeDriveIndex \in 1..3 /\ activeDrive \in Drives
      /\ activeDrive = <<activeDrive[1], activeDrive[2]>>
      /\ activeDrive[1] \in Channels /\ activeDrive[2] \in Units
      /\ activeDriveIndex = 1 => activeDrive = <<"primary", "slave">>
      /\ dev \in [Drives -> State] /\ sel \in [Channels -> Units]
      /\ op.kind \in {"read", "write"} /\ op.sector \in Sector
  BY Types, ActiveDrive
<1>1. /\ pc = "ready" /\ pc' = "data" /\ waitdisk(FALSE)
      /\ UNCHANGED <<activeDriveIndex, op, caller, diskBuffer, partitionStart,
                     kind, cache, activeDrive>>
  BY DEF command, activeDrive
<1>2. /\ sel[activeDrive[1]] = activeDrive[2] /\ kind[activeDrive] = "ata"
      /\ Unit(activeDrive[1]) = activeDrive
  BY <1>1, Shown DEF AInv, Searching
<1>3. /\ sel' = [sel EXCEPT ![activeDrive[1]] = activeDrive[2]]
      /\ dev' = After(activeDrive, op.kind, op.sector)
  <2>1. head_register(op.sector).unit = activeDrive[2]
    BY DEF head_register
  <2>2. lba(lba_registers(op.sector), head_register(op.sector)) = op.sector
    BY <1>0, Registers
  <2> QED  BY <1>0, <2>1, <2>2 DEF command
<1>4. sel' = sel
  BY <1>0, <1>2, <1>3
<1>5. /\ dev' \in [Drives -> State]
      /\ \A e \in Drives : e # activeDrive => dev'[e] = dev[e]
      /\ dev'[activeDrive].st = "busy"
      /\ dev[activeDrive].st # "busy" => dev'[activeDrive].lba = op.sector
  BY <1>0, <1>2, <1>3, Commanded
<1>6. activeDriveIndex = 1 => dev[activeDrive].st # "busy"
  BY <1>0, <1>1, <1>2 DEF waitdisk, DRDY, Busy
<1>7. Typed'
  BY <1>1, <1>4, <1>5, Registered DEF AInv, Typed, TypeOK
<1>8. Behaving'
  BY <1>1, <1>5 DEF AInv, Behaving
<1>9. Searching'
  BY <1>1, <1>4 DEF AInv, Searching, possibleDrives
<1>10. Asking'
  BY <1>1, <1>5, <1>6 DEF AInv, Asking, Read
<1>11. Found'
  <2>1. pc = "ready" /\ pc' = "data" /\ UNCHANGED <<caller, partitionStart, cache, activeDrive>>
    BY <1>1
  <2> QED  BY <2>1 DEF AInv, Found, First, SoundAt
<1> QED  BY <1>7, <1>8, <1>9, <1>10, <1>11 DEF AInv

\* The data of a read.
LEMMA InslKeeps ==
  ASSUME AInv, insl PROVE AInv'
<1>0. /\ activeDriveIndex \in 1..3 /\ activeDrive \in Drives
      /\ dev \in [Drives -> State] /\ cache \in [Drives -> [Sector -> Value]]
      /\ op.sector \in Sector /\ 0 \in Sector /\ caller \in {"mbr", "boot", "serve"}
  BY Types, ActiveDrive, Values
<1>1. /\ pc = "data" /\ waitdisk(TRUE) /\ op.kind = "read" /\ pc' = caller
      /\ UNCHANGED <<activeDriveIndex, op, caller, partitionStart,
                     kind, sel, cache, activeDrive>>
  BY DEF insl, activeDrive
<1>2. /\ activeDriveIndex = 1 /\ kind[activeDrive] = "ata"
      /\ Unit(activeDrive[1]) = activeDrive
      /\ dev[activeDrive].lba = op.sector
  BY <1>1, Transfer
<1>3. /\ diskBuffer' = cache[activeDrive][op.sector]
      /\ dev' = [dev EXCEPT ![activeDrive] = Idle]
  BY <1>2 DEF insl
<1>4. Idle \in State /\ Idle.st = "idle"
  BY <1>0 DEF Idle, State
<1>5. /\ dev' \in [Drives -> State] /\ dev'[activeDrive].st = "idle"
      /\ \A e \in Drives : e # activeDrive => dev'[e] = dev[e]
  BY <1>0, <1>3, <1>4
<1>6. diskBuffer' \in Value
  BY <1>0, <1>3
<1>7. Typed'
  BY <1>0, <1>1, <1>5, <1>6, Registered DEF AInv, Typed, TypeOK
<1>8. Behaving'
  BY <1>1, <1>5 DEF AInv, Behaving
<1>9. Searching'
  BY <1>0, <1>1, <1>2 DEF AInv, Searching, possibleDrives
<1>10. Asking'
  BY <1>0, <1>1, <1>3 DEF AInv, Asking, Read
<1>11. Found'
  <2>1. /\ pc = "data" /\ pc' # "failed"
        /\ UNCHANGED <<caller, partitionStart, cache, activeDrive>>
    BY <1>0, <1>1
  <2> QED  BY <2>1 DEF AInv, Found, First, SoundAt
<1> QED  BY <1>7, <1>8, <1>9, <1>10, <1>11 DEF AInv

\* The data of a write, which goes to the drive found and to neither of the
\* sectors the set-up depends on.
LEMMA OutslKeeps ==
  ASSUME AInv, outsl
  PROVE  /\ AInv'
         /\ activeDriveIndex = 1 /\ kind[activeDrive] = "ata" /\ op.kind = "write"
         /\ cache' = [cache EXCEPT ![activeDrive][op.sector] = diskBuffer]
<1>0. /\ activeDriveIndex \in 1..3 /\ activeDrive \in Drives
      /\ dev \in [Drives -> State] /\ cache \in [Drives -> [Sector -> Value]]
      /\ op.sector \in Sector /\ 0 \in Sector /\ diskBuffer \in Value
      /\ partitionStart \in Sector
  BY Types, ActiveDrive, Values
<1>1. /\ pc = "data" /\ waitdisk(TRUE) /\ op.kind = "write" /\ pc' = "flush"
      /\ UNCHANGED <<activeDriveIndex, op, caller, partitionStart, diskBuffer,
                     kind, sel, activeDrive>>
  BY DEF outsl, activeDrive
<1>2. /\ activeDriveIndex = 1 /\ kind[activeDrive] = "ata"
      /\ Unit(activeDrive[1]) = activeDrive
      /\ dev[activeDrive].lba = op.sector
  BY <1>1, Transfer
<1>3. cache' = [cache EXCEPT ![activeDrive][op.sector] = diskBuffer]
  BY <1>2 DEF outsl
<1>4. PICK st \in {"idle", "busy"} :
        dev' = [dev EXCEPT ![activeDrive] = [st |-> st, cmd |-> "store", lba |-> 0]]
  BY <1>2 DEF outsl
<1>5. /\ dev' \in [Drives -> State] /\ dev'[activeDrive].st \in {"idle", "busy"}
      /\ \A e \in Drives : e # activeDrive => dev'[e] = dev[e]
  <2> DEFINE new == [st |-> st, cmd |-> "store", lba |-> 0]
  <2>1. new \in State /\ new.st = st
    BY <1>0 DEF State
  <2> HIDE DEF new
  <2> QED  BY <1>0, <1>4, <2>1 DEF new
<1>6. /\ cache' \in [Drives -> [Sector -> Value]]
      /\ \A d \in Drives, s \in Sector :
           cache'[d][s] = IF d = activeDrive /\ s = op.sector THEN diskBuffer ELSE cache[d][s]
  BY <1>0, <1>3
<1>7. PICK h \in Hardware : \A d \in Drives : cache[d][0] = h.disk[d][0]
  BY DEF AInv, Found
<1>8. caller = "serve" /\ op.sector # 0 /\ op.sector # partitionStart
  <2>1. caller = "serve" /\ op.sector \in Asked /\ partitionStart = First(activeDrive)
    BY <1>1 DEF AInv, Asking, Found
  <2>2. activeDrive # Boot
    BY <1>2 DEF activeDrive, possibleDrives, Boot
  <2>3. op.sector \notin {0, first_fat32(h.disk[activeDrive][0].parts)}
    BY <1>0, <2>1, <2>2, AskedAssumption
  <2> QED  BY <1>0, <1>7, <2>1, <2>3 DEF First
<1>9. /\ \A d \in Drives : cache'[d][0] = cache[d][0]
      /\ cache'[activeDrive][partitionStart] = cache[activeDrive][partitionStart]
  BY <1>0, <1>6, <1>8
<1>10. Typed'
  BY <1>1, <1>5, <1>6, Registered DEF AInv, Typed, TypeOK
<1>11. Behaving'
  BY <1>1, <1>2, <1>5 DEF AInv, Behaving
<1>12. Searching'
  BY <1>1, <1>2 DEF AInv, Searching, possibleDrives
<1>13. Asking'
  BY <1>1, <1>8 DEF AInv, Asking
<1>14. Found'
  <2>1. \E m \in Hardware : \A d \in Drives : cache'[d][0] = m.disk[d][0]
    BY <1>7, <1>9
  <2>2. /\ partitionStart = First(activeDrive) /\ partitionStart # 0
        /\ SoundAt(activeDrive, partitionStart)
    BY <1>1, <1>8 DEF AInv, Found
  <2>3. /\ partitionStart' = First(activeDrive)' /\ partitionStart' # 0
        /\ SoundAt(activeDrive, partitionStart)'
    BY <1>0, <1>1, <1>9, <2>2 DEF First, SoundAt
  <2> QED  BY <1>1, <2>1, <2>3 DEF Found
<1> QED  BY <1>1, <1>2, <1>3, <1>10, <1>11, <1>12, <1>13, <1>14 DEF AInv

\* The flush.
LEMMA FlushKeeps ==
  ASSUME AInv, flush PROVE AInv'
<1>0. /\ activeDriveIndex \in 1..3 /\ activeDrive \in Drives
      /\ dev \in [Drives -> State] /\ 0 \in Sector
  BY Types, ActiveDrive, Values
<1>1. /\ pc = "flush" /\ pc' = "serve" /\ caller = "serve"
      /\ UNCHANGED <<activeDriveIndex, op, caller, partitionStart, diskBuffer,
                     kind, sel, cache, activeDrive>>
  BY DEF flush, activeDrive, AInv, Asking
<1>2. dev' = After(activeDrive, "flush", 0)
  BY <1>1, Shown DEF flush
<1>3. /\ dev' \in [Drives -> State]
      /\ \A e \in Drives : e # activeDrive => dev'[e] = dev[e]
      /\ dev'[activeDrive].st = "busy" \/ dev'[activeDrive] = dev[activeDrive]
  BY <1>0, <1>2, Commanded
<1>4. Typed'
  BY <1>1, <1>3, Registered DEF AInv, Typed, TypeOK
<1>5. Behaving'
  BY <1>1, <1>3 DEF AInv, Behaving
<1>6. Searching'
  BY <1>1 DEF AInv, Searching, possibleDrives
<1>7. Asking'
  BY <1>1 DEF AInv, Asking
<1>8. Found'
  BY <1>1 DEF AInv, Found, First, SoundAt
<1> QED  BY <1>4, <1>5, <1>6, <1>7, <1>8 DEF AInv

\* The partition table and the boot sector.
LEMMA SetupKeeps ==
  ASSUME AInv, findPartition \/ readBootSector PROVE AInv'
<1>0. /\ activeDriveIndex \in 1..3 /\ activeDrive \in Drives /\ 0 \in Sector
      /\ cache \in [Drives -> [Sector -> Value]] /\ Value \subseteq Contents
      /\ dev \in [Drives -> State] /\ caller \in {"mbr", "boot", "serve"}
  BY Types, ActiveDrive, Values
<1>1. CASE findPartition
  <2>1. /\ pc = "mbr" /\ partitionStart' = first_fat32(diskBuffer.parts)
        /\ UNCHANGED <<activeDriveIndex, diskBuffer, kind, sel, dev, cache, activeDrive>>
    BY <1>1 DEF findPartition, hw, activeDrive
  <2>2. /\ caller = "mbr" /\ diskBuffer = cache[activeDrive][0]
        /\ activeDriveIndex = 1 /\ kind[activeDrive] = "ata" /\ op.kind # "write"
    BY <2>1 DEF AInv, Searching, Asking
  <2>3. /\ partitionStart' = First(activeDrive) /\ partitionStart' = First(activeDrive)'
        /\ partitionStart' \in Sector
    <3>1. cache[activeDrive][0] \in Contents
      BY <1>0
    <3> QED  BY <2>1, <2>2, <3>1, FirstFat DEF First
  <2>4. CASE partitionStart' = 0 /\ pc' = "failed" /\ UNCHANGED <<op, caller>>
    <3>1. Typed'
      BY <2>1, <2>3, <2>4, Registered DEF AInv, Typed, TypeOK
    <3>2. Behaving'
      BY <2>1 DEF AInv, Behaving
    <3>3. Searching'
      BY <2>1, <2>2, <2>4 DEF AInv, Searching, possibleDrives
    <3>4. Asking'
      BY <2>2, <2>4 DEF Asking
    <3>5. Found'
      BY <2>1, <2>2, <2>3, <2>4 DEF AInv, Found
    <3> QED  BY <3>1, <3>2, <3>3, <3>4, <3>5 DEF AInv
  <2>5. CASE /\ partitionStart' # 0
             /\ op' = Read(partitionStart') /\ caller' = "boot" /\ pc' = "ready"
    <3>0. op' \in [kind: {"read", "write"}, sector: Sector] /\ op'.kind = "read"
      BY <2>3, <2>5 DEF Read
    <3>1. Typed'
      BY <2>1, <2>3, <2>5, <3>0, Registered DEF AInv, Typed, TypeOK
    <3>2. Behaving'
      BY <2>1 DEF AInv, Behaving
    <3>3. Searching'
      BY <2>1, <2>2, <2>5 DEF AInv, Searching, possibleDrives
    <3>4. Asking'
      BY <2>5, <3>0 DEF Asking, Read
    <3>5. Found'
      BY <2>1, <2>3, <2>5 DEF AInv, Found
    <3> QED  BY <3>1, <3>2, <3>3, <3>4, <3>5 DEF AInv
  <2> QED  BY <1>1, <2>4, <2>5 DEF findPartition
<1>2. CASE readBootSector
  <2>1. /\ pc = "boot" /\ caller' = "serve"
        /\ pc' = IF diskBuffer.signed /\ diskBuffer.b512 THEN "serve" ELSE "failed"
        /\ UNCHANGED <<activeDriveIndex, op, diskBuffer, partitionStart,
                       kind, sel, dev, cache, activeDrive>>
    BY <1>2 DEF readBootSector, hw, activeDrive
  <2>2. /\ caller = "boot" /\ diskBuffer = cache[activeDrive][partitionStart]
        /\ activeDriveIndex = 1 /\ kind[activeDrive] = "ata" /\ op.kind # "write"
        /\ partitionStart = First(activeDrive) /\ partitionStart # 0
    BY <2>1 DEF AInv, Searching, Asking, Found
  <2>3. Typed'
    BY <2>1, Registered DEF AInv, Typed, TypeOK
  <2>4. Behaving'
    BY <2>1 DEF AInv, Behaving
  <2>5. Searching'
    BY <2>1, <2>2 DEF AInv, Searching, possibleDrives
  <2>6. Asking'
    BY <2>1, <2>2 DEF Asking
  <2>7. Found'
    <3>1. First(activeDrive)' = First(activeDrive)
      BY <2>1 DEF First
    <3>2. pc' # "failed" => SoundAt(activeDrive, partitionStart)'
      BY <2>1, <2>2 DEF SoundAt
    <3>3. pc' = "failed" => ~SoundAt(activeDrive, First(activeDrive))'
      BY <2>1, <2>2, <3>1 DEF SoundAt
    <3> QED  BY <2>1, <2>2, <3>1, <3>2, <3>3 DEF AInv, Found
  <2> QED  BY <2>3, <2>4, <2>5, <2>6, <2>7 DEF AInv
<1> QED  BY <1>1, <1>2

\* The file system asks.
LEMMA RequestKeeps ==
  ASSUME AInv, Request PROVE AInv'
<1>1. /\ pc = "serve" /\ pc' = "ready"
      /\ UNCHANGED <<activeDriveIndex, caller, partitionStart,
                     kind, sel, dev, cache, activeDrive>>
  BY DEF Request, hw, activeDrive
<1>2. PICK s \in Asked : \/ op' = Read(s) /\ UNCHANGED diskBuffer
                         \/ op' = Write(s) /\ diskBuffer' \in Written
  BY DEF Request
<1>3. /\ op' \in [kind: {"read", "write"}, sector: Sector] /\ op'.sector \in Asked
      /\ diskBuffer' \in Value
  <2>1. s \in Sector
    BY AtaAssumption
  <2> QED  BY <1>2, <2>1, Types, Values DEF Read, Write
<1>4. caller = "serve"
  BY <1>1 DEF AInv, Asking
<1>5. Typed'
  BY <1>1, <1>3, Registered DEF AInv, Typed, TypeOK
<1>6. Behaving'
  BY <1>1 DEF AInv, Behaving
<1>7. Searching'
  BY <1>1 DEF AInv, Searching, possibleDrives
<1>8. Asking'
  BY <1>1, <1>3, <1>4 DEF Asking
<1>9. Found'
  BY <1>1 DEF AInv, Found, First, SoundAt
<1> QED  BY <1>5, <1>6, <1>7, <1>8, <1>9 DEF AInv

\* Before the search.
LEMMA AtaStart == Init => AInv
<1> SUFFICES ASSUME Init PROVE AInv
  OBVIOUS
<1>1. /\ pc = "ping" /\ activeDriveIndex = 1 /\ op = Read(0) /\ caller = "mbr"
      /\ diskBuffer = Data("x") /\ partitionStart = 0
      /\ sel = [c \in Channels |-> "master"]
      /\ dev = [d \in Drives |-> Idle]
  BY DEF Init
<1>2. PICK h \in Hardware : kind = h.kind /\ cache = h.disk
  BY DEF Init
<1>3. 0 \in Sector /\ Data("x") \in Value
  BY Values
<1>4. cache \in [Drives -> [Sector -> Value]] /\ kind \in [Drives -> Kinds]
  BY <1>2, AtaAssumption DEF Value
<1>5. \E m \in Hardware : \A d \in Drives : cache[d][0] = m.disk[d][0]
  BY <1>2
<1>6. dev \in [Drives -> State] /\ \A d \in Drives : dev[d].st = "idle"
  <2>1. Idle \in State /\ Idle.st = "idle"
    BY <1>3 DEF Idle, State
  <2> QED  BY <1>1, <2>1
<1>7. kind \in [Drives -> Kinds] /\ sel \in [Channels -> Units]
  BY <1>1, <1>4 DEF Units
<1>8. op \in [kind: {"read", "write"}, sector: Sector] /\ op.kind = "read"
  BY <1>1, <1>3 DEF Read
<1>9. Typed
  BY <1>1, <1>3, <1>4, <1>6, <1>7, <1>8, Registered DEF Typed, TypeOK
<1>10. Behaving
  BY <1>6 DEF Behaving
<1>11. Searching
  BY <1>1 DEF Searching
<1>12. Asking
  BY <1>1, <1>8 DEF Asking
<1>13. Found
  BY <1>1, <1>5 DEF Found
<1> QED  BY <1>9, <1>10, <1>11, <1>12, <1>13 DEF AInv

\* A step of nothing.
LEMMA AtaStutter ==
  ASSUME AInv, UNCHANGED vars PROVE AInv'
<1>1. UNCHANGED <<pc, activeDriveIndex, op, caller, diskBuffer, partitionStart,
                  kind, sel, dev, cache, activeDrive>>
  BY DEF vars, drv, hw, activeDrive
<1>2. Typed'
  BY <1>1 DEF AInv, Typed, TypeOK
<1>3. Behaving' /\ Searching' /\ Asking'
  BY <1>1 DEF AInv, Behaving, Searching, Asking, possibleDrives, Read
<1>4. Found'
  BY <1>1 DEF AInv, Found, First, SoundAt, Attached, possibleDrives
<1> QED  BY <1>2, <1>3, <1>4 DEF AInv

\* The invariant, for every behaviour.
THEOREM AtaInvariance == Spec => []AInv
<1>1. AInv /\ [Next]_vars => AInv'
  BY DeviceKeeps, SearchKeeps, CommandKeeps, InslKeeps, OutslKeeps, FlushKeeps,
     SetupKeeps, RequestKeeps, AtaStutter DEF Next, Driver
<1> QED  BY <1>1, AtaStart, PTL DEF Spec

\* Indices, registers and drive states stay within their types; above all,
\* the search stops at the end of its table and no partition entry sends a
\* drive a sector it has not got.
THEOREM AtaTypeCorrect == Spec => []TypeOK
<1>1. AInv => TypeOK
  BY DEF AInv, Typed
<1> QED  BY <1>1, AtaInvariance, PTL

----------------------------------------------------------------------------
\* The drive found is the first disk of the table.
LEMMA TargetFirst ==
  ASSUME activeDriveIndex = 1, kind[activeDrive] = "ata"
  PROVE  Target = activeDrive /\ Attached # {}
<1>1. 1 \in Attached /\ Attached \subseteq 1..3
  BY DEF Attached, possibleDrives, activeDrive
<1>2. \A i \in Attached : (\A j \in Attached : i <= j) <=> i = 1
  BY <1>1
<1> DEFINE m == CHOOSE i \in Attached : \A j \in Attached : i <= j
<1>3. m = 1
  BY <1>1, <1>2
<1>4. Target = possibleDrives[m]
  BY <1>1 DEF Target
<1> QED  BY <1>1, <1>3, <1>4 DEF activeDrive

\* The drive that is looked for is one of the machine's.
LEMMA TargetDrive == Target \in Drives
<1>1. CASE Attached = {}
  BY <1>1 DEF Target, Boot, Drives, Channels, Units
<1>2. CASE Attached # {}
  <2>1. Attached \in SUBSET Nat /\ Attached \subseteq 1..3
    BY DEF Attached, possibleDrives
  <2> DEFINE m == CHOOSE i \in Attached : \A j \in Attached : i <= j
  <2>2. \E i \in Attached : \A j \in Attached : i <= j
    BY <1>2, <2>1, Least
  <2>3. m \in Attached
    BY <2>2
  <2>4. Target = possibleDrives[m]
    BY <1>2 DEF Target
  <2> HIDE DEF m
  <2>5. m \in 1..3
    BY <2>1, <2>3
  <2> QED  BY <2>4, <2>5 DEF possibleDrives, Drives, Channels, Units
<1> QED  BY <1>1, <1>2

\* What setupDrive ends with, for every machine, with partition tables and
\* boot sectors that differ from drive to drive, the boot disk's among them,
\* and whatever the drives were doing on the way.
THEOREM SetupEnds == Spec => []SetupOutcome
<1>1. ASSUME AInv PROVE SetupOutcome
  <2> DEFINE start == Start(cache[Target][0])
             sound == Attached # {} /\ start # 0 /\ cache[Target][start].signed
                      /\ cache[Target][start].b512
  <2>0. /\ activeDriveIndex \in 1..3 /\ activeDrive \in Drives /\ 0 \in Sector
        /\ cache \in [Drives -> [Sector -> Value]] /\ Value \subseteq Contents
    BY <1>1, Types, ActiveDrive, Values
  <2>1. start = First(Target)
    <3>1. cache[Target][0] \in Contents
      BY <2>0, TargetDrive
    <3> QED  BY <3>1, FirstFat DEF First
  <2> HIDE DEF start
  <2>2. ASSUME pc = "failed" PROVE ~sound
    <3>1. CASE Attached = {}
      BY <3>1
    <3>2. CASE /\ activeDriveIndex = 1 /\ kind[activeDrive] = "ata"
               /\ First(activeDrive) = 0 \/ ~SoundAt(activeDrive, First(activeDrive))
      BY <2>1, <3>2, TargetFirst DEF SoundAt
    <3> QED  BY <1>1, <2>2, <3>1, <3>2 DEF AInv, Found
  <2>3. ASSUME caller = "serve", pc # "failed"
        PROVE  sound /\ activeDrive = Target /\ partitionStart = start
    <3>1. activeDriveIndex = 1 /\ kind[activeDrive] = "ata"
      BY <1>1, <2>3 DEF AInv, Searching
    <3>2. Target = activeDrive /\ Attached # {}
      BY <3>1, TargetFirst
    <3>3. /\ partitionStart = First(activeDrive) /\ partitionStart # 0
          /\ SoundAt(activeDrive, partitionStart)
      BY <1>1, <2>3 DEF AInv, Found
    <3> QED  BY <2>1, <3>2, <3>3 DEF SoundAt
  <2> QED  BY <2>2, <2>3 DEF SetupOutcome, start
<1> QED  BY <1>1, AtaInvariance, PTL

\* Which steps write, and where.
LEMMA WhoWrites ==
  ASSUME AInv, [Next]_vars
  PROVE  /\ Target' = Target
         /\ UNCHANGED cache \/ outsl
<1>1. UNCHANGED kind /\ (UNCHANGED cache \/ outsl)
  BY DEF Next, Driver, vars, hw, pingDisk, pingDisk_status, pingDisk_wait, command, insl,
         outsl, flush, findPartition, readBootSector, Request, Device
<1> QED  BY <1>1 DEF Target, Attached, possibleDrives

\* The boot disk and every drive but the one found are never written,
\* whatever is plugged in.
THEOREM OthersUntouched == Spec => OthersKept
<1>1. ASSUME AInv, [Next]_vars
      PROVE  \A d \in Drives \ {Target} : cache'[d] = cache[d]
  <2>1. CASE UNCHANGED cache
    BY <2>1
  <2>2. CASE outsl
    <3>1. /\ activeDrive = Target
          /\ cache' = [cache EXCEPT ![activeDrive][op.sector] = diskBuffer]
      BY <1>1, <2>2, OutslKeeps, TargetFirst
    <3> QED  BY <1>1, <3>1, Types
  <2> QED  BY <1>1, <2>1, <2>2, WhoWrites
<1> QED  BY <1>1, AtaInvariance, PTL DEF Spec, OthersKept

\* The steps that are the abstract store's.
LEMMA AskStep ==
  ASSUME AInv, pc \notin {"ready", "data"}, pc' = "ready", UNCHANGED cache, Target' = Target,
         op' \in [kind: {"read", "write"}, sector: Sector], diskBuffer' \in Value,
         op'.kind = "write" \/ UNCHANGED diskBuffer
  PROVE  Store!Ask
BY DEF Store!Ask, Store!None, Store!Requests, Value

\* A sector read or written by the driver is one of the abstract store.
LEMMA TransferStep ==
  ASSUME AInv, insl \/ outsl, Target' = Target
  PROVE  Store!Read \/ Store!Write
<1>0. /\ caller \in {"mbr", "boot", "serve"} /\ activeDrive \in Drives
      /\ cache \in [Drives -> [Sector -> Value]] /\ op.sector \in Sector
  BY Types, ActiveDrive
<1>1. CASE insl
  <2>1. /\ pc = "data" /\ op.kind = "read" /\ waitdisk(TRUE) /\ pc' = caller
        /\ UNCHANGED cache
    BY <1>1 DEF insl
  <2>2. /\ activeDriveIndex = 1 /\ kind[activeDrive] = "ata"
        /\ Unit(activeDrive[1]) = activeDrive /\ dev[activeDrive].lba = op.sector
    BY <2>1, Transfer
  <2>3. Target = activeDrive /\ diskBuffer' = cache[Target][op.sector]
    BY <1>1, <2>2, TargetFirst DEF insl
  <2> QED  BY <1>0, <2>1, <2>3 DEF Store!Read, Store!None
<1>2. CASE outsl
  <2>1. /\ pc = "data" /\ op.kind = "write" /\ pc' = "flush" /\ UNCHANGED diskBuffer
    BY <1>2 DEF outsl
  <2>2. /\ Target = activeDrive
        /\ cache' = [cache EXCEPT ![activeDrive][op.sector] = diskBuffer]
    BY <1>2, OutslKeeps, TargetFirst
  <2>3. cache'[Target'] = [cache[Target] EXCEPT ![op.sector] = diskBuffer]
    BY <1>0, <2>2
  <2> QED  BY <2>1, <2>3 DEF Store!Write, Store!None
<1> QED  BY <1>1, <1>2

\* Seen from its callers the driver, with its registers, its waits and the
\* drive at its own pace, is an array of sectors: for every register width
\* and drive size, every machine and every disk.
THEOREM StoreRefined == Spec => SectorStoreRefined
<1>1. ASSUME Init PROVE Store!Init
  <2>1. AInv /\ pc = "ping"
    BY <1>1, AtaStart DEF Init
  <2>2. cache[Target] \in [Sector -> Value] /\ diskBuffer \in Value
    BY <2>1, Types, TargetDrive
  <2> QED  BY <2>1, <2>2 DEF Store!Init, Store!None, Value
<1>2. ASSUME AInv, [Next]_vars PROVE [Store!Next]_(Store!vars)
  <2>0. Target' = Target /\ diskBuffer \in Value /\ 0 \in Sector
    BY <1>2, WhoWrites, Types, Values
  <2>1. CASE insl \/ outsl
    BY <1>2, <2>0, <2>1, TransferStep DEF Store!Next
  <2>2. CASE pingDisk_wait
    <3>1. CASE pc' # "ready"
      <4>1. /\ UNCHANGED <<cache, diskBuffer>> /\ pc = "identify"
            /\ pc' \notin {"ready", "data"}
        BY <2>2, <3>1 DEF pingDisk_wait, NextDrive
      <4> QED  BY <2>0, <4>1 DEF Store!vars
    <3>2. CASE pc' = "ready"
      <4>1. /\ pc = "identify" /\ UNCHANGED <<cache, diskBuffer>> /\ op' = Read(0)
        BY <2>2, <3>2 DEF pingDisk_wait, NextDrive
      <4>2. op' \in [kind: {"read", "write"}, sector: Sector]
        BY <2>0, <4>1 DEF Read
      <4> QED  BY <1>2, <2>0, <3>2, <4>1, <4>2, AskStep DEF Store!Next
    <3> QED  BY <3>1, <3>2
  <2>3. CASE findPartition
    <3>1. CASE pc' # "ready"
      <4>1. /\ UNCHANGED <<cache, diskBuffer>> /\ pc = "mbr"
            /\ pc' \notin {"ready", "data"}
        BY <2>3, <3>1 DEF findPartition, hw
      <4> QED  BY <2>0, <4>1 DEF Store!vars
    <3>2. CASE pc' = "ready"
      <4>1. /\ pc = "mbr" /\ UNCHANGED <<cache, diskBuffer>>
        BY <2>3, <3>2 DEF findPartition, hw
      <4>2. op' \in [kind: {"read", "write"}, sector: Sector]
        <5>1. AInv'
          BY <1>2, <2>3, SetupKeeps
        <5> QED  BY <5>1 DEF AInv, Typed, TypeOK
      <4> QED  BY <1>2, <2>0, <3>2, <4>1, <4>2, AskStep DEF Store!Next
    <3> QED  BY <3>1, <3>2
  <2>4. CASE Request
    <3>1. /\ pc = "serve" /\ pc' = "ready" /\ UNCHANGED cache
          /\ op'.kind = "write" \/ UNCHANGED diskBuffer
      BY <2>4 DEF Request, hw, Write
    <3>2. op' \in [kind: {"read", "write"}, sector: Sector] /\ diskBuffer' \in Value
      <4>1. AInv'
        BY <1>2, <2>4, RequestKeeps
      <4> QED  BY <4>1 DEF AInv, Typed, TypeOK
    <3> QED  BY <1>2, <2>0, <3>1, <3>2, AskStep DEF Store!Next
  <2>5. CASE command
    <3>1. pc = "ready" /\ pc' = "data" /\ UNCHANGED <<op, cache, diskBuffer>>
      BY <2>5 DEF command
    <3> QED  BY <2>0, <3>1 DEF Store!vars
  <2>6. CASE pingDisk \/ pingDisk_status \/ flush \/ readBootSector
    <3>1. /\ UNCHANGED <<cache, diskBuffer>>
          /\ pc \notin {"ready", "data"} /\ pc' \notin {"ready", "data"}
      BY <1>2, <2>6, Types DEF pingDisk, pingDisk_status, NextDrive, flush, readBootSector, hw
    <3> QED  BY <2>0, <3>1 DEF Store!vars
  <2>7. CASE (\E d \in Drives : Device(d)) \/ UNCHANGED vars
    <3>1. UNCHANGED <<pc, op, cache, diskBuffer>>
      BY <2>7 DEF Device, vars, drv, hw
    <3> QED  BY <2>0, <3>1 DEF Store!vars
  <2> QED  BY <1>2, <2>1, <2>2, <2>3, <2>4, <2>5, <2>6, <2>7 DEF Next, Driver
<1> QED  BY <1>1, <1>2, AtaInvariance, PTL DEF Spec, SectorStoreRefined, Store!Spec
=============================================================================
