---------------------------- MODULE HardDiskProofs ----------------------------
(***************************************************************************)
(* That the hard disk reads and writes what it should (ReadsImage and      *)
(* WritesLand of HardDisk.tla), for any images, any number of sectors and  *)
(* bytes in one, and commands of any length that stay in the image, with   *)
(* the firmware, the user's ejects and the resets between any two steps.   *)
(***************************************************************************)
EXTENDS Drives, TLAPS

IdeTypes ==
  /\ counter \in Nat /\ at \in Nat /\ ptr \in 0 .. DiskBytes - 1
  /\ xfer_lba \in Nat /\ sectors \in Nat
  /\ job.first \in Nat /\ job.bytes \in Nat
  /\ DOMAIN card = Places

(* A command moves its bytes one after another, to the end of a sector of  *)
(* its image, which stays mounted; of an identify the buffer is the block. *)
Active == counter # 0 \/ busy
OnCard == job.kind \in {"read", "write"}
JobInv ==
  /\ job.kind \in {"none", "ident", "read", "write"}
  /\ ident <=> job.kind = "ident"
  /\ is_write <=> job.kind = "write"
  /\ job.kind = "none" => counter = 0
  /\ job.kind = "ident" => at + counter = DiskBytes /\ ~busy /\ ~need /\ (counter # 0 => ptr = at)
  /\ OnCard => at + counter = job.first + job.bytes
  /\ OnCard => \E e \in Nat : job.first + job.bytes = e * DiskBytes /\ (Active => e <= sectors)
  /\ OnCard /\ Active => job.image = fil
  /\ datareg = due

(* Words stay together: in a sector and in what is owed. *)
WordInv == ~mode8 => counter % 2 = 0 /\ (counter # 0 /\ ~need => ptr % 2 = 0)

(* A sector is fetched at its beginning, and is in the buffer from then on. *)
ReadInv ==
  job.kind = "read" /\ counter # 0 =>
    IF need THEN at = xfer_lba * DiskBytes
    ELSE /\ ~busy
         /\ at + DiskBytes = xfer_lba * DiskBytes + ptr
         /\ ide_buf = card[<<job.image, xfer_lba - 1>>]

(* What was sent is in the buffer or, of the sectors that were flushed, on *)
(* the card.                                                               *)
OursUpTo(n) == \A o \in 1 .. n : ide_buf[o] = Ours(xfer_lba * DiskBytes + o - 1)
WriteInv ==
  job.kind = "write" =>
    /\ ~need /\ job.value \in Values
    /\ busy => at = xfer_lba * DiskBytes + DiskBytes /\ ptr = 0 /\ OursUpTo(DiskBytes)
    /\ ~busy => at = xfer_lba * DiskBytes + ptr
    /\ ~busy /\ counter # 0 => OursUpTo(ptr)
    /\ ~wprot => \A a \in job.first .. xfer_lba * DiskBytes - 1 : Stored(a) = Ours(a)

(* While a sector is moved, and only then, it is asked for or has the path, *)
(* in the direction of the command; a flush goes on after a soft reset,    *)
(* with its bytes in the buffer.                                           *)
FlushOk ==
  /\ ~wprot
  /\ \E v \in Values : \A o \in 1 .. DiskBytes :
       ide_buf[o] = DiskByte(fil, v, xfer_lba * DiskBytes + o - 1)
PathInv ==
  /\ path # "free" => busy /\ psector = xfer_lba /\ ~ide_rd /\ ~ide_wr
  /\ path = "free" => ~is_wr
  /\ ide_rd \/ ide_wr => busy
  /\ ~(ide_rd /\ ide_wr)
  /\ busy => sectors # 0 /\ xfer_lba < sectors
  /\ busy /\ job.kind = "read" => ~ide_wr /\ ~is_wr /\ need /\ counter # 0
  /\ busy /\ job.kind = "write" => ~ide_rd /\ (path # "free" => is_wr)
  /\ path = "moving" => dsector = <<fil, xfer_lba>>
  /\ task \in {"lock", "lookup"} => path = "shown" /\ rsector = psector
  /\ ide_wr \/ is_wr => FlushOk

(* The image that is mounted is the open file's, and none is while one is  *)
(* opened.                                                                 *)
Opening == osd \in {"openLock", "open", "opened", "insert"}
MountInv ==
  /\ sectors # 0 => fil \in Images /\ sectors = DiskSize[fil]
  /\ Opening => sectors = 0 /\ image \in Images
  /\ osd \in {"opened", "insert"} => fil = image
  /\ osd = "eject" => image \in Images \cup {NoImage}
  /\ sectors = 0 => ~busy /\ (counter # 0 => ident)

CardInv == \A p \in Places : \A o \in 1 .. DiskBytes : InPlace(p, o)

DiskInv ==
  IdeTypes /\ JobInv /\ WordInv /\ ReadInv /\ WriteInv /\ PathInv /\ MountInv /\ CardInv

-----------------------------------------------------------------------------
(* Arithmetic of sectors and bytes. *)
LEMMA Product == ASSUME NEW n \in Nat, NEW d \in Nat PROVE n * d \in Nat
OBVIOUS

LEMMA ProductNext == ASSUME NEW n \in Nat, NEW d \in Nat PROVE (n + 1) * d = n * d + d
OBVIOUS

LEMMA ProductGap ==
  ASSUME NEW m \in Nat, NEW n \in Nat, NEW d \in Nat, m < n
  PROVE  m * d + d <= n * d
<1>1. PICK k \in Nat : n = m + 1 + k
  <2>1. n - m - 1 \in Nat /\ n = m + 1 + (n - m - 1)
    OBVIOUS
  <2> QED BY <2>1
<1>2. n * d = m * d + d + k * d
  BY <1>1
<1> QED BY <1>2, Product

LEMMA ProductLess ==
  ASSUME NEW m \in Nat, NEW n \in Nat, NEW d \in Nat, m * d < n * d
  PROVE  m < n
<1>1. CASE n < m
  BY <1>1, ProductGap, Product
<1>2. CASE n = m
  BY <1>2, Product
<1> QED BY <1>1, <1>2

LEMMA Division ==
  ASSUME NEW q \in Nat, NEW d \in Nat \ {0}, NEW r \in 0 .. d - 1
  PROVE  (q * d + r) \div d = q /\ (q * d + r) % d = r
<1> DEFINE n == q * d + r
           Q == n \div d
           R == n % d
<1>1. n \in Nat
  BY Product
<1>2. Q \in Nat /\ R \in 0 .. d - 1 /\ n = Q * d + R
  BY <1>1
<1> HIDE DEF Q, R
<1>3. Q = q
  <2>1. ~(Q < q)
    BY <1>2, ProductGap, Product
  <2>2. ~(q < Q)
    BY <1>2, ProductGap, Product
  <2> QED BY <1>2, <2>1, <2>2
<1>4. R = r
  BY <1>2, <1>3, Product
<1> QED BY <1>3, <1>4 DEF Q, R

LEMMA EvenProduct ==
  ASSUME NEW n \in Nat, NEW d \in Nat, d % 2 = 0
  PROVE  (n * d) % 2 = 0
<1>1. PICK h \in Nat : d = 2 * h
  BY d \div 2 \in Nat
<1>2. n * d = 2 * (n * h)
  BY <1>1
<1>3. n * h \in Nat
  BY <1>1, Product
<1>4. \A k \in Nat : (2 * k) % 2 = 0
  OBVIOUS
<1> QED BY <1>2, <1>3, <1>4

LEMMA Bytes == DiskBytes \in Nat \ {0} /\ DiskBytes % 2 = 0 /\ DiskBytes >= 2
BY IdeAssumption

(* A word stays in its sector. *)
LEMMA NextPlace ==
  ASSUME NEW p \in 0 .. DiskBytes - 1, NEW w \in {1, 2}, w = 2 => p % 2 = 0
  PROVE  IF p + w = DiskBytes THEN (p + w) % DiskBytes = 0
         ELSE p + w < DiskBytes /\ (p + w) % DiskBytes = p + w
<1>1. p + w <= DiskBytes
  BY Bytes
<1>2. CASE p + w = DiskBytes
  BY <1>2, Bytes
<1>3. CASE p + w < DiskBytes
  BY <1>3, Bytes
<1> QED BY <1>1, <1>2, <1>3, Bytes

(* The count of a command, a count of 0 being CountMax. *)
Sects(n) == IF n = 0 THEN CountMax ELSE n
LEMMA OwedIs ==
  ASSUME NEW n \in 0 .. CountMax - 1
  PROVE  Owed(n) = Sects(n) * DiskBytes /\ Sects(n) \in Nat \ {0}
<1>1. CountMax \in Nat \ {0} /\ DiskBytes \in Nat \ {0}
  BY IdeAssumption
<1>2. Sects(n) \in Nat \ {0} /\ Sects(n) < 2 * CountMax
  BY <1>1 DEF Sects
<1>3. Sects(n) * DiskBytes \in Nat /\ Sects(n) * DiskBytes < CounterValues
  <2>1. Sects(n) * DiskBytes + DiskBytes <= (2 * CountMax) * DiskBytes
    BY <1>1, <1>2, ProductGap
  <2>2. Sects(n) * DiskBytes \in Nat
    BY <1>1, <1>2, Product
  <2>3. CounterValues = (2 * CountMax) * DiskBytes
    BY DEF CounterValues
  <2>4. (2 * CountMax) * DiskBytes \in Nat
    BY <1>1, Product
  <2> QED BY <1>1, <2>1, <2>2, <2>3, <2>4
<1>4. n * DiskBytes + (IF n = 0 THEN CountMax * DiskBytes ELSE 0) = Sects(n) * DiskBytes
  <2>1. CASE n = 0
    BY <1>1, <2>1, Product DEF Sects
  <2>2. CASE n # 0
    BY <1>1, <2>2, Product DEF Sects
  <2> QED BY <2>1, <2>2
<1>5. (Sects(n) * DiskBytes) % CounterValues = Sects(n) * DiskBytes
  <2>1. CounterValues \in Nat \ {0}
    BY <1>1, <1>3, Product DEF CounterValues
  <2>2. \A x \in Nat, m \in Nat \ {0} : x < m => x % m = x
    OBVIOUS
  <2> QED BY <1>3, <2>1, <2>2
<1> QED BY <1>2, <1>4, <1>5 DEF Owed

(* Where a byte of the image is. *)
LEMMA ByteIsAt ==
  ASSUME NEW s \in Nat, NEW o \in 1 .. DiskBytes
  PROVE  (s * DiskBytes + o - 1) \div DiskBytes = s /\ ((s * DiskBytes + o - 1) % DiskBytes) + 1 = o
<1>1. o - 1 \in 0 .. DiskBytes - 1 /\ DiskBytes \in Nat \ {0}
  BY Bytes
<1>2. s * DiskBytes \in Nat
  BY <1>1, Product
<1>3. s * DiskBytes + o - 1 = s * DiskBytes + (o - 1)
  BY <1>1, <1>2
<1>4. /\ (s * DiskBytes + (o - 1)) \div DiskBytes = s
      /\ (s * DiskBytes + (o - 1)) % DiskBytes = o - 1
  BY <1>1, Division
<1>5. o - 1 + 1 = o
  BY <1>1
<1> QED BY <1>3, <1>4, <1>5

LEMMA StoredIn ==
  ASSUME NEW s \in Nat, NEW o \in 1 .. DiskBytes, job.image \in Images, s < DiskSize[job.image]
  PROVE  Stored(s * DiskBytes + o - 1) = card[<<job.image, s>>][o]
BY ByteIsAt DEF Stored, DiskSectorAt

(* An address before a sector is in another one. *)
LEMMA Before ==
  ASSUME NEW a \in Nat, NEW s \in Nat, a < s * DiskBytes
  PROVE  a \div DiskBytes \in Nat /\ a \div DiskBytes < s
<1> DEFINE Q == a \div DiskBytes
           R == a % DiskBytes
<1>1. Q \in Nat /\ R \in Nat /\ a = Q * DiskBytes + R
  BY Bytes
<1> HIDE DEF Q, R
<1>2. Q * DiskBytes < s * DiskBytes
  BY <1>1, Product, Bytes
<1>3. Q < s
  BY <1>1, <1>2, ProductLess, Bytes
<1> QED BY <1>1, <1>3 DEF Q

LEMMA PlaceOf ==
  ASSUME NEW i \in Images, NEW s \in Nat, s < DiskSize[i]
  PROVE  <<i, s>> \in Placed /\ <<i, s>> \in Places /\ <<i, s>> # Outside /\ DiskSectorAt(i, s) = <<i, s>>
<1>1. DiskSize[i] \in Nat /\ s \in 0 .. DiskSize[i] - 1
  BY DiskAssumption, IdeAssumption
<1>2. <<i, s>> \in {<<i, z>> : z \in 0 .. DiskSize[i] - 1}
  BY <1>1
<1>3. <<i, s>> \in Placed
  BY <1>2 DEF Placed
<1> QED BY <1>3, DiskAssumption DEF Places, DiskSectorAt

-----------------------------------------------------------------------------
(* What leaves the drive and the card alone. *)
LEMMA DriveSame ==
  ASSUME DiskInv, UNCHANGED <<ideVars, card>>, fil' = fil \/ sectors = 0
  PROVE  IdeTypes' /\ JobInv' /\ WordInv' /\ ReadInv' /\ WriteInv' /\ CardInv'
<1>1. /\ UNCHANGED <<sectors, wprot, mode8, is_write, ident, counter, ptr, ide_buf, busy, need>>
      /\ UNCHANGED <<xfer_lba, ide_rd, ide_wr, datareg, job, at, due, card>>
  BY DEF ideVars, xferVars, dataVars, modeVars
<1>2. IdeTypes' /\ WordInv' /\ ReadInv' /\ CardInv'
  BY <1>1 DEF DiskInv, IdeTypes, WordInv, ReadInv, CardInv, InPlace
<1>3. WriteInv'
  BY <1>1 DEF DiskInv, WriteInv, OursUpTo, Ours, Stored
<1>4. JobInv'
  <2>1. OnCard /\ Active => fil' = fil
    BY DEF DiskInv, JobInv, MountInv, OnCard, Active
  <2> QED BY <1>1, <2>1 DEF DiskInv, JobInv, OnCard, Active
<1> QED BY <1>2, <1>3, <1>4

(* What leaves the lease, the tasks and the drive alone. *)
LEMMA PathSame ==
  ASSUME DiskInv, UNCHANGED <<ideVars, card, path, psector, is_wr, dsector, task, rsector>>,
         fil' = fil \/ sectors = 0
  PROVE  PathInv'
<1>1. UNCHANGED <<sectors, wprot, ide_buf, busy, need, counter, xfer_lba, ide_rd, ide_wr, job>>
  BY DEF ideVars, xferVars, dataVars, modeVars
<1>2. busy => fil' = fil
  BY DEF DiskInv, MountInv
<1> QED BY <1>1, <1>2 DEF DiskInv, PathInv, FlushOk

LEMMA MountSame ==
  ASSUME DiskInv, UNCHANGED <<sectors, osd, image, fil, ident>>,
         busy' => busy \/ sectors # 0, counter' # 0 => counter # 0 \/ sectors # 0 \/ ident'
  PROVE  MountInv'
BY DEF DiskInv, MountInv, Opening

-----------------------------------------------------------------------------
(* spi_task: the sector that it looks up is the one that is asked for.     *)
LEMMA TaskKeeps ==
  ASSUME DiskInv, DiskTask
  PROVE  DiskInv'
<1> DEFINE places == IF fil = LostImage THEN Anywhere ELSE {DiskSectorAt(fil, rsector)}
<1>1. /\ UNCHANGED <<ideVars, osdVars, card, psector, is_wr>>
      /\ SvcTask(KeepsBus, fil # NoImage, places) \/ TaskTraps
  BY DEF DiskTask, Serves, SvcTask, TaskTraps
<1>2. UNCHANGED <<sectors, ident, busy, counter, osd, image, fil>>
  BY <1>1 DEF ideVars, xferVars, dataVars, modeVars, osdVars
<1>3. IdeTypes' /\ JobInv' /\ WordInv' /\ ReadInv' /\ WriteInv' /\ CardInv' /\ MountInv'
  BY <1>1, <1>2, DriveSame, MountSame
<1>4. PathInv'
  <2>1. CASE TaskStarts(KeepsBus, places)
    <3>1. path = "shown" => places = {<<fil, xfer_lba>>}
      <4>1. SUFFICES ASSUME path = "shown" PROVE places = {<<fil, xfer_lba>>}
        OBVIOUS
      <4>2. rsector = xfer_lba /\ sectors # 0 /\ xfer_lba < sectors
        BY <2>1, <4>1 DEF TaskStarts, DiskInv, PathInv
      <4>3. fil \in Images /\ sectors = DiskSize[fil] /\ xfer_lba \in Nat
        BY <4>2 DEF DiskInv, MountInv, IdeTypes
      <4>4. fil # LostImage
        BY <4>3, OsdAssumption
      <4> QED BY <4>2, <4>3, <4>4, PlaceOf
    <3>2. task' = "poll" /\ UNCHANGED rsector
      BY <2>1 DEF TaskStarts
    <3>3. \/ path' = path /\ dsector' = dsector
          \/ path = "shown" /\ path' = "moving" /\ dsector' = <<fil, xfer_lba>>
      <4>1. CASE path = "shown"
        BY <2>1, <3>1, <4>1 DEF TaskStarts
      <4>2. CASE path # "shown"
        BY <2>1, <4>2 DEF TaskStarts
      <4> QED BY <4>1, <4>2
    <3> QED BY <1>1, <3>2, <3>3
        DEF DiskInv, PathInv, FlushOk, ideVars, xferVars, dataVars, modeVars, osdVars
  <2>2. CASE TaskWakes(KeepsBus) \/ TaskReadsRequest(KeepsBus, fil # NoImage) \/ TaskLocks \/ TaskEnds
    <3>1. UNCHANGED <<path, dsector>>
      BY <2>2 DEF TaskWakes, TaskReadsRequest, TaskLocks, TaskEnds
    <3>2. task' \in {"lock", "lookup"} =>
            \/ path = "shown" /\ rsector' = psector
            \/ task \in {"lock", "lookup"} /\ rsector' = rsector
      BY <2>2 DEF TaskWakes, TaskReadsRequest, TaskLocks, TaskEnds
    <3> QED BY <1>1, <3>1, <3>2
        DEF DiskInv, PathInv, FlushOk, ideVars, xferVars, dataVars, modeVars, osdVars
  <2>3. CASE TaskTraps
    BY <1>1, <2>3 DEF TaskTraps, DiskInv, PathInv, FlushOk, ideVars, xferVars, dataVars, modeVars, osdVars
  <2> QED BY <1>1, <2>1, <2>2, <2>3 DEF SvcTask
<1> QED BY <1>3, <1>4 DEF DiskInv

-----------------------------------------------------------------------------
(* The FPGA. *)
LEMMA AsksKeeps ==
  ASSUME DiskInv, DiskAsks, UNCHANGED osdVars
  PROVE  DiskInv'
<1>1. /\ need /\ ~busy /\ ~is_write /\ counter # 0 /\ busy' = TRUE /\ ide_rd' = ~(path # "free")
      /\ UNCHANGED <<sectors, wprot, need, xfer_lba, ide_wr, dataVars, modeVars>>
      /\ UNCHANGED <<svcVars, card, osd, image, fil>>
  BY DEF DiskAsks, IdeFetches, Acks, osdVars
<1>2. UNCHANGED <<counter, ptr, ide_buf, datareg, at, due, mode8, is_write, ident, job>>
  BY <1>1 DEF dataVars, modeVars
<1>3. job.kind = "read"
  BY <1>1 DEF DiskInv, JobInv
<1>4. at + counter = job.first + job.bytes /\ at = xfer_lba * DiskBytes /\ job.image = fil
  BY <1>1, <1>3 DEF DiskInv, JobInv, ReadInv, OnCard, Active
<1>5. sectors # 0 /\ xfer_lba < sectors
  <2>1. PICK e \in Nat : job.first + job.bytes = e * DiskBytes /\ e <= sectors
    BY <1>1, <1>3 DEF DiskInv, JobInv, OnCard, Active
  <2>2. xfer_lba * DiskBytes < e * DiskBytes /\ xfer_lba \in Nat /\ sectors \in Nat
    BY <1>1, <1>4, <2>1, Bytes, Product DEF DiskInv, IdeTypes
  <2>3. xfer_lba < e
    BY <2>1, <2>2, ProductLess, Bytes
  <2> QED BY <2>1, <2>2, <2>3
<1>6. path = "free" /\ ~is_wr /\ ~ide_wr
  BY <1>1 DEF DiskInv, PathInv
<1>7. IdeTypes' /\ WordInv' /\ ReadInv' /\ WriteInv' /\ CardInv'
  BY <1>1, <1>2, <1>3 DEF DiskInv, IdeTypes, WordInv, ReadInv, WriteInv, CardInv, InPlace
<1>8. JobInv'
  BY <1>1, <1>2, <1>3 DEF DiskInv, JobInv, OnCard, Active
<1>9. PathInv'
  BY <1>1, <1>2, <1>3, <1>5, <1>6 DEF DiskInv, PathInv, svcVars
<1>10. MountInv'
  BY <1>1, <1>2, <1>5, MountSame
<1> QED BY <1>7, <1>8, <1>9, <1>10 DEF DiskInv

LEMMA GrantsKeeps ==
  ASSUME DiskInv, DiskGrants, UNCHANGED osdVars
  PROVE  DiskInv'
<1>1. /\ path = "free" /\ path' = "shown" /\ psector' = xfer_lba /\ is_wr' = ide_wr
      /\ ide_rd' = FALSE /\ ide_wr' = FALSE /\ (ide_rd \/ ide_wr)
      /\ UNCHANGED <<sectors, wprot, busy, need, xfer_lba, dataVars, modeVars, card>>
      /\ UNCHANGED <<task, rsector, dsector, osd, image, fil>>
  BY DEF DiskGrants, SvcGrants, IdeAcked, osdVars
<1>2. UNCHANGED <<counter, ptr, ide_buf, datareg, at, due, mode8, is_write, ident, job>>
  BY <1>1 DEF dataVars, modeVars
<1>3. IdeTypes' /\ JobInv' /\ WordInv' /\ ReadInv' /\ CardInv'
  BY <1>1, <1>2 DEF DiskInv, IdeTypes, JobInv, OnCard, Active, WordInv, ReadInv, CardInv, InPlace
<1>4. WriteInv'
  BY <1>1, <1>2 DEF DiskInv, WriteInv, OursUpTo, Ours, Stored
<1>5. PathInv'
  BY <1>1, <1>2 DEF DiskInv, PathInv, FlushOk
<1>6. MountInv'
  BY <1>1, <1>2, MountSame
<1> QED BY <1>3, <1>4, <1>5, <1>6 DEF DiskInv

(* The end of a transfer: a sector read comes into the buffer, and one that *)
(* is flushed, of which every byte is in its place, onto the card.         *)
LEMMA SectorMoved ==
  ASSUME DiskInv, DiskTransferEnds
  PROVE  /\ busy /\ sectors # 0 /\ xfer_lba < sectors /\ fil \in Images /\ sectors = DiskSize[fil]
         /\ dsector = <<fil, xfer_lba>> /\ dsector \in Places /\ dsector # Outside
         /\ job.kind \in {"none", "read", "write"}
         /\ path = "moving" /\ path' = "free" /\ ~is_wr' /\ ~ide_rd /\ ~ide_wr
         /\ ~busy' /\ xfer_lba' = xfer_lba + 1
         /\ UNCHANGED <<task, rsector, sectors, wprot, ide_rd, ide_wr, counter, datareg, at, due>>
         /\ UNCHANGED <<mode8, is_write, ident, job>>
<1>1. path = "moving" /\ SvcEnds(Outside)
  BY DEF DiskTransferEnds, SvcEnds
<1>2. busy /\ sectors # 0 /\ xfer_lba < sectors /\ dsector = <<fil, xfer_lba>> /\ ~ide_rd /\ ~ide_wr
  BY <1>1 DEF DiskInv, PathInv
<1>3. fil \in Images /\ sectors = DiskSize[fil] /\ xfer_lba \in Nat
  BY <1>2 DEF DiskInv, MountInv, IdeTypes
<1>4. dsector \in Places /\ dsector # Outside
  BY <1>2, <1>3, PlaceOf
<1>5. job.kind \in {"none", "read", "write"}
  BY <1>2 DEF DiskInv, JobInv
<1>6. IdeDone(ide_buf) \/ IdeDone(card[dsector])
  BY DEF DiskTransferEnds
<1>7. /\ busy' = FALSE /\ xfer_lba' = xfer_lba + 1
      /\ UNCHANGED <<sectors, wprot, ide_rd, ide_wr, counter, datareg, at, due>>
      /\ UNCHANGED <<mode8, is_write, ident, job>>
  BY <1>2, <1>6 DEF IdeDone, Advance, modeVars
<1> QED BY <1>1, <1>2, <1>3, <1>4, <1>5, <1>7 DEF SvcEnds

LEMMA SectorMovedKeeps ==
  ASSUME DiskInv, DiskTransferEnds, UNCHANGED osdVars
  PROVE  DiskInv'
<1>1. UNCHANGED <<osd, image, fil>>
  BY DEF osdVars
<1>2. IF is_wr THEN card' = [card EXCEPT ![dsector] = ide_buf] /\ IdeDone(ide_buf)
      ELSE UNCHANGED card /\ IdeDone(card[dsector])
  BY DEF DiskTransferEnds
<1>3. /\ ide_buf' = IF is_write \/ is_wr THEN ide_buf ELSE card[dsector]
      /\ IF is_write THEN UNCHANGED <<ptr, need>> ELSE ptr' = 0 /\ ~need'
  BY <1>2, SectorMoved DEF IdeDone
<1>4. IdeTypes'
  BY <1>2, <1>3, SectorMoved, Bytes DEF DiskInv, IdeTypes
<1>5. JobInv'
  BY <1>1, <1>3, SectorMoved DEF DiskInv, JobInv, OnCard, Active
<1>6. WordInv'
  <2>1. ptr' = 0 \/ (ptr' = ptr /\ (need' <=> need))
    BY <1>3
  <2> QED BY <2>1, SectorMoved DEF DiskInv, WordInv
<1>7. ReadInv'
  <2>1. SUFFICES ASSUME job.kind = "read", counter # 0 PROVE ReadInv'
    BY SectorMoved DEF ReadInv
  <2>2. need /\ at = xfer_lba * DiskBytes /\ ~is_wr /\ ~is_write /\ job.image = fil
    BY <2>1, SectorMoved DEF DiskInv, ReadInv, PathInv, JobInv, OnCard, Active
  <2>3. ide_buf' = card[<<job.image, xfer_lba>>] /\ ptr' = 0 /\ ~need'
    BY <1>3, <2>2, SectorMoved
  <2>4. at + DiskBytes = (xfer_lba + 1) * DiskBytes /\ (xfer_lba + 1) * DiskBytes \in Nat
        /\ xfer_lba \in Nat
    BY <2>2, ProductNext, Product, Bytes DEF DiskInv, IdeTypes
  <2>5. at' + DiskBytes = xfer_lba' * DiskBytes + ptr'
    <3>1. at' = at /\ xfer_lba' = xfer_lba + 1
      BY SectorMoved
    <3>2. at' + DiskBytes = xfer_lba' * DiskBytes /\ xfer_lba' * DiskBytes \in Nat
      BY <2>4, <3>1
    <3> QED BY <2>3, <3>2
  <2>6. ide_buf' = card'[<<job'.image, xfer_lba' - 1>>]
    <3>1. xfer_lba' = xfer_lba + 1 /\ job' = job
      BY SectorMoved
    <3>2. xfer_lba' - 1 = xfer_lba
      BY <2>4, <3>1
    <3>3. card' = card
      BY <1>2, <2>2
    <3> QED BY <2>3, <3>1, <3>2, <3>3
  <2> QED BY <2>3, <2>5, <2>6, SectorMoved DEF ReadInv
<1>8. WriteInv'
  <2>1. SUFFICES ASSUME job.kind = "write" PROVE WriteInv'
    BY SectorMoved DEF WriteInv
  <2>2. is_wr /\ is_write /\ job.image = fil
    BY <2>1, SectorMoved DEF DiskInv, PathInv, JobInv, OnCard, Active
  <2>3. /\ ~need /\ job.value \in Values /\ ptr = 0 /\ OursUpTo(DiskBytes)
        /\ at = xfer_lba * DiskBytes + DiskBytes
        /\ ~wprot => \A a \in job.first .. xfer_lba * DiskBytes - 1 : Stored(a) = Ours(a)
    BY <2>1, SectorMoved DEF DiskInv, WriteInv
  <2>4. /\ xfer_lba \in Nat /\ job.first \in Nat /\ xfer_lba * DiskBytes \in Nat
        /\ DiskBytes \in Nat \ {0} /\ (xfer_lba + 1) * DiskBytes = xfer_lba * DiskBytes + DiskBytes
    BY Product, ProductNext, Bytes DEF DiskInv, IdeTypes
  <2>5. ASSUME ~wprot, NEW a \in job.first .. xfer_lba' * DiskBytes - 1
        PROVE  (Stored(a))' = (Ours(a))'
    <3>1. a \in Nat /\ a < xfer_lba * DiskBytes + DiskBytes /\ a >= job.first
      BY <2>4, SectorMoved
    <3>2. (Ours(a))' = Ours(a)
      BY SectorMoved DEF Ours
    <3>3. (Stored(a))' = card'[DiskSectorAt(job.image, a \div DiskBytes)][(a % DiskBytes) + 1]
      BY SectorMoved DEF Stored
    <3>4. card' = [card EXCEPT ![<<fil, xfer_lba>>] = ide_buf] /\ DOMAIN card = Places
      BY <1>2, <2>2, SectorMoved DEF DiskInv, IdeTypes
    <3>5. CASE a < xfer_lba * DiskBytes
      <4>1. a \div DiskBytes \in Nat /\ a \div DiskBytes < xfer_lba
        BY <2>4, <3>1, <3>5, Before
      <4>2. DiskSectorAt(job.image, a \div DiskBytes) # <<fil, xfer_lba>>
        BY <4>1, <2>4, SectorMoved DEF DiskSectorAt
      <4>3. DiskSectorAt(job.image, a \div DiskBytes) \in Places
        BY <2>2, <4>1, SectorMoved, PlaceOf DEF DiskSectorAt, Places
      <4>4. card'[DiskSectorAt(job.image, a \div DiskBytes)]
              = card[DiskSectorAt(job.image, a \div DiskBytes)]
        BY <3>4, <4>2, <4>3
      <4>5. Stored(a) = Ours(a)
        BY <2>3, <2>4, <2>5, <3>1, <3>5
      <4> QED BY <3>2, <3>3, <4>4, <4>5 DEF Stored
    <3>6. CASE a >= xfer_lba * DiskBytes
      <4>1. PICK o \in 1 .. DiskBytes : a = xfer_lba * DiskBytes + o - 1
        <5>1. a - xfer_lba * DiskBytes + 1 \in 1 .. DiskBytes
              /\ a = xfer_lba * DiskBytes + (a - xfer_lba * DiskBytes + 1) - 1
          BY <2>4, <3>1, <3>6
        <5> QED BY <5>1
      <4>2. a \div DiskBytes = xfer_lba /\ (a % DiskBytes) + 1 = o
        BY <2>4, <4>1, ByteIsAt
      <4>3. DiskSectorAt(job.image, a \div DiskBytes) = <<fil, xfer_lba>>
        BY <2>2, <2>4, <4>2, PlaceOf, SectorMoved
      <4>4. (Stored(a))' = ide_buf[o]
        BY <3>3, <3>4, <4>2, <4>3, SectorMoved
      <4> QED BY <2>3, <3>2, <4>1, <4>4 DEF OursUpTo
    <3> QED BY <2>4, <3>1, <3>5, <3>6
  <2>6. ptr' = 0 /\ ~need' /\ at' = xfer_lba' * DiskBytes + ptr'
    BY <1>3, <2>2, <2>3, <2>4, SectorMoved
  <2>7. (OursUpTo(ptr))'
    BY <2>6 DEF OursUpTo
  <2> QED BY <2>3, <2>5, <2>6, <2>7, SectorMoved DEF WriteInv
<1>9. PathInv'
  BY <1>1, <1>3, SectorMoved DEF DiskInv, PathInv
<1>10. MountInv'
  BY <1>1, SectorMoved, MountSame
<1>11. CardInv'
  <2>1. CASE is_wr
    <3>1. PICK v \in Values : \A o \in 1 .. DiskBytes :
            ide_buf[o] = DiskByte(fil, v, xfer_lba * DiskBytes + o - 1)
      BY <2>1 DEF DiskInv, PathInv, FlushOk
    <3>2. ~wprot
      BY <2>1 DEF DiskInv, PathInv, FlushOk
    <3>3. ASSUME NEW p \in Places, NEW o \in 1 .. DiskBytes PROVE InPlace(p, o)'
      <4>1. CASE p = dsector
        <5>1. card'[p] = ide_buf /\ p[1] = fil /\ p[2] = xfer_lba /\ p # Outside
          BY <1>2, <2>1, <4>1, SectorMoved DEF DiskInv, IdeTypes
        <5>2. card'[p][o] = DiskByte(p[1], v, p[2] * DiskBytes + o - 1)
          BY <3>1, <5>1
        <5> QED BY <3>2, <5>1, <5>2, SectorMoved DEF InPlace
      <4>2. CASE p # dsector
        <5>1. card'[p] = card[p]
          BY <1>2, <2>1, <4>2 DEF DiskInv, IdeTypes
        <5>2. InPlace(p, o)
          BY DEF DiskInv, CardInv
        <5> QED BY <5>1, <5>2, SectorMoved DEF InPlace
      <4> QED BY <4>1, <4>2
    <3> QED BY <3>3 DEF CardInv
  <2>2. CASE ~is_wr
    BY <1>2, <2>2, SectorMoved DEF DiskInv, CardInv, InPlace
  <2> QED BY <2>1, <2>2
<1> QED BY <1>4, <1>5, <1>6, <1>7, <1>8, <1>9, <1>10, <1>11 DEF DiskInv

-----------------------------------------------------------------------------
(* The software.  A command is given when nothing of the last one is on its *)
(* way.                                                                    *)
LEMMA IdlePath ==
  ASSUME DiskInv, Idle, UNCHANGED <<svcVars, ide_rd, ide_wr, busy>>
  PROVE  PathInv' /\ ~busy /\ path = "free"
<1>1. ~busy /\ path = "free" /\ ~ide_rd /\ ~ide_wr /\ ~is_wr
  BY DEF DiskInv, PathInv, Idle
<1>2. task \notin {"lock", "lookup"}
  BY <1>1 DEF DiskInv, PathInv
<1> QED BY <1>1, <1>2 DEF PathInv, svcVars

LEMMA CommandKeeps ==
  ASSUME DiskInv, UNCHANGED <<svcVars, osdVars, card>>, calm,
         NEW lba \in Lbas, NEW count \in 0 .. CountMax - 1, InImage(lba, count),
         Read(fil, lba, count) \/ \E v \in Written : Write(fil, lba, count, v)
  PROVE  DiskInv'
<1>1. lba \in Nat /\ lba * DiskBytes \in Nat /\ Owed(count) = Sects(count) * DiskBytes
      /\ Sects(count) \in Nat \ {0} /\ Sects(count) * DiskBytes \in Nat
  <2>1. lba \in Nat
    BY IdeAssumption DEF Lbas
  <2> QED BY <2>1, OwedIs, Product, Bytes
<1>2. lba + Sects(count) \in Nat /\ lba + Sects(count) <= sectors
      /\ lba * DiskBytes + Sects(count) * DiskBytes = (lba + Sects(count)) * DiskBytes
  BY <1>1, Bytes DEF InImage, Sects
<1>3. (Sects(count) * DiskBytes) % 2 = 0
  BY <1>1, EvenProduct, Bytes
<1>4. /\ Idle /\ present /\ ~ident' /\ xfer_lba' = lba /\ counter' = Owed(count)
      /\ at' = lba * DiskBytes /\ datareg' = <<>> /\ due' = <<>>
      /\ UNCHANGED <<sectors, wprot, mode8, busy, ide_rd, ide_wr, card, fil, osd, image>>
  BY DEF Read, Write, Sent, IdeForgets, osdVars
<1>5. /\ job'.image = fil /\ job'.first = lba * DiskBytes
      /\ job'.bytes = Sects(count) * DiskBytes /\ job'.kind \in {"read", "write"}
  BY DEF Read, Write, Sent, Sects
<1>6. \/ job'.kind = "read" /\ ~is_write' /\ need' /\ UNCHANGED ptr
      \/ job'.kind = "write" /\ is_write' /\ ~need' /\ ptr' = 0 /\ job'.value \in Values
  <2>1. CASE Read(fil, lba, count)
    BY <2>1 DEF Read, Sent
  <2>2. CASE \E v \in Written : Write(fil, lba, count, v)
    BY <2>2 DEF Write, Sent, Written
  <2> QED BY <2>1, <2>2
<1>7. PathInv' /\ ~busy
  BY <1>4, IdlePath
<1>8. IdeTypes'
  BY <1>1, <1>4, <1>5, <1>6, Bytes DEF DiskInv, IdeTypes
<1>9. JobInv'
  <2>1. at' + counter' = job'.first + job'.bytes
    BY <1>1, <1>4, <1>5
  <2>2. \E e \in Nat : job'.first + job'.bytes = e * DiskBytes /\ e <= sectors'
    BY <1>2, <1>4, <1>5
  <2>3. ~busy' /\ job'.image = fil'
    BY <1>4, <1>5, <1>7
  <2> QED BY <1>4, <1>5, <1>6, <2>1, <2>2, <2>3 DEF JobInv, OnCard, Active
<1>10. WordInv'
  BY <1>1, <1>3, <1>4, <1>6 DEF WordInv
<1>11. ReadInv'
  BY <1>4, <1>6 DEF ReadInv
<1>12. WriteInv'
  <2>1. SUFFICES ASSUME job'.kind = "write" PROVE WriteInv'
    BY DEF WriteInv
  <2>2. ~need' /\ job'.value \in Values /\ ptr' = 0 /\ ~busy'
    BY <1>4, <1>6, <1>7, <2>1
  <2>3. at' = xfer_lba' * DiskBytes + ptr'
    BY <1>1, <1>4, <2>2
  <2>4. (OursUpTo(ptr))'
    BY <2>2 DEF OursUpTo
  <2>5. job'.first .. xfer_lba' * DiskBytes - 1 = {}
    BY <1>1, <1>4, <1>5
  <2> QED BY <2>2, <2>3, <2>4, <2>5 DEF WriteInv
<1>13. MountInv'
  BY <1>4, <1>7 DEF DiskInv, MountInv, Opening, present
<1>14. CardInv'
  BY <1>4 DEF DiskInv, CardInv, InPlace
<1> QED BY <1>7, <1>8, <1>9, <1>10, <1>11, <1>12, <1>13, <1>14 DEF DiskInv

LEMMA OthersKeep ==
  ASSUME DiskInv, UNCHANGED <<svcVars, osdVars, card>>, Identify \/ SetFeatures \/ SoftReset
  PROVE  DiskInv'
<1>1. UNCHANGED <<sectors, wprot, xfer_lba, ide_rd, ide_wr, busy, card, fil, osd, image>>
  BY DEF Identify, SetFeatures, SoftReset, Clears, osdVars, xferVars
<1>2. CASE Identify
  <2>1. /\ Idle /\ ident' /\ ~is_write' /\ ptr' = 0 /\ counter' = DiskBytes /\ ~need' /\ at' = 0
        /\ job' = [NoJob EXCEPT !.kind = "ident"] /\ datareg' = <<>> /\ due' = <<>>
    BY <1>2 DEF Identify, IdeForgets
  <2>2. PathInv' /\ ~busy
    BY <1>1, <2>1, IdlePath
  <2>3. job'.kind = "ident" /\ job'.first = 0 /\ job'.bytes = 0
    BY <2>1 DEF NoJob
  <2>4. IdeTypes'
    BY <1>1, <2>1, <2>3, Bytes DEF DiskInv, IdeTypes
  <2>8. JobInv'
    <3>1. at' + counter' = DiskBytes /\ ~busy' /\ ptr' = at'
      BY <1>1, <2>1, <2>2, Bytes
    <3> QED BY <2>1, <2>3, <3>1 DEF JobInv, OnCard
  <2>5. WordInv'
    BY <2>1, Bytes DEF WordInv
  <2>6. ReadInv' /\ WriteInv'
    BY <2>3 DEF ReadInv, WriteInv
  <2>7. MountInv' /\ CardInv'
    BY <1>1, <2>1, <2>2 DEF DiskInv, MountInv, Opening, CardInv, InPlace
  <2> QED BY <2>2, <2>4, <2>5, <2>6, <2>7, <2>8 DEF DiskInv
<1>3. CASE SetFeatures
  <2>1. /\ Idle /\ present
        /\ UNCHANGED <<is_write, ident, job, need, counter, ptr, ide_buf, datareg, at, due>>
    BY <1>3 DEF SetFeatures, xferVars, dataVars
  <2>2. PathInv' /\ ~busy
    BY <1>1, <2>1, IdlePath
  <2>3. IdeTypes' /\ JobInv'
    BY <1>1, <2>1, <2>2 DEF DiskInv, IdeTypes, JobInv, OnCard, Active
  <2>4. WordInv'
    BY <2>1 DEF WordInv, Idle
  <2>5. ReadInv' /\ CardInv'
    BY <1>1, <2>1 DEF DiskInv, ReadInv, CardInv, InPlace
  <2>6. WriteInv'
    BY <1>1, <2>1 DEF DiskInv, WriteInv, OursUpTo, Ours, Stored
  <2>7. MountInv'
    BY <1>1, <2>1, <2>2, MountSame
  <2> QED BY <2>2, <2>3, <2>4, <2>5, <2>6, <2>7 DEF DiskInv
<1>4. CASE SoftReset
  <2>1. /\ counter' = 0 /\ ~is_write' /\ ~ident' /\ ~need' /\ job' = NoJob /\ at' = 0 /\ ptr' = 0
        /\ datareg' = <<>> /\ due' = <<>> /\ UNCHANGED ide_buf
    BY <1>4 DEF SoftReset, Clears
  <2>2. job'.kind = "none" /\ job'.first = 0 /\ job'.bytes = 0
    BY <2>1 DEF NoJob
  <2>3. IdeTypes' /\ JobInv'
    BY <1>1, <2>1, <2>2, Bytes DEF DiskInv, IdeTypes, JobInv, OnCard
  <2>4. WordInv' /\ ReadInv' /\ WriteInv' /\ CardInv'
    BY <1>1, <2>1, <2>2 DEF DiskInv, WordInv, ReadInv, WriteInv, CardInv, InPlace
  <2>5. PathInv'
    BY <1>1, <2>1, <2>2 DEF DiskInv, PathInv, FlushOk, svcVars
  <2>6. MountInv'
    BY <1>1, <2>1 DEF DiskInv, MountInv, Opening
  <2> QED BY <2>3, <2>4, <2>5, <2>6 DEF DiskInv
<1> QED BY <1>2, <1>3, <1>4

(* A word: it is in the sector, and it is owed. *)
LEMMA OneWord ==
  ASSUME DiskInv, DRQ, Moves
  PROVE  /\ Width \in {1, 2} /\ Width <= counter /\ counter # 0 /\ ~busy /\ ~need
         /\ counter' = counter - Width /\ counter' \in Nat /\ at' = at + Width /\ at' \in Nat
         /\ ptr \in Nat /\ ptr' = next_ptr /\ next_ptr \in 0 .. DiskBytes - 1
         /\ IF ptr + Width = DiskBytes THEN next_ptr = 0
            ELSE ptr + Width < DiskBytes /\ next_ptr = ptr + Width
         /\ at' + counter' = at + counter
         /\ ~mode8 => counter' % 2 = 0 /\ next_ptr % 2 = 0
<1>1. /\ counter \in Nat \ {0} /\ at \in Nat /\ ptr \in 0 .. DiskBytes - 1 /\ ~busy /\ ~need
      /\ counter' = counter - Width /\ at' = at + Width /\ ptr' = next_ptr
      /\ ~mode8 => counter % 2 = 0 /\ ptr % 2 = 0
  BY DEF DiskInv, IdeTypes, WordInv, DRQ, Moves
<1>2. Width \in {1, 2} /\ (Width = 2 <=> ~mode8)
  BY DEF Width
<1>3. Width <= counter
  BY <1>1, <1>2
<1>4. IF ptr + Width = DiskBytes THEN next_ptr = 0
      ELSE ptr + Width < DiskBytes /\ next_ptr = ptr + Width
  BY <1>1, <1>2, NextPlace DEF next_ptr
<1>5. ~mode8 => (counter - Width) % 2 = 0 /\ next_ptr % 2 = 0
  <2>1. SUFFICES ASSUME ~mode8 PROVE (counter - Width) % 2 = 0 /\ next_ptr % 2 = 0
    OBVIOUS
  <2>2. Width = 2 /\ counter % 2 = 0 /\ ptr % 2 = 0
    BY <1>1, <1>2, <2>1
  <2>3. (counter - 2) % 2 = 0 /\ (ptr + 2) % 2 = 0
    BY <1>1, <2>2
  <2> QED BY <1>4, <2>2, <2>3
<1> QED BY <1>1, <1>2, <1>3, <1>4, <1>5, Bytes

(* The words of a read are those of the image, through the end of a sector. *)
LEMMA ReadsKeep ==
  ASSUME DiskInv, UNCHANGED <<svcVars, osdVars, card>>, DataRead(Expected)
  PROVE  DiskInv'
<1>1. /\ DRQ /\ ~is_write /\ Moves /\ datareg' = cur_w /\ due' = Expected /\ need' = NextOwed
      /\ UNCHANGED <<sectors, wprot, ide_buf, busy, xfer_lba, ide_rd, ide_wr>>
      /\ UNCHANGED <<mode8, is_write, ident, job>> /\ UNCHANGED <<card, osd, image, fil>>
  BY DEF DataRead, modeVars, osdVars
<1>2. \/ job.kind = "ident" /\ ident
      \/ job.kind = "read" /\ ~ident
  <2>1. counter # 0
    BY <1>1 DEF DRQ
  <2> QED BY <1>1, <2>1 DEF DiskInv, JobInv
<1>3. IdeTypes' /\ WordInv'
  BY <1>1, OneWord DEF DiskInv, IdeTypes, WordInv
<1>4. cur_w = Expected
  <2>1. CASE ident
    <3>1. at + counter = DiskBytes /\ ptr = at
      BY <1>2, <2>1, <1>1, OneWord DEF DiskInv, JobInv
    <3> QED BY <2>1, <3>1 DEF cur_w, Expected
  <2>2. CASE ~ident
    <3>1. /\ at + DiskBytes = xfer_lba * DiskBytes + ptr /\ ide_buf = card[<<job.image, xfer_lba - 1>>]
          /\ job.image = fil /\ at + counter = job.first + job.bytes
      BY <1>1, <1>2, <2>2, OneWord DEF DiskInv, ReadInv, JobInv, OnCard, Active
    <3>2. PICK e \in Nat : job.first + job.bytes = e * DiskBytes /\ e <= sectors
      BY <1>1, <1>2, <2>2, OneWord DEF DiskInv, JobInv, OnCard, Active
    <3>3. xfer_lba \in Nat /\ sectors \in Nat /\ at \in Nat /\ counter \in Nat \ {0}
      BY <1>1 DEF DiskInv, IdeTypes, DRQ
    <3>4. PICK s \in Nat : xfer_lba = s + 1
      <4>1. xfer_lba # 0
        <5>1. SUFFICES ASSUME xfer_lba = 0 PROVE FALSE
          OBVIOUS
        <5>2. xfer_lba * DiskBytes = 0
          BY <5>1, Bytes
        <5> QED BY <1>1, <3>1, <3>3, <5>2, OneWord, Bytes DEF DiskInv, IdeTypes
      <4>2. xfer_lba - 1 \in Nat /\ xfer_lba = (xfer_lba - 1) + 1
        BY <3>3, <4>1
      <4> QED BY <4>2
    <3>5. s * DiskBytes \in Nat /\ xfer_lba * DiskBytes = s * DiskBytes + DiskBytes
      BY <3>4, Product, ProductNext, Bytes
    <3>6. at = s * DiskBytes + ptr /\ xfer_lba - 1 = s
      BY <3>1, <3>3, <3>4, <3>5, OneWord, <1>1, Bytes
    <3>7. s < e
      <4>1. s * DiskBytes < e * DiskBytes /\ e * DiskBytes \in Nat
        BY <1>1, <3>1, <3>2, <3>3, <3>5, <3>6, OneWord, Product, Bytes
      <4> QED BY <4>1, ProductLess, Bytes
    <3>8. job.image \in Images /\ s < DiskSize[job.image]
      <4>1. sectors # 0
        BY <3>2, <3>3, <3>7
      <4> QED BY <3>1, <3>2, <3>3, <3>7, <4>1 DEF DiskInv, MountInv
    <3>9. ASSUME NEW j \in 1 .. Width PROVE ide_buf[ptr + j] = Stored(at + j - 1)
      <4>1. ptr + j \in 1 .. DiskBytes /\ at + j - 1 = s * DiskBytes + (ptr + j) - 1
        <5>1. Width \in Nat /\ ptr \in Nat /\ ptr + Width <= DiskBytes /\ DiskBytes \in Nat
          BY <1>1, OneWord, Bytes
        <5>2. j \in Nat /\ 1 <= j /\ j <= Width
          BY <5>1
        <5> QED BY <3>5, <3>6, <5>1, <5>2
      <4> QED BY <3>1, <3>6, <3>8, <4>1, StoredIn
    <3> QED BY <2>2, <3>9 DEF cur_w, Expected
  <2> QED BY <2>1, <2>2
<1>5. JobInv'
  <2>1. CASE ident
    <3>1. at + counter = DiskBytes /\ ptr = at
      BY <1>2, <2>1, <1>1, OneWord DEF DiskInv, JobInv
    <3>2. counter' # 0 => ptr' = at'
      BY <1>1, <3>1, OneWord, Bytes
    <3>3. ~need'
      BY <1>1, <2>1 DEF NextOwed
    <3> QED BY <1>1, <1>2, <1>4, <2>1, <3>1, <3>2, <3>3, OneWord DEF DiskInv, JobInv, OnCard
  <2>2. CASE ~ident
    BY <1>1, <1>2, <1>4, <2>2, OneWord DEF DiskInv, JobInv, OnCard, Active
  <2> QED BY <2>1, <2>2
<1>6. ReadInv'
  <2>1. SUFFICES ASSUME job.kind = "read", counter' # 0 PROVE ReadInv'
    BY <1>1 DEF ReadInv
  <2>2. at + DiskBytes = xfer_lba * DiskBytes + ptr /\ ide_buf = card[<<job.image, xfer_lba - 1>>]
    BY <1>1, <2>1, OneWord DEF DiskInv, ReadInv
  <2>3. xfer_lba * DiskBytes \in Nat /\ at \in Nat /\ (need' <=> next_ptr = 0)
    BY <1>1, <1>2, <2>1, Product, Bytes DEF DiskInv, IdeTypes, NextOwed
  <2>4. CASE next_ptr = 0
    <3>1. ptr + Width = DiskBytes
      BY <1>1, <2>4, OneWord
    <3>2. at' = xfer_lba * DiskBytes
      BY <1>1, <2>2, <2>3, <3>1, OneWord, Bytes
    <3> QED BY <1>1, <2>3, <2>4, <3>2 DEF ReadInv
  <2>5. CASE next_ptr # 0
    <3>1. ptr' = ptr + Width
      BY <1>1, <2>5, OneWord
    <3>2. at' + DiskBytes = xfer_lba * DiskBytes + ptr'
      BY <1>1, <2>2, <2>3, <3>1, OneWord, Bytes
    <3> QED BY <1>1, <2>2, <2>3, <2>5, <3>2, OneWord DEF ReadInv
  <2> QED BY <2>4, <2>5
<1>7. WriteInv'
  BY <1>1, <1>2 DEF WriteInv
<1>8. PathInv'
  BY <1>1, OneWord DEF DiskInv, PathInv, FlushOk, svcVars
<1>9. MountInv' /\ CardInv'
  BY <1>1, MountSame, OneWord DEF DiskInv, CardInv, InPlace
<1> QED BY <1>3, <1>5, <1>6, <1>7, <1>8, <1>9 DEF DiskInv

(* The words of a write fill the buffer; the last of a sector has it       *)
(* flushed, or of a protected disk dropped.                                *)
LEMMA WritesKeep ==
  ASSUME DiskInv, UNCHANGED <<svcVars, osdVars, card>>,
         DataWrite(Acks, [j \in 1 .. Width |-> Ours(at + j - 1)])
  PROVE  DiskInv'
<1>1. /\ DRQ /\ is_write /\ Moves
      /\ ide_buf' = [o \in 1 .. DiskBytes |->
                       IF o \in ptr + 1 .. ptr + Width
                         THEN [j \in 1 .. Width |-> Ours(at + j - 1)][o - ptr] ELSE ide_buf[o]]
      /\ UNCHANGED <<sectors, wprot, datareg, due, need, ide_rd, mode8, is_write, ident, job>>
      /\ UNCHANGED <<card, osd, image, fil>>
  BY DEF DataWrite, modeVars, osdVars
<1>2. \/ next_ptr # 0 /\ UNCHANGED <<busy, ide_wr, xfer_lba>>
      \/ next_ptr = 0 /\ wprot /\ xfer_lba' = xfer_lba + 1 /\ UNCHANGED <<busy, ide_wr>>
      \/ next_ptr = 0 /\ ~wprot /\ busy' /\ ide_wr' = ~Acks /\ UNCHANGED xfer_lba
  BY DEF DataWrite, Advance
<1>3. job.kind = "write" /\ ~busy /\ ~need /\ counter # 0 /\ path = "free" /\ ~ide_rd /\ ~ide_wr /\ ~is_wr
  BY <1>1, OneWord DEF DiskInv, JobInv, PathInv
<1>4. /\ at + counter = job.first + job.bytes /\ job.image = fil /\ at = xfer_lba * DiskBytes + ptr
      /\ OursUpTo(ptr) /\ job.value \in Values
      /\ ~wprot => \A a \in job.first .. xfer_lba * DiskBytes - 1 : Stored(a) = Ours(a)
  BY <1>1, <1>3 DEF DiskInv, JobInv, OnCard, Active, WriteInv
<1>5. /\ xfer_lba \in Nat /\ ptr \in Nat /\ at \in Nat /\ counter \in Nat
      /\ xfer_lba * DiskBytes \in Nat /\ DiskBytes \in Nat /\ sectors \in Nat
      /\ Width \in Nat /\ ptr + Width <= DiskBytes
      /\ (xfer_lba + 1) * DiskBytes = xfer_lba * DiskBytes + DiskBytes
  <2>1. xfer_lba \in Nat /\ at \in Nat /\ counter \in Nat /\ sectors \in Nat /\ DiskBytes \in Nat
    BY Bytes DEF DiskInv, IdeTypes
  <2>2. Width \in Nat /\ ptr \in Nat /\ ptr + Width <= DiskBytes
    BY <1>1, <2>1, OneWord
  <2>3. xfer_lba * DiskBytes \in Nat /\ (xfer_lba + 1) * DiskBytes = xfer_lba * DiskBytes + DiskBytes
    BY <2>1, Product, ProductNext
  <2> QED BY <2>1, <2>2, <2>3
<1>6. ASSUME NEW o \in 1 .. ptr + Width
      PROVE  ide_buf'[o] = Ours(xfer_lba * DiskBytes + o - 1)
  <2>1. o \in 1 .. DiskBytes
    BY <1>5
  <2>2. CASE o \in ptr + 1 .. ptr + Width
    <3>1. o - ptr \in 1 .. Width /\ at + (o - ptr) - 1 = xfer_lba * DiskBytes + o - 1
      BY <1>4, <1>5, <2>2
    <3> QED BY <1>1, <2>1, <2>2, <3>1
  <2>3. CASE o \in 1 .. ptr
    <3>1. o \notin ptr + 1 .. ptr + Width
      BY <1>5, <2>3
    <3> QED BY <1>1, <1>4, <2>1, <2>3, <3>1 DEF OursUpTo
  <2> QED BY <1>5, <2>2, <2>3
<1>7. IdeTypes'
  BY <1>1, <1>2, <1>5, OneWord DEF DiskInv, IdeTypes
<1>8. JobInv'
  BY <1>1, <1>3, <1>4, <1>5, OneWord DEF DiskInv, JobInv, OnCard, Active
<1>9. WordInv'
  BY <1>1, OneWord DEF WordInv
<1>10. ReadInv'
  BY <1>1, <1>3 DEF ReadInv
<1>11. next_ptr = 0 => ptr + Width = DiskBytes /\ xfer_lba < sectors /\ sectors # 0
  <2>1. SUFFICES ASSUME next_ptr = 0 PROVE ptr + Width = DiskBytes /\ xfer_lba < sectors /\ sectors # 0
    OBVIOUS
  <2>2. ptr + Width = DiskBytes
    BY <1>1, <1>5, <2>1, OneWord
  <2>3. PICK e \in Nat : job.first + job.bytes = e * DiskBytes /\ e <= sectors
    BY <1>1, <1>3 DEF DiskInv, JobInv, OnCard, Active
  <2>4. xfer_lba * DiskBytes < e * DiskBytes
    <3>1. Width <= counter /\ DiskBytes > 0
      BY <1>1, OneWord, Bytes
    <3>2. xfer_lba * DiskBytes + ptr + counter = e * DiskBytes
      BY <1>4, <2>3
    <3>3. e * DiskBytes \in Nat
      BY <1>5, <2>3, Product
    <3> QED BY <1>5, <2>2, <3>1, <3>2, <3>3
  <2>5. xfer_lba < e
    BY <1>5, <2>3, <2>4, ProductLess
  <2> QED BY <1>5, <2>2, <2>3, <2>5
<1>12. WriteInv'
  <2>1. \A a : (Ours(a))' = Ours(a) /\ (Stored(a))' = Stored(a)
    BY <1>1 DEF Ours, Stored
  <2>2. CASE next_ptr # 0
    <3>1. ptr' = ptr + Width /\ xfer_lba' = xfer_lba /\ ~busy'
      BY <1>1, <1>2, <1>3, <2>2, OneWord
    <3>2. at' = xfer_lba' * DiskBytes + ptr'
      BY <1>1, <1>4, <1>5, <3>1, OneWord
    <3>3. (OursUpTo(ptr))'
      BY <1>6, <2>1, <3>1 DEF OursUpTo
    <3> QED BY <1>1, <1>3, <1>4, <2>1, <3>1, <3>2, <3>3 DEF WriteInv
  <2>3. CASE next_ptr = 0 /\ wprot
    <3>1. ptr' = 0 /\ xfer_lba' = xfer_lba + 1 /\ ~busy'
      BY <1>1, <1>2, <1>3, <2>3, OneWord
    <3>2. at' = xfer_lba' * DiskBytes + ptr'
      <4>1. at' = xfer_lba * DiskBytes + DiskBytes
        BY <1>1, <1>4, <1>5, <1>11, <2>3, OneWord
      <4> QED BY <1>5, <3>1, <4>1
    <3>3. (OursUpTo(ptr))'
      BY <3>1 DEF OursUpTo
    <3> QED BY <1>1, <1>3, <1>4, <2>3, <3>1, <3>2, <3>3 DEF WriteInv
  <2>4. CASE next_ptr = 0 /\ ~wprot
    <3>1. ptr' = 0 /\ xfer_lba' = xfer_lba /\ busy'
      BY <1>1, <1>2, <2>4, OneWord
    <3>2. at' = xfer_lba' * DiskBytes + DiskBytes
      BY <1>1, <1>4, <1>5, <1>11, <2>4, <3>1, OneWord
    <3>3. (OursUpTo(DiskBytes))'
      BY <1>6, <1>11, <2>1, <2>4, <3>1 DEF OursUpTo
    <3> QED BY <1>1, <1>3, <1>4, <2>1, <3>1, <3>2, <3>3 DEF WriteInv
  <2> QED BY <2>2, <2>3, <2>4
<1>13. PathInv'
  <2>1. UNCHANGED <<path, psector, is_wr, task, rsector, dsector>>
    BY DEF svcVars
  <2>2. task \notin {"lock", "lookup"}
    BY <1>3 DEF DiskInv, PathInv
  <2>3. CASE next_ptr # 0 \/ wprot
    <3>1. ~busy' /\ ~ide_wr'
      BY <1>2, <1>3, <2>3
    <3> QED BY <1>1, <1>3, <2>1, <2>2, <3>1 DEF PathInv
  <2>4. CASE next_ptr = 0 /\ ~wprot
    <3>1. xfer_lba' = xfer_lba /\ busy'
      BY <1>2, <2>4
    <3>2. FlushOk'
      <4>1. \A o \in 1 .. DiskBytes :
              ide_buf'[o] = DiskByte(fil', job.value, xfer_lba' * DiskBytes + o - 1)
        BY <1>1, <1>4, <1>6, <1>11, <2>4, <3>1 DEF Ours
      <4> QED BY <1>1, <1>4, <2>4, <4>1 DEF FlushOk
    <3> QED BY <1>1, <1>3, <1>11, <2>1, <2>2, <2>4, <3>1, <3>2 DEF PathInv
  <2> QED BY <2>3, <2>4
<1>14. MountInv' /\ CardInv'
  <2>1. sectors # 0
    BY <1>1, <1>3 DEF DiskInv, MountInv, JobInv
  <2> QED BY <1>1, <2>1, MountSame DEF DiskInv, CardInv, InPlace
<1> QED BY <1>7, <1>8, <1>9, <1>10, <1>12, <1>13, <1>14 DEF DiskInv

LEMMA SoftwareKeeps ==
  ASSUME DiskInv, calm, Software
  PROVE  DiskInv'
<1>1. UNCHANGED <<svcVars, osdVars, card, calm>>
  BY DEF Software
<1>2. CASE \E lba \in Lbas, count \in 0 .. CountMax - 1 :
             /\ InImage(lba, count)
             /\ Read(fil, lba, count) \/ \E v \in Written : Write(fil, lba, count, v)
  BY <1>1, <1>2, CommandKeeps
<1>3. CASE Identify \/ SetFeatures \/ SoftReset
  BY <1>1, <1>3, OthersKeep
<1>4. CASE DataRead(Expected)
  BY <1>1, <1>4, ReadsKeep
<1>5. CASE DataWrite(Acks, [j \in 1 .. Width |-> Ours(at + j - 1)])
  BY <1>1, <1>5, WritesKeep
<1> QED BY <1>2, <1>3, <1>4, <1>5 DEF Software

-----------------------------------------------------------------------------
(* The OSD's task, which waits for the disk before it takes the image or   *)
(* resets the machine, and the user.                                       *)

(* The image goes, and comes, when no sector is on its way and nothing is  *)
(* owed of it.                                                             *)
LEMMA MountKeeps ==
  ASSUME DiskInv, ~busy, counter # 0 => ident, NEW s \in Nat, IdeMount(s),
         UNCHANGED <<path, psector, is_wr, card, fil, task, rsector, dsector>>
  PROVE  IdeTypes' /\ JobInv' /\ WordInv' /\ ReadInv' /\ WriteInv' /\ PathInv' /\ CardInv'
<1>1. /\ sectors' = s
      /\ UNCHANGED <<wprot, mode8, is_write, ident, counter, ptr, ide_buf, busy, need>>
      /\ UNCHANGED <<xfer_lba, ide_rd, ide_wr, datareg, job, at, due>>
  BY DEF IdeMount, xferVars, dataVars, modeVars
<1>2. IdeTypes' /\ WordInv' /\ ReadInv' /\ CardInv'
  BY <1>1 DEF DiskInv, IdeTypes, WordInv, ReadInv, CardInv, InPlace
<1>3. JobInv'
  BY <1>1 DEF DiskInv, JobInv, OnCard, Active
<1>4. WriteInv'
  BY <1>1 DEF DiskInv, WriteInv, OursUpTo, Ours, Stored
<1>5. PathInv'
  BY <1>1 DEF DiskInv, PathInv
<1> QED BY <1>2, <1>3, <1>4, <1>5

(* What leaves the drive, its lease and the card alone. *)
LEMMA OsdKeeps ==
  ASSUME DiskInv, UNCHANGED <<ideVars, card, path, psector, is_wr, task, rsector, dsector>>,
         fil' = fil \/ sectors = 0, MountInv'
  PROVE  DiskInv'
<1>1. IdeTypes' /\ JobInv' /\ WordInv' /\ ReadInv' /\ WriteInv' /\ CardInv'
  BY DriveSame
<1>2. PathInv'
  BY PathSame
<1> QED BY <1>1, <1>2 DEF DiskInv

LEMMA WorksKeeps ==
  ASSUME DiskInv, calm, DiskWorks
  PROVE  DiskInv'
<1>1. CASE Idle /\ Ejects /\ IdeMount(0) /\ UNCHANGED card
  <2>1. /\ osd = "eject" /\ osd' \in {"menu", "openLock"} /\ (osd' = "openLock" => image # NoImage)
        /\ UNCHANGED <<path, psector, is_wr, fil, image, task, rsector, dsector>>
    BY <1>1 DEF Ejects, From, To, SamePath, SameImage
  <2>2. IdeTypes' /\ JobInv' /\ WordInv' /\ ReadInv' /\ WriteInv' /\ PathInv' /\ CardInv'
    BY <1>1, <2>1, MountKeeps DEF Idle
  <2>3. MountInv'
    <3>1. sectors' = 0 /\ counter' = 0 /\ ~busy'
      BY <1>1 DEF Idle, IdeMount, dataVars, xferVars
    <3> QED BY <2>1, <3>1 DEF DiskInv, MountInv, Opening
  <2> QED BY <2>2, <2>3 DEF DiskInv
<1>2. CASE OpenReads /\ SamePath /\ UNCHANGED <<ideVars, card>>
  <2>1. /\ osd = "open" /\ osd' = "opened" /\ fil' = image /\ UNCHANGED <<image, task, rsector, dsector>>
        /\ UNCHANGED <<path, psector, is_wr>>
    BY <1>2 DEF OpenReads, From, To, SamePath
  <2>2. sectors = 0
    BY <2>1 DEF DiskInv, MountInv, Opening
  <2>3. MountInv'
    BY <1>2, <2>1, <2>2 DEF DiskInv, MountInv, Opening, ideVars, xferVars, dataVars, modeVars
  <2> QED BY <1>2, <2>1, <2>2, <2>3, OsdKeeps
<1>3. CASE Inserts /\ IdeMount(DiskSize[image]) /\ UNCHANGED card
  <2>1. /\ osd = "insert" /\ osd' = "menu"
        /\ UNCHANGED <<path, psector, is_wr, fil, task, rsector, dsector>>
    BY <1>3 DEF Inserts, From, To, SamePath
  <2>2. sectors = 0 /\ image \in Images /\ fil = image
    BY <2>1 DEF DiskInv, MountInv, Opening
  <2>3. DiskSize[image] \in Nat /\ DiskSize[image] # 0
    BY <2>2, DiskAssumption, IdeAssumption
  <2>4. ~busy /\ (counter # 0 => ident)
    BY <2>2 DEF DiskInv, MountInv
  <2>5. IdeTypes' /\ JobInv' /\ WordInv' /\ ReadInv' /\ WriteInv' /\ PathInv' /\ CardInv'
    BY <1>3, <2>1, <2>3, <2>4, MountKeeps
  <2>6. MountInv'
    BY <1>3, <2>1, <2>2, <2>3, <2>4
        DEF DiskInv, MountInv, Opening, IdeMount, xferVars, dataVars, modeVars
  <2> QED BY <2>5, <2>6 DEF DiskInv
<1>4. CASE (OsdGoesOn \/ Releases) /\ UNCHANGED <<ideVars, card>>
  <2>1. UNCHANGED <<path, psector, is_wr, fil, image, task, rsector, dsector>>
    BY <1>4
    DEF OsdGoesOn, Locks, OpenEnds, Releases, From, To, SamePath, SameImage
  <2>2. \/ osd = "openLock" /\ osd' = "open"
        \/ osd = "opened" /\ osd' = "insert"
        \/ osd' \in {"read", "menu"}
    BY <1>4 DEF OsdGoesOn, Locks, OpenEnds, Releases, From, To
  <2>3. MountInv'
    BY <1>4, <2>1, <2>2 DEF DiskInv, MountInv, Opening, ideVars, xferVars, dataVars, modeVars
  <2> QED BY <1>4, <2>1, <2>3, OsdKeeps
<1>5. CASE Probes /\ SamePath /\ UNCHANGED <<ideVars, card>>
  <2>1. /\ osd' = "readLock" /\ UNCHANGED <<task, rsector, dsector, path, psector, is_wr, fil, image>>
    BY <1>5 DEF Probes, To, SamePath, SameImage
  <2>2. MountInv'
    BY <1>5, <2>1 DEF DiskInv, MountInv, Opening, ideVars, xferVars, dataVars, modeVars
  <2> QED BY <1>5, <2>1, <2>2, OsdKeeps
<1> QED BY <1>1, <1>2, <1>3, <1>4, <1>5 DEF DiskWorks, DiskReadsCard

LEMMA UserKeeps ==
  ASSUME DiskInv, calm, DiskUser
  PROVE  DiskInv'
<1>1. CASE /\ \/ \E i \in Used \cup {NoImage} : Picks(i)
             \/ WantsTo("probe") \/ WantsTo("readLock") \/ ReadEnds
          /\ UNCHANGED <<ideVars, card>>
  <2>1. UNCHANGED <<path, psector, is_wr, fil, task, rsector, dsector>>
    BY <1>1 DEF Picks, WantsTo, ReadEnds, From, To, SamePath, SameImage
  <2>2. \/ osd' = "eject" /\ image' \in Images \cup {NoImage}
        \/ osd' \in {"readLock", "probe", "menu"}
    BY <1>1 DEF Picks, WantsTo, ReadEnds, Used, From, To
  <2>3. MountInv'
    BY <1>1, <2>1, <2>2 DEF DiskInv, MountInv, Opening, ideVars, xferVars, dataVars, modeVars
  <2> QED BY <1>1, <2>1, <2>3, OsdKeeps
<1>2. CASE OpenFails /\ SamePath /\ UNCHANGED <<ideVars, card>>
  <2>1. /\ osd = "open" /\ osd' = "menu" /\ UNCHANGED <<task, rsector, dsector, path, psector, is_wr>>
    BY <1>2 DEF OpenFails, From, To, SamePath
  <2>2. sectors = 0
    BY <2>1 DEF DiskInv, MountInv, Opening
  <2>3. MountInv'
    BY <1>2, <2>1, <2>2 DEF DiskInv, MountInv, Opening, ideVars, xferVars, dataVars, modeVars
  <2> QED BY <1>2, <2>1, <2>2, <2>3, OsdKeeps
<1>3. CASE Reads /\ SamePath /\ UNCHANGED <<ideVars, card>>
  <2>1. /\ osd' = "read" /\ UNCHANGED <<task, rsector, dsector, path, psector, is_wr, fil, image>>
    BY <1>3 DEF Reads, From, To, SamePath, SameImage
  <2>2. MountInv'
    BY <1>3, <2>1 DEF DiskInv, MountInv, Opening, ideVars, xferVars, dataVars, modeVars
  <2> QED BY <1>3, <2>1, <2>2, OsdKeeps
<1>4. CASE path = "free" /\ Resets /\ IdeReset /\ UNCHANGED card
  <2>1. /\ osd' = "reset" /\ UNCHANGED <<task, rsector, dsector, path, psector, is_wr, fil, image>>
    BY <1>4 DEF Resets, From, To, SamePath, SameImage
  <2>2. /\ counter' = 0 /\ ~is_write' /\ ~ident' /\ ~need' /\ job' = NoJob /\ at' = 0 /\ ptr' = 0
        /\ datareg' = <<>> /\ due' = <<>> /\ ~busy' /\ ~ide_rd' /\ ~ide_wr'
        /\ UNCHANGED <<sectors, wprot, ide_buf, xfer_lba, card>>
    BY <1>4 DEF IdeReset, Clears
  <2>3. job'.kind = "none" /\ job'.first = 0 /\ job'.bytes = 0
    BY <2>2 DEF NoJob
  <2>4. IdeTypes' /\ JobInv'
    BY <2>2, <2>3, Bytes DEF DiskInv, IdeTypes, JobInv, OnCard
  <2>5. WordInv' /\ ReadInv' /\ WriteInv' /\ CardInv'
    BY <2>2, <2>3 DEF DiskInv, WordInv, ReadInv, WriteInv, CardInv, InPlace
  <2>6. PathInv'
    BY <1>4, <2>1, <2>2 DEF DiskInv, PathInv
  <2>7. MountInv'
    BY <2>1, <2>2 DEF DiskInv, MountInv, Opening
  <2> QED BY <2>4, <2>5, <2>6, <2>7 DEF DiskInv
<1> QED BY <1>1, <1>2, <1>3, <1>4 DEF DiskUser, DiskReadsCard

-----------------------------------------------------------------------------
(* The two drives.  While the tape is used the disk's variables stay as    *)
(* they were.                                                              *)
AtRest == datareg = due /\ job.kind = "none" /\ CardInv
UnitInv == used \in {"tape", "disk"} /\ (used = "tape" => AtRest) /\ (used = "disk" /\ calm => DiskInv)

LEMMA CardFresh == ASSUME DiskInit PROVE CardInv
<1>1. card = [p \in Places |-> Fresh(p)]
  BY DEF DiskInit
<1>2. ASSUME NEW p \in Places, NEW o \in 1 .. DiskBytes PROVE InPlace(p, o)
  <2>1. card[p][o] = IF p = Outside THEN Nothing ELSE DiskByte(p[1], 0, p[2] * DiskBytes + o - 1)
    BY <1>1 DEF Fresh
  <2> QED BY <2>1 DEF InPlace
<1> QED BY <1>2 DEF CardInv

LEMMA DiskStarts == ASSUME DrivesInit PROVE UnitInv
<1>1. DiskInit /\ used \in {"tape", "disk"}
  BY DEF DrivesInit
<1>2. /\ sectors = 0 /\ ~mode8 /\ ~is_write /\ ~ident /\ counter = 0 /\ ptr = 0 /\ ~busy /\ ~need
      /\ xfer_lba = 0 /\ ~ide_rd /\ ~ide_wr /\ datareg = due /\ at = 0
      /\ task = "sleep" /\ path = "free" /\ ~is_wr /\ osd = "menu"
  BY <1>1 DEF DiskInit, IdeInit, SvcInit, OsdInit
<1>3. job.kind = "none" /\ job.first = 0 /\ job.bytes = 0
  BY <1>1 DEF DiskInit, IdeInit, NoJob
<1>4. CardInv /\ DOMAIN card = Places
  BY <1>1, CardFresh DEF DiskInit
<1>5. IdeTypes /\ JobInv /\ WordInv /\ ReadInv /\ WriteInv
  BY <1>2, <1>3, <1>4, Bytes DEF IdeTypes, JobInv, OnCard, WordInv, ReadInv, WriteInv
<1>6. PathInv /\ MountInv
  BY <1>2, <1>3 DEF PathInv, MountInv, Opening
<1> QED BY <1>1, <1>2, <1>3, <1>4, <1>5, <1>6 DEF UnitInv, AtRest, DiskInv

LEMMA DiskGoesOn ==
  ASSUME UnitInv, [DrivesNext]_drivesVars
  PROVE  UnitInv'
<1>1. CASE OnTape(Next)
  <2>1. used = "tape" /\ used' = used /\ UNCHANGED <<datareg, due, job, card, wprot>>
    BY <1>1 DEF OnTape, unitVars, ideVars, dataVars, modeVars
  <2> QED BY <2>1 DEF UnitInv, AtRest, CardInv, InPlace
<1>2. CASE OnDisk(DiskNext)
  <2>1. used = "disk" /\ used' = used /\ DiskNext
    BY <1>2 DEF OnDisk
  <2>2. calm' = calm
    BY <2>1 DEF DiskNext, DiskTask, DiskFpga, Software, DiskWorks, DiskUser
  <2>3. ASSUME calm PROVE DiskInv'
    <3>1. DiskInv
      BY <2>1, <2>3 DEF UnitInv
    <3>2. DiskFpga => (DiskAsks \/ DiskGrants \/ DiskTransferEnds) /\ UNCHANGED osdVars
      BY DEF DiskFpga
    <3> QED BY <2>1, <2>3, <3>1, <3>2, TaskKeeps, AsksKeeps, GrantsKeeps, SectorMovedKeeps,
               SoftwareKeeps, WorksKeeps, UserKeeps
        DEF DiskNext
  <2> QED BY <2>1, <2>2, <2>3 DEF UnitInv
<1>3. CASE UNCHANGED drivesVars
  <2>1. /\ UNCHANGED <<ideVars, card, path, psector, is_wr, task, rsector, dsector, used, calm>>
        /\ UNCHANGED <<osd, image, fil, sectors, busy, counter, ident, datareg, due, job, wprot>>
    BY <1>3 DEF drivesVars, unitVars, svcVars, osdVars, ideVars, xferVars, dataVars, modeVars
  <2>2. ASSUME DiskInv PROVE DiskInv'
    BY <2>1, <2>2, OsdKeeps, MountSame
  <2>3. AtRest => AtRest'
    BY <2>1 DEF AtRest, CardInv, InPlace
  <2> QED BY <2>1, <2>2, <2>3 DEF UnitInv
<1> QED BY <1>1, <1>2, <1>3 DEF DrivesNext

LEMMA UnitInvHolds == DrivesSpec => []UnitInv
<1>1. DrivesInit => UnitInv
  BY DiskStarts
<1>2. UnitInv /\ [DrivesNext]_drivesVars => UnitInv'
  BY DiskGoesOn
<1> QED BY <1>1, <1>2, PTL DEF DrivesSpec

(* The software reads what the image has where it asked for it, and as     *)
(* much, across the sectors of a command and across commands, whatever was *)
(* read, written, reset or replaced before.                                *)
THEOREM ReadsImageHolds == DrivesSpec => []ReadsImage
<1>1. UnitInv => ReadsImage
  <2>1. ASSUME AtRest PROVE ReadsImage
    BY <2>1 DEF AtRest, ReadsImage
  <2>2. ASSUME DiskInv PROVE ReadsImage
    BY <2>2 DEF DiskInv, JobInv, IdeTypes, OnCard, ReadsImage
  <2>3. ~calm => ReadsImage
    BY DEF ReadsImage
  <2> QED BY <2>1, <2>2, <2>3 DEF UnitInv
<1> QED BY <1>1, UnitInvHolds, PTL

(* Every byte of the card has its own image and address, of a protected    *)
(* disk the one it had at first; and when a write command is over all that *)
(* it sent is on the card.                                                 *)
THEOREM WritesLandHolds == DrivesSpec => []WritesLand
<1>1. UnitInv => WritesLand
  <2>1. ASSUME AtRest PROVE WritesLand
    BY <2>1 DEF AtRest, CardInv, WritesLand
  <2>2. ASSUME DiskInv PROVE WritesLand
    <3>1. ASSUME job.kind = "write", Idle, ~wprot
          PROVE  \A a \in job.first .. job.first + job.bytes - 1 : Stored(a) = Ours(a)
      <4>1. PICK e \in Nat : job.first + job.bytes = e * DiskBytes
        BY <2>2, <3>1 DEF DiskInv, JobInv, OnCard
      <4>2. /\ at + counter = job.first + job.bytes /\ at = xfer_lba * DiskBytes + ptr /\ counter = 0
            /\ \A a \in job.first .. xfer_lba * DiskBytes - 1 : Stored(a) = Ours(a)
        BY <2>2, <3>1 DEF DiskInv, JobInv, OnCard, WriteInv, Idle
      <4>3. at \in Nat /\ xfer_lba \in Nat /\ ptr \in 0 .. DiskBytes - 1 /\ 0 \in 0 .. DiskBytes - 1
        BY <2>2, Bytes DEF DiskInv, IdeTypes
      <4>4. xfer_lba * DiskBytes + ptr = e * DiskBytes + 0 /\ e * DiskBytes \in Nat
        BY <4>1, <4>2, <4>3, Product, Bytes
      <4>5. (xfer_lba * DiskBytes + ptr) % DiskBytes = ptr /\ (e * DiskBytes + 0) % DiskBytes = 0
        BY <4>3, Division, Bytes
      <4>6. ptr = 0
        BY <4>4, <4>5
      <4>7. xfer_lba * DiskBytes = job.first + job.bytes
        BY <4>1, <4>3, <4>4, <4>6, Product, Bytes
      <4>8. xfer_lba * DiskBytes - 1 = job.first + job.bytes - 1
        BY <2>2, <4>3, <4>7, Product, Bytes DEF DiskInv, IdeTypes
      <4> QED BY <4>2, <4>8, Zenon
    <3> QED BY <2>2, <3>1 DEF DiskInv, CardInv, WritesLand
  <2>3. ~calm => WritesLand
    BY DEF WritesLand
  <2> QED BY <2>1, <2>2, <2>3 DEF UnitInv
<1> QED BY <1>1, UnitInvHolds, PTL
=============================================================================
