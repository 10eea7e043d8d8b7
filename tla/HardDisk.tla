------------------------------- MODULE HardDisk -------------------------------
(***************************************************************************)
(* The hard disk (Ide.tla), the software that reads and writes it, and the *)
(* firmware that serves its sectors (SdService.tla) and replaces its image *)
(* or resets the machine (OsdJobs.tla).  The disk is the one drive that    *)
(* asks for sectors.  A sector is moved when its transfer ends.            *)
(***************************************************************************)
EXTENDS Ide, OsdJobs

CONSTANTS
  DiskSize, \* of each image, in sectors
  Outside   \* the sectors of the card that are in no image

VARIABLES
  card, \* the bytes of each sector: each with its image, address and value
  calm  \* the OSD's task waits for the disk: see DiskWorks

DiskSectorAt(i, s) == IF s < DiskSize[i] THEN <<i, s>> ELSE Outside
Placed == UNION {{<<i, s>> : s \in 0 .. DiskSize[i] - 1} : i \in Images}
Places == Placed \cup {Outside}

ASSUME DiskAssumption ==
  /\ \A i \in Images : DiskSize[i] \in 1 .. MaxSects
  /\ Outside \notin Placed

Lbas == 0 .. MaxSects - 1

DiskByte(i, v, a) == <<i, v, a>>
Fresh(place) ==
  [o \in 1 .. DiskBytes |->
     IF place = Outside THEN Nothing ELSE DiskByte(place[1], 0, place[2] * DiskBytes + o - 1)]

DiskInit ==
  /\ IdeInit /\ SvcInit(Outside) /\ OsdInit
  /\ card = [p \in Places |-> Fresh(p)] /\ calm \in BOOLEAN

-----------------------------------------------------------------------------
(* spi_task, and the FPGA.  Bounds: when the OSD's task does not wait for   *)
(* the disk there is one image, of one sector; a sector that is looked up  *)
(* in a lost table is the first of an image, or in none.                   *)

Used == IF calm THEN Images ELSE {i \in Images : DiskSize[i] = 1}
Anywhere == {Outside} \cup {<<i, 0>> : i \in Used}

DiskTask ==
  /\ Serves(DiskSectorAt(fil, rsector), Anywhere)
  /\ UNCHANGED <<ideVars, osdVars, card, calm>>

Acks == path # "free"
DiskAsks == IdeFetches(Acks) /\ UNCHANGED <<svcVars, card>>
DiskGrants ==
  (ide_rd \/ ide_wr) /\ SvcGrants(xfer_lba, ide_wr) /\ IdeAcked /\ UNCHANGED card

DiskTransferEnds ==
  /\ SvcEnds(Outside)
  /\ IF is_wr
       THEN card' = [card EXCEPT ![dsector] = ide_buf] /\ IdeDone(ide_buf)
       ELSE IdeDone(card[dsector]) /\ UNCHANGED card

DiskFpga == (DiskAsks \/ DiskGrants \/ DiskTransferEnds) /\ UNCHANGED <<osdVars, calm>>

-----------------------------------------------------------------------------
(* The software, which is not running while the machine is reset.  Bounds: *)
(* it stays in the image, and has one value when the OSD's task does not   *)
(* wait for the disk.                                                      *)

Stored(a) == card[DiskSectorAt(job.image, a \div DiskBytes)][(a % DiskBytes) + 1]
Expected ==
  [j \in 1 .. Width |-> IF ident THEN <<"ident", at + j - 1>> ELSE Stored(at + j - 1)]
Ours(a) == DiskByte(job.image, job.value, a)

InImage(lba, count) == lba + (IF count = 0 THEN CountMax ELSE count) <= sectors
Written == IF calm THEN Values ELSE {0}

Software ==
  /\ osd # "reset"
  /\ \/ \E lba \in Lbas, count \in 0 .. CountMax - 1 :
          /\ InImage(lba, count)
          /\ Read(fil, lba, count) \/ \E v \in Written : Write(fil, lba, count, v)
     \/ Identify \/ SetFeatures \/ SoftReset
     \/ DataRead(Expected) \/ DataWrite(Acks, [j \in 1 .. Width |-> Ours(at + j - 1)])
  /\ UNCHANGED <<svcVars, osdVars, card, calm>>

-----------------------------------------------------------------------------
(* The OSD's task.  Nothing makes it wait for the disk: unless calm it may *)
(* read a sector for itself while one of the disk's is shown, replace the  *)
(* image in the middle of a command, reset the machine with a sector on    *)
(* its way.                                                                *)

DiskReadsCard ==
  /\ \/ SamePath /\ UNCHANGED ideVars
     \/ ~calm /\ SvcTearsLease /\ IdeDone(ide_buf)
  /\ UNCHANGED card

DiskWorks ==
  /\ \/ (calm => Idle) /\ Ejects /\ IdeMount(0) /\ UNCHANGED card
     \/ (OpenReads \/ Probes) /\ DiskReadsCard
     \/ Inserts /\ IdeMount(DiskSize[image]) /\ UNCHANGED card
     \/ (OsdGoesOn \/ Releases) /\ UNCHANGED <<ideVars, card>>
  /\ UNCHANGED calm

(* The user: an image or none, a directory, a program, a reset. *)
DiskUser ==
  /\ \/ /\ \/ \E i \in Used \cup {NoImage} : Picks(i)
           \/ WantsTo("probe") \/ WantsTo("readLock") \/ ReadEnds
        /\ UNCHANGED <<ideVars, card>>
     \/ (OpenFails \/ Reads) /\ DiskReadsCard
     \/ (calm => path = "free") /\ Resets /\ IdeReset /\ UNCHANGED card
  /\ UNCHANGED calm

DiskNext == DiskTask \/ DiskFpga \/ Software \/ DiskWorks \/ DiskUser

-----------------------------------------------------------------------------
(* The software reads what the image has at the address it asked for, and  *)
(* as much as it asked for, across the sectors of a command and the        *)
(* commands, whatever was read, written or reset before.                   *)
ReadsImage ==
  calm =>
    /\ datareg = due
    /\ job.kind = "read" /\ counter = 0 => at = job.first + job.bytes

InPlace(p, o) ==
  IF p = Outside THEN card[p][o] = Nothing
  ELSE \E v \in Values \cup {0} :
         card[p][o] = DiskByte(p[1], v, p[2] * DiskBytes + o - 1) /\ (wprot => v = 0)

(* A byte is written where it was meant to go and the others stay, of a    *)
(* protected disk all; and when a write command has ended all of its bytes *)
(* are on the card.                                                        *)
WritesLand ==
  calm =>
    /\ \A p \in Places : \A o \in 1 .. DiskBytes : InPlace(p, o)
    /\ job.kind = "write" /\ Idle /\ ~wprot =>
         \A a \in job.first .. job.first + job.bytes - 1 : Stored(a) = Ours(a)

(* Every sector that is asked for ends, over replaced images, resets and   *)
(* sectors read for the firmware, if its own readings end and it does not  *)
(* look the sector up in a file that could not be opened.                  *)
SectorEnds == ReadingsEnd => (Fetching ~> (~Fetching \/ task = "trapped"))
=============================================================================
