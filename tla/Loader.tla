-------------------------------- MODULE Loader --------------------------------
(***************************************************************************)
(* What the OSD's menu sets going: an image mounted as the ROM disk and    *)
(* copied into memory sector by sector, a BASIC program put into the       *)
(* running machine, a directory read.  The OSD's task (menu.c, sdc.c,      *)
(* bas.c) and spi_task (spi.c, sdc.c) share the card under a lock and the  *)
(* SPI bus; romdisk.v and poke.v share the CPU's port of the SDRAM.        *)
(*                                                                         *)
(* The ROM disk is the one drive that asks for sectors.  A step of a task  *)
(* is an SPI transaction, a semaphore, or a byte to poke.v; the FPGA's     *)
(* steps come between them.                                                *)
(***************************************************************************)
EXTENDS Menu, Poke, RomDisk, SdService

CONSTANTS
  Images,    \* the files that are mounted
  NoImage,
  Size,      \* of each, in beats
  RomDrive,  \* the ROM disk's slot
  BasDrive,  \* BAS_DRIVE
  LineBytes, \* the bytes of the program's lines, and ...
  Bytes,     \* ... all that are poked: the end and the pointers too
  ByteTime,  \* the T-states an SPI byte takes at least
  CpuCycle   \* the T-states of a machine cycle at least

SectorAt(i, s) == IF i # NoImage /\ s * Beats < Size[i] THEN <<i, s>> ELSE Garbage

ASSUME LoaderAssumption ==
  /\ Size \in [Images -> Nat \ {0}]
  /\ RomDrive \in Drives /\ BasDrive \in Drives /\ RomDrive # BasDrive
  /\ Sectors = {Garbage} \cup (Images \X Sect)
  /\ Bytes \in Nat /\ Entry = 0 .. Bytes - 1 /\ LineBytes \in 1 .. Bytes
  /\ ByteTime \in Nat /\ ByteTime >= 2 /\ CpuCycle \in Nat /\ CpuCycle >= 2

VARIABLES
  osd,              \* where the OSD's task is
  image,            \* the file it opens
  fil,              \* the ROM disk's open file
  sent,             \* bytes poked so far
  byte_gap, cpu_gap,\* T-states since the last byte, and since the CPU's last access
  landed,           \* history: the bytes that reached memory
  held,             \* history: the ROM disk loaded while the program was sent, or
                    \* had held bytes of the one before until then
  torn              \* history: a request of this load was told done unserved

cardVars == <<osd, image, fil, svcVars, torn>>
basVars == <<sent, byte_gap, cpu_gap, landed, held>>
vars == <<menuVars, pokeVars, romVars, cardVars, basVars>>

Init ==
  /\ MenuInit /\ PokeInit /\ RomInit
  /\ osd = "menu" /\ image = NoImage /\ fil = NoImage
  /\ SvcInit(Garbage)
  /\ sent = 0 /\ byte_gap = ByteTime /\ cpu_gap = CpuCycle
  /\ landed = {} /\ held = FALSE /\ torn = FALSE

-----------------------------------------------------------------------------
(* spi_task, and the FPGA: the arbiter and romdisk.v. *)

KeepsBus == osd \in {"poke", "tail", "probe"}

Task ==
  /\ SvcTask(KeepsBus, fil # NoImage, {SectorAt(fil, rsector)})
  /\ UNCHANGED <<menuVars, pokeVars, romVars, basVars, osd, image, fil, torn>>

Grants == sd_rd /\ SvcGrants(sec, FALSE) /\ RomAcked
TransferEnds == SvcEnds(Garbage) /\ RomDone(dsector)
Loads == (RomAsks \/ RomCopies \/ RomNextSector) /\ UNCHANGED svcVars

Fpga ==
  /\ Grants \/ TransferEnds \/ Loads
  /\ UNCHANGED <<menuVars, pokeVars, basVars, osd, image, fil, torn>>

(* A T-state of the CPU's port: the CPU wants it or not. *)
Later(gap, max) == IF gap < max THEN gap + 1 ELSE max
Slots(cpu) == Req(cpu, busy)
TState ==
  /\ wp # rp \/ byte_gap < ByteTime
  /\ \E cpu \in {c \in BOOLEAN : c => cpu_gap = CpuCycle /\ ~busy} :
       LET req == Slots(cpu) IN
       /\ PokeClock(FALSE, Blank, req)
       /\ landed' = IF req /\ sent # 0 THEN landed \cup {req_entry} ELSE landed
       /\ cpu_gap' = IF cpu THEN 1 ELSE IF wp' = rp' THEN CpuCycle ELSE Later(cpu_gap, CpuCycle)
  /\ byte_gap' = Later(byte_gap, ByteTime)
  /\ held' = (held \/ (busy /\ sent > 0))
  /\ UNCHANGED <<menuVars, romVars, cardVars, sent>>

-----------------------------------------------------------------------------
(* The OSD's task. *)

From(a) == osd = a /\ ~TaskReady(KeepsBus)
To(b) == osd' = b /\ UNCHANGED <<task, rsector, irq, dsector>>
SamePath == UNCHANGED <<path, psector, is_wr>>
SameCard == SamePath /\ UNCHANGED <<torn, romVars>>
SameImage == UNCHANGED <<image, fil>>
SameSem == UNCHANGED sdc_sem
SameBas == UNCHANGED <<pokeVars, basVars>>

(* A sector read for the firmware itself may tear a lease.  Nothing is     *)
(* read if FatFs has the sector already.                                   *)
ReadsCard ==
  \/ SameCard
  \/ /\ SvcTearsLease
     /\ RomDone(buf)
     /\ torn' = (torn \/ (busy /\ fetch))

Locks(a, b) ==
  /\ From(a) /\ sdc_sem = "free"
  /\ sdc_sem' = "osd" /\ To(b)
  /\ SameCard /\ SameImage /\ SameBas /\ UNCHANGED menuVars

Unlocks == sdc_sem' = "free"

(* Bounds: while a load is on the user only goes from one file entry to    *)
(* another, and the selector opens on its first file; of a directory only  *)
(* the first file is chosen.                                               *)
Hurries == busy => form' \in Form /\ entry' # 0 /\ Items(form')[entry'].type = "F"
Chosen == OnFile /\ entry = 1

(* Events that need no card: the cursor, forms, texts, buttons. *)

MenuStep ==
  /\ From("menu")
  /\ \/ Moves \/ OpensForm \/ LeavesText \/ LeavesForm
     \/ \E lines \in TextSizes : OpensText(lines)
     \/ entry = 0 /\ LeavesSelector
  /\ Hurries
  /\ To("menu")
  /\ SameCard /\ SameImage /\ SameSem /\ SameBas

(* A file selector opens, or goes to another directory: sdc_readdir.  The  *)
(* first listing of a slot without a saved path looks for the core's folder *)
(* before it takes the lock.                                               *)
PicksList ==
  /\ From("menu")
  /\ \/ (Selects("F") \/ Chosen) /\ To("listLock")
     \/ Selects("F") /\ To("probe")
  /\ SameCard /\ SameImage /\ SameSem /\ SameBas /\ UNCHANGED menuVars

LooksForFolder ==
  /\ From("probe") /\ To("listLock")
  /\ ReadsCard
  /\ SameImage /\ SameSem /\ SameBas /\ UNCHANGED menuVars

ListReads ==
  /\ From("list") /\ To("listed")
  /\ ReadsCard
  /\ SameImage /\ SameSem /\ SameBas /\ UNCHANGED menuVars

(* The directory cannot be opened (it is gone, there is no card): the name *)
(* the loop waits to see empty stays that of the first entry, "..".  The   *)
(* lock is not given back.                                                 *)
ListFails ==
  /\ From("list") /\ To("endless")
  /\ ReadsCard
  /\ SameImage /\ SameSem /\ SameBas /\ UNCHANGED menuVars

AppendsForever ==
  /\ From("endless") /\ To("endless")
  /\ SameCard /\ SameImage /\ SameSem /\ SameBas /\ UNCHANGED menuVars

Listed ==
  /\ From("listed") /\ To("menu")
  /\ Unlocks
  /\ \E n \in DirSizes : \E e \in (IF busy THEN {1} ELSE 1 .. n) :
       OpensSelector(n, e) \/ EntersDirectory(n, e)
  /\ SameCard /\ SameImage /\ SameBas

(* sdc_image_open: the drive is empty first, whatever comes. *)
PicksImage ==
  /\ From("menu") /\ Chosen /\ drive # BasDrive
  /\ image' \in Images
  /\ To("eject")
  /\ SameCard /\ SameSem /\ SameBas /\ UNCHANGED <<fil, menuVars>>

PicksNoDisk ==
  /\ From("menu") /\ Chosen
  /\ LeavesSelector
  /\ image' = NoImage
  /\ To("eject")
  /\ SameCard /\ SameSem /\ SameBas /\ UNCHANGED fil

EjectLater ==
  /\ From("eject")
  /\ IF image = NoImage /\ drive = RomDrive
       THEN RomMount(0) /\ torn' = FALSE
       ELSE UNCHANGED <<romVars, torn>>
  /\ To(IF image = NoImage THEN "menu" ELSE "openLock")
  /\ SameImage /\ SameSem /\ SameBas /\ SamePath /\ UNCHANGED menuVars

Ejects ==
  /\ From("eject")
  /\ IF drive = RomDrive THEN RomMount(0) /\ torn' = FALSE ELSE UNCHANGED <<romVars, torn>>
  /\ To(IF image = NoImage THEN "menu" ELSE "openLock")
  /\ SameImage /\ SameSem /\ SameBas /\ SamePath /\ UNCHANGED menuVars

Opens ==
  /\ From("open") /\ To("opened")
  /\ ReadsCard
  /\ fil' = IF drive = RomDrive THEN image ELSE fil
  /\ SameSem /\ SameBas /\ UNCHANGED <<image, menuVars>>

(* What is left of the file (OsdJobs.tla) is asked for no more: the drive  *)
(* is empty.                                                               *)
OpenFails ==
  /\ From("open") /\ To("menu")
  /\ ReadsCard
  /\ Unlocks
  /\ fil' = IF drive = RomDrive THEN NoImage ELSE fil
  /\ LeavesSelector
  /\ SameBas /\ UNCHANGED image

OpenEnds == From("opened") /\ To("insert") /\ Unlocks
            /\ SameCard /\ SameImage /\ SameBas /\ UNCHANGED menuVars

Inserts ==
  /\ From("insert") /\ To("menu")
  /\ IF drive = RomDrive THEN RomMount(Size[image]) /\ torn' = FALSE
                         ELSE UNCHANGED <<romVars, torn>>
  /\ LeavesSelector
  /\ image' = NoImage
  /\ SamePath /\ SameSem /\ SameBas /\ UNCHANGED fil

(* bas_run: the machine to its prompt, the program into its memory, run. *)
PicksProgram ==
  /\ From("menu") /\ Chosen /\ drive = BasDrive
  /\ LeavesSelector
  /\ To("basLock")
  /\ SameCard /\ SameImage /\ SameSem /\ SameBas

BasOpens ==
  /\ From("basOpen")
  /\ ReadsCard
  /\ \/ To("reset") /\ SameSem
     \/ To("menu") /\ Unlocks
  /\ SameImage /\ SameBas /\ UNCHANGED menuVars

(* Three seconds, in which a queue that is not held runs empty. *)
Resets ==
  /\ From("reset") /\ (empty \/ busy) /\ To("line")
  /\ SameCard /\ SameImage /\ SameSem /\ SameBas /\ UNCHANGED menuVars

ReadsLine ==
  /\ From("line") /\ To("poke")
  /\ ReadsCard
  /\ SameImage /\ SameSem /\ SameBas /\ UNCHANGED menuVars

(* A byte to poke.v, in a transaction that keeps the bus. *)
Pokes(a, last, b) ==
  /\ osd = a /\ byte_gap = ByteTime
  /\ PokeClock(TRUE, sent, FALSE)
  /\ sent' = sent + 1
  /\ byte_gap' = 0
  /\ held' = (held \/ busy \/ (sent = 0 /\ ~empty))
  /\ To(IF sent + 1 = last THEN b ELSE a)
  /\ SameCard /\ SameImage /\ SameSem /\ UNCHANGED <<cpu_gap, landed, menuVars>>

Closes ==
  /\ From("close") /\ To(IF LineBytes = Bytes THEN "delay" ELSE "tail")
  /\ Unlocks
  /\ SameCard /\ SameImage /\ SameBas /\ UNCHANGED menuVars

DelaysNot ==
  /\ From("delay") /\ To("run")
  /\ SameCard /\ SameImage /\ SameSem /\ SameBas /\ UNCHANGED menuVars

(* Fifty milliseconds, in which a queue that is not held runs empty. *)
Delays ==
  /\ From("delay") /\ byte_gap = ByteTime /\ (empty \/ busy) /\ To("run")
  /\ SameCard /\ SameImage /\ SameSem /\ SameBas /\ UNCHANGED menuVars

BasEnds ==
  /\ From("run") /\ To("menu")
  /\ sent' = 0 /\ landed' = {} /\ held' = FALSE
  /\ SameCard /\ SameImage /\ SameSem /\ UNCHANGED <<pokeVars, byte_gap, cpu_gap, menuVars>>

Works ==
  \/ LooksForFolder \/ Locks("listLock", "list") \/ ListReads \/ Listed
  \/ ListFails \/ AppendsForever
  \/ Ejects \/ Locks("openLock", "open") \/ Opens \/ OpenFails \/ OpenEnds \/ Inserts
  \/ Locks("basLock", "basOpen") \/ BasOpens \/ Resets \/ ReadsLine
  \/ Pokes("poke", LineBytes, "close") \/ Closes \/ Pokes("tail", Bytes, "delay")
  \/ Delays \/ BasEnds

User == MenuStep \/ PicksList \/ PicksImage \/ PicksNoDisk \/ PicksProgram

Next == Task \/ Fpga \/ TState \/ Works \/ User

Spec == Init /\ [][Next]_vars

(* Tasks that can run do, the FPGA is clocked, a transfer ends; the user   *)
(* need not do anything.                                                   *)
FairSpec ==
  /\ Spec
  /\ WF_vars(Task) /\ WF_vars(Fpga) /\ WF_vars(TState) /\ WF_vars(Works)

-----------------------------------------------------------------------------
(* The ROM disk is present only with the whole of the image that is open   *)
(* in its slot, each sector in its place, however often and whenever the   *)
(* image was replaced, with a transfer of the old one on its way or not.   *)
(* Not so (torn) if the firmware read a sector for itself while a request  *)
(* of this load was shown: the false done of run SdFalseDone.              *)
RomCopyWhole ==
  pres /\ ~torn =>
    /\ fil # NoImage
    /\ \A s \in Sect : s * Beats < Size[fil] =>
         \A b \in 0 .. Beats - 1 : rom[s][b] = <<fil, s>>

(* When the program is run, all of it has reached memory (poke.v: "a byte  *)
(* waits a T-state or two"), unless the ROM disk's loader had the port     *)
(* meanwhile: then the queue, which is held, fills and drops bytes.        *)
ProgramWhole == osd = "run" /\ ~held => landed = Entry

(* A load ends: the CPU is let go, though bas_run and the menu take the    *)
(* lock for seconds; unless a directory that cannot be opened keeps it.    *)
LoadEnds == busy ~> (~busy \/ osd = "endless")

(* The OSD's task comes back to the menu from whatever it was sent to do,  *)
(* but for that directory: with the card missing the firmware does not     *)
(* "still run", as howto.md:104 has it, once a selector is opened.         *)
JobEnds == (osd # "menu") ~> (osd \in {"menu", "endless"})
=============================================================================
