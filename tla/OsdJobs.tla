------------------------------- MODULE OsdJobs -------------------------------
(***************************************************************************)
(* What the OSD's task does to a drive whose requests spi_task serves      *)
(* (SdService.tla): it replaces the image (sdc_image_open), or keeps the   *)
(* lock of the file system and reads for itself (sdc_readdir, bas_run).    *)
(* Loader.tla has the same steps as the menu takes them, for the ROM disk; *)
(* here they come at any time.  Each action leaves the drive's own         *)
(* variables to the module that composes the two.                          *)
(***************************************************************************)
EXTENDS SdService

CONSTANTS
  Images,   \* the files that are mounted
  NoImage,  \* no file was ever open, and ...
  LostImage \* ... one was, but the last open failed: its link table is gone

ASSUME OsdAssumption == NoImage \notin Images /\ LostImage \notin Images

VARIABLES
  osd,   \* where the OSD's task is
  image, \* the file it opens
  fil    \* the drive's open file

osdVars == <<osd, image, fil>>

OsdInit == osd = "menu" /\ image = NoImage /\ fil = NoImage

-----------------------------------------------------------------------------
(* A directory is looked for without the lock: only the bus is kept, from  *)
(* the command to the sector's last byte.                                  *)
KeepsBus == osd = "probe"

(* spi_task, with an open file of which nothing may be left. *)
Serves(place, places) ==
  \/ SvcTask(KeepsBus, fil # NoImage, IF fil = LostImage THEN places ELSE {place})
  \/ fil = LostImage /\ TaskTraps

(* It has the higher priority. *)
From(a) == osd = a /\ ~TaskReady(KeepsBus)
To(b) == osd' = b /\ UNCHANGED <<task, rsector, irq, dsector>>
SamePath == UNCHANGED <<path, psector, is_wr>>
SameSem == UNCHANGED sdc_sem
SameImage == UNCHANGED <<image, fil>>

Locks(a, b) ==
  /\ From(a) /\ sdc_sem = "free"
  /\ sdc_sem' = "osd" /\ To(b)
  /\ SamePath /\ SameImage

Unlocks == sdc_sem' = "free"

(* sdc_image_open: the drive is empty first, whatever comes. *)
Picks(i) ==
  /\ From("menu") /\ To("eject")
  /\ image' = i
  /\ SamePath /\ SameSem /\ UNCHANGED fil

Ejects ==
  /\ From("eject") /\ To(IF image = NoImage THEN "menu" ELSE "openLock")
  /\ SamePath /\ SameSem /\ SameImage

(* f_open and the link table, with the reads they take. *)
OpenReads == From("open") /\ To("opened") /\ SameSem /\ UNCHANGED image /\ fil' = image

(* No failure clears the flag that sdc_handle_event looks at; f_open fails *)
(* before it sets it, the link table after.                                *)
OpenFails ==
  /\ From("open") /\ To("menu")
  /\ Unlocks
  /\ fil' = LostImage \/ (fil = NoImage /\ UNCHANGED fil)
  /\ image' = NoImage

OpenEnds == From("opened") /\ To("insert") /\ Unlocks /\ SamePath /\ SameImage

Inserts ==
  /\ From("insert") /\ To("menu")
  /\ image' = NoImage
  /\ SamePath /\ SameSem /\ UNCHANGED fil

(* A directory, after a look for the core's folder ("probe"), or at once,  *)
(* or a program ("readLock").                                              *)
WantsTo(read) ==
  /\ From("menu") /\ To(read)
  /\ SamePath /\ SameSem /\ SameImage
Probes      == From("probe") /\ To("readLock") /\ SameSem /\ SameImage
Reads       == From("read") /\ To("read") /\ SameSem /\ SameImage
ReadEnds    == From("read") /\ To("menu") /\ Unlocks /\ SamePath /\ SameImage

(* The machine's reset, a button of the menu or bas_run's, the lock kept. *)
Resets ==
  /\ From("menu") \/ From("read")
  /\ To("reset")
  /\ SamePath /\ SameSem /\ SameImage

Releases ==
  /\ From("reset") /\ To(IF sdc_sem = "osd" THEN "read" ELSE "menu")
  /\ SamePath /\ SameSem /\ SameImage

(* A directory that cannot be opened is read for ever (sdc.c:563-575), so   *)
(* that fairness does not make a reading end: what waits for it supposes    *)
(* this.  That a reading ends if the directory opens is Loader.tla's.      *)
ReadingsEnd == []<>(osd # "read")

(* The steps that touch neither the drive nor its lease. *)
OsdGoesOn == Locks("openLock", "open") \/ OpenEnds \/ Locks("readLock", "read")
=============================================================================
