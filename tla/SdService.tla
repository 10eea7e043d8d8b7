------------------------------ MODULE SdService ------------------------------
(***************************************************************************)
(* How the firmware serves the requests of one drive: spi_task (spi.c),    *)
(* woken by the interrupt, and sdc_handle_event (sdc.c), under the lock of *)
(* the file system, against the arbiter's lease of the drive.              *)
(*                                                                         *)
(* Of the SD path, which is SdPath.tla's, what matters here is whether the *)
(* arbiter shows the drive's request and whether its transfer runs; the    *)
(* other drives ask for nothing.  A step of a task is an SPI transaction   *)
(* or a semaphore.                                                         *)
(***************************************************************************)
EXTENDS Naturals

VARIABLES
  sdc_sem,        \* who holds the lock of the file system
  task,           \* where spi_task is
  rsector,        \* the sector it read from the arbiter
  irq,            \* a request has been shown since the last acknowledge
  path,           \* the arbiter's lease: "shown" until the card is busy on it
  psector, is_wr, \* its sector and direction
  dsector         \* the sector of the card that the transfer moves

svcVars == <<sdc_sem, task, rsector, irq, path, psector, is_wr, dsector>>

SvcInit(nowhere) ==
  /\ sdc_sem = "free" /\ task = "sleep" /\ rsector = 0 /\ irq = FALSE
  /\ path = "free" /\ psector = 0 /\ is_wr = FALSE /\ dsector = nowhere

-----------------------------------------------------------------------------
(* spi_task has the higher priority: while it can run, the OSD's task, which *)
(* may keep the bus over the bytes of a long transaction, cannot.           *)

BusFree(kept) == task # "poll" /\ ~kept

TaskReady(kept) ==
  \/ task = "sleep" /\ irq /\ BusFree(kept)
  \/ task \in {"status", "lookup"} /\ BusFree(kept)
  \/ task = "lock" /\ sdc_sem = "free"
  \/ task \in {"poll", "trapped"}

TaskWakesUnacked(kept) ==
  /\ task = "sleep" /\ irq /\ BusFree(kept)
  /\ task' = "status"
  /\ UNCHANGED <<irq, rsector, sdc_sem, path, dsector>>

TaskWakes(kept) ==
  /\ task = "sleep" /\ irq /\ BusFree(kept)
  /\ irq' = FALSE /\ task' = "status"
  /\ UNCHANGED <<rsector, sdc_sem, path, dsector>>

TaskReadsRequest(kept, opened) ==
  /\ task = "status" /\ BusFree(kept)
  /\ IF path = "shown" /\ opened
       THEN rsector' = psector /\ task' = "lock"
       ELSE task' = "sleep" /\ rsector' = 0
  /\ UNCHANGED <<irq, sdc_sem, path, dsector>>

TaskLocks ==
  /\ task = "lock" /\ sdc_sem = "free"
  /\ sdc_sem' = "task" /\ task' = "lookup"
  /\ UNCHANGED <<rsector, irq, path, dsector>>

(* The sector's place, and CORE_RW, which starts a transfer only if the    *)
(* arbiter still shows one.                                                *)
TaskStarts(kept, places) ==
  /\ task = "lookup" /\ BusFree(kept)
  /\ task' = "poll"
  /\ IF path = "shown"
       THEN path' = "moving" /\ dsector' \in places
       ELSE UNCHANGED <<path, dsector>>
  /\ UNCHANGED <<rsector, irq, sdc_sem>>

(* A file without a link table: clmt_clust looks through whatever is at    *)
(* address 0.  The processor traps or looks for ever, and runs no task any *)
(* more; or what it reads there is a place.                                *)
TaskTraps ==
  /\ task \in {"lookup", "trapped"}
  /\ task' = "trapped"
  /\ UNCHANGED <<rsector, irq, sdc_sem, path, psector, is_wr, dsector>>

TaskEndsAcks ==
  /\ task = "poll" /\ path # "moving"
  /\ irq' = FALSE
  /\ sdc_sem' = "free" /\ task' = "sleep" /\ rsector' = 0
  /\ UNCHANGED <<path, dsector>>

TaskEnds ==
  /\ task = "poll" /\ path # "moving"
  /\ sdc_sem' = "free" /\ task' = "sleep" /\ rsector' = 0
  /\ UNCHANGED <<irq, path, dsector>>

(* opened: the drive has an open file; places: where its sector may be. *)
SvcTask(kept, opened, places) ==
  /\ \/ TaskWakes(kept) \/ TaskReadsRequest(kept, opened) \/ TaskLocks
     \/ TaskStarts(kept, places) \/ TaskEnds
  /\ UNCHANGED <<psector, is_wr>>

-----------------------------------------------------------------------------
(* The arbiter: a grant raises the interrupt, the end frees the path. *)
SvcGrants(sector, wr) ==
  /\ path = "free"
  /\ path' = "shown" /\ psector' = sector /\ is_wr' = wr /\ irq' = TRUE
  /\ UNCHANGED <<sdc_sem, task, rsector, dsector>>

SvcEnds(nowhere) ==
  /\ path = "moving"
  /\ path' = "free" /\ psector' = 0 /\ is_wr' = FALSE /\ dsector' = nowhere
  /\ UNCHANGED <<sdc_sem, task, rsector, irq>>

(* A sector read for the firmware itself: the arbiter, if it shows a       *)
(* request, takes it for that and tells the drive that it is done.         *)
SvcTearsLease ==
  /\ path = "shown"
  /\ path' = "free" /\ psector' = 0 /\ is_wr' = FALSE
=============================================================================
