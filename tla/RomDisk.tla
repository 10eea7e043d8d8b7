------------------------------- MODULE RomDisk -------------------------------
(***************************************************************************)
(* romdisk.v: the ROM disk's image, fetched from the card a sector at a    *)
(* time and copied into the SDRAM, with the CPU held in reset meanwhile.   *)
(* Each action is a branch of its `always`: a mount, which comes first,    *)
(* and the branches of a load.  A sector is Beats slots of the CPU's port. *)
(***************************************************************************)
EXTENDS Naturals

CONSTANTS
  Beats,    \* 512 bytes
  MaxSects, \* 2048 sectors, a megabyte
  Sectors,  \* what a sector may hold
  Garbage   \* what is in memory before it is written

ASSUME RomAssumption ==
  /\ Beats \in Nat \ {0} /\ MaxSects \in Nat \ {0}
  /\ Garbage \in Sectors

VARIABLES
  sd_rd, sec, nsect, idx, busy, fetch, have, pres, buf,
  rom  \* the SDRAM above 64 KB

romVars == <<sd_rd, sec, nsect, idx, busy, fetch, have, pres, buf, rom>>

Sect == 0 .. MaxSects - 1

NothingCopied == [s \in Sect |-> [b \in 0 .. Beats - 1 |-> Garbage]]

RomInit ==
  /\ sd_rd = FALSE /\ busy = FALSE /\ fetch = FALSE /\ have = FALSE /\ pres = FALSE
  /\ sec = 0 /\ nsect = 0 /\ idx = 0
  /\ buf = Garbage /\ rom = NothingCopied

(* The sectors of an image of a size counted in beats. *)
SectorsOf(size) ==
  IF size > MaxSects * Beats THEN MaxSects
  ELSE size \div Beats + (IF size % Beats = 0 THEN 0 ELSE 1)

(* A mount clears everything, a transfer on its way included.  The buffer  *)
(* and the memory keep the bytes of the load before; no load may count on  *)
(* them, so here they are garbage.                                         *)
RomMount(size) ==
  /\ pres' = FALSE
  /\ nsect' = SectorsOf(size)
  /\ sec' = 0 /\ idx' = 0
  /\ have' = FALSE /\ fetch' = FALSE /\ sd_rd' = FALSE
  /\ busy' = (size # 0)
  /\ buf' = Garbage /\ rom' = NothingCopied

RomAsks ==
  /\ busy /\ ~have /\ ~fetch
  /\ fetch' = TRUE /\ sd_rd' = TRUE
  /\ UNCHANGED <<sec, nsect, idx, busy, have, pres, buf, rom>>

(* ack, seen with a request up, takes the request down.  It is seen at the *)
(* grant: in Loader.tla no request comes up with the path in use.          *)
RomAcked ==
  /\ sd_rd' = FALSE
  /\ UNCHANGED <<sec, nsect, idx, busy, fetch, have, pres, buf, rom>>

(* The end of a transfer: the bytes went to the buffer whoever they were   *)
(* for, as long as ack was up; done counts only while one is awaited.      *)
RomDone(bytes) ==
  /\ buf' = bytes
  /\ IF busy /\ fetch
       THEN fetch' = FALSE /\ have' = TRUE /\ idx' = 0
       ELSE UNCHANGED <<fetch, have, idx>>
  /\ UNCHANGED <<sd_rd, sec, nsect, busy, pres, rom>>

RomCopies ==
  /\ busy /\ have /\ idx < Beats
  /\ rom' = [rom EXCEPT ![sec][idx] = buf]
  /\ idx' = idx + 1
  /\ UNCHANGED <<sd_rd, sec, nsect, busy, fetch, have, pres, buf>>

RomNextSector ==
  /\ busy /\ have /\ idx = Beats
  /\ have' = FALSE
  /\ IF sec + 1 = nsect
       THEN busy' = FALSE /\ pres' = TRUE /\ sec' = sec
       ELSE busy' = busy /\ pres' = pres /\ sec' = sec + 1
  /\ UNCHANGED <<sd_rd, nsect, idx, fetch, buf, rom>>
=============================================================================
