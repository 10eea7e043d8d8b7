----------------------------- MODULE SdTransfer -----------------------------
(***************************************************************************)
(* sd_rw.v at work: sd_card.v's request levels in front of it, one         *)
(* transfer after another, and a card that may answer badly or not at all  *)
(* a bounded number of times.                                              *)
(***************************************************************************)
EXTENDS SdRw

VARIABLES
  moved,   \* beats moved on the data lines since the request was taken
  bursts   \* times the data of the present write was put on the lines

vars == <<rstart, wstart, sector, rwRegs, rwCard, moved, bursts>>

(* sd_card.v: a level goes up with its sector when no transfer is on its   *)
(* way (a command of the MCU), and rdone takes both down.                  *)
RequestClock ==
  IF rdone
  THEN rstart' = FALSE /\ wstart' = FALSE /\ UNCHANGED sector
  ELSE \/ UNCHANGED <<rstart, wstart, sector>>
       \/ /\ ~rstart /\ ~wstart
          /\ sdcmd_stat = "READY"
          /\ sector' \in Lba
          /\ \/ rstart' = TRUE /\ UNCHANGED wstart
             \/ wstart' = TRUE /\ UNCHANGED rstart

(* What moved on the data lines in this clock. *)
BeatClock == (sddat_stat = "RDATA" \/ sddat_stat = "WDATA")
             /\ <<sddat_stat, ridx>>' # <<sddat_stat, ridx>>

HistoryClock ==
  /\ moved' = IF sdcmd_stat = "READY" THEN 0
              ELSE IF BeatClock THEN moved + 1 ELSE moved
  /\ bursts' = IF rdone \/ (sdcmd_stat = "READY" /\ ~wstart) THEN 0
               ELSE IF sddat_stat = "RWAIT" /\ sddat_stat' = "WDATA" THEN bursts + 1
               ELSE bursts

Init ==
  /\ RwInit
  /\ rstart = FALSE /\ wstart = FALSE
  /\ sector \in Lba
  /\ moved = 0
  /\ bursts = 0

Next == RwClock /\ RequestClock /\ HistoryClock

Spec == Init /\ [][Next]_vars

(* The clock runs, a command comes to its reply (sdcmd_ctrl.v counts to    *)
(* its timeout at the latest), and so does every wait on the data lines.   *)
CommandAnswered == Next /\ cmd = "run" /\ cmd' # "run"
DataAnswered    == Next /\ <<sddat_stat, ridx>>' # <<sddat_stat, ridx>>

FairSpec == Spec /\ WF_vars(Next) /\ WF_vars(CommandAnswered) /\ WF_vars(DataAnswered)

-----------------------------------------------------------------------------
(* The sector is complete when sd_card.v and the arbiter are told it is:   *)
(* rdone comes with exactly Beats beats moved for this request, whatever   *)
(* replies were bad and however often CMD17 was issued again before.       *)
DoneMeansMoved == rdone => moved = Beats

(* The initialisation that reaches READY has recognised the card, so that  *)
(* the address it sends counts in the card's unit (blocks for SDHC, bytes  *)
(* for the others), although CMD8 may time out seven times on a card that  *)
(* knows it.                                                               *)
AddressUnitFits ==
  sdcmd_stat \in {"CMD17", "READING", "CMD24", "WRITING"} =>
    /\ card_type = kind
    /\ sectoraddr = [lba |-> sector,
                     unit |-> IF kind = "SDHCv2" THEN "block" ELSE "byte"]

(* The card becomes ready although it may answer badly some of the time.   *)
BecomesReady == <>(sdcmd_stat = "READY")

(* From then on a read is answered, by rdone or by the card's silence, and *)
(* a write by rdone, whatever replies were bad and whenever the card was   *)
(* silent in the middle of a write.                                        *)
RequestsAreAnswered ==
  /\ rstart ~> (rdone \/ sddat_stat = "RTIMEOUT")
  /\ wstart ~> rdone

(* sd_rw.v:190-192, "Do we also want to retry a failed write? ... So for   *)
(* now i'd say: No retry on write!" and line 198, "don't retry write": the *)
(* data of a write request goes on the lines once.                         *)
NoRetryOnWrite == bursts <= 1

(* sd_rw.v:194, "retry read": a read whose data did not come is asked for  *)
(* again, so a card that is silent once and answers from then on ends it.  *)
RetryRead == sddat_stat = "RTIMEOUT" ~> rdone
=============================================================================
