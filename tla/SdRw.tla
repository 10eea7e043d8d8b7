-------------------------------- MODULE SdRw --------------------------------
(***************************************************************************)
(* sd_rw.v with its command controller sdcmd_ctrl.v: the SD host that      *)
(* initialises the card and reads or writes a sector.                      *)
(*                                                                         *)
(* CommandClock and DataClock are the two always blocks; a clock of the    *)
(* FPGA is their conjunction.  What is kept: both state machines with      *)
(* every transition, the retries, and what the card may answer.  What is   *)
(* abstracted: the bits of a command and of its answer are one "run" and   *)
(* one reply, a sector is Beats beats, and the CRC and the acknowledge     *)
(* token, which the code receives and does not look at, pass with the      *)
(* state before them (RCRC with RDATA, WCRC with WDATA, WACK with          *)
(* WWAITACK).  The timeouts (250 clocks of sdclk for a reply, 1000001 on   *)
(* the data lines) may happen whenever the card has not answered.          *)
(***************************************************************************)
EXTENDS Naturals

CONSTANTS
  Beats,      \* beats of a sector (512 bytes in the code)
  Lba,        \* sector numbers of the card
  NoLba,      \* sectoraddr before the first transfer
  MaxBad,     \* bound: replies that come late, broken or negative
  BadCmds,    \* the command states whose reply may be bad
  MaxSilent   \* bound: data timeouts

ASSUME SdRwAssumption ==
  /\ Beats \in Nat \ {0}
  /\ NoLba \notin Lba
  /\ MaxBad \in Nat /\ MaxSilent \in Nat

VARIABLES
  rstart, wstart,  \* inputs: the request levels of sd_card.v
  sector,          \* input: the sector requested
  sdcmd_stat,      \* the command state machine
  cmd8_cnt,        \* CMD8 timeouts so far, three bits
  sdv1_maybe,
  card_type,
  sectoraddr,      \* the address sent: the sector and the unit it counts in
  cmd,             \* sdcmd_ctrl.v: "idle", "run", or the reply at its done
  sddat_stat,      \* the data state machine
  ridx,            \* beats of the sector moved by it
  outen, outaddr,  \* a beat read from the card appears, and its number
  kind,            \* the card in the slot
  bad, silent      \* the bounds used up

rwRegs == <<sdcmd_stat, cmd8_cnt, sdv1_maybe, card_type, sectoraddr, cmd,
            sddat_stat, ridx, outen, outaddr>>
rwCard == <<kind, bad, silent>>

Replies == {"ok", "timeout", "syntaxe", "other"}

InitCmds == {"CMD0", "CMD8", "CMD55_41", "ACMD41", "CMD2", "CMD3", "CMD7",
             "CMD55_6", "ACMD6", "CMD16"}

rbusy == sdcmd_stat # "READY"
rdone == sdcmd_stat \in {"READING", "WRITING"} /\ sddat_stat = "DONE"

RwStart(stat, type, in_slot) ==
  /\ sdcmd_stat = stat
  /\ cmd8_cnt = 0
  /\ sdv1_maybe = FALSE
  /\ card_type = type
  /\ sectoraddr = [lba |-> NoLba, unit |-> "byte"]
  /\ cmd = "idle"
  /\ sddat_stat = "RWAIT"
  /\ ridx = 0
  /\ outen = FALSE
  /\ outaddr = 0
  /\ kind = in_slot
  /\ bad = 0
  /\ silent = 0

(* After the reset, with some card in the slot; and with one initialised. *)
RwInit == \E k \in {"SDv1", "SDv2", "SDHCv2"} : RwStart("CMD0", "UNKNOWN", k)
RwReady(k) == RwStart("READY", k, k)

-----------------------------------------------------------------------------
(* The command state machine. *)

(* set_cmd on an idle controller: the command starts to run. *)
Issue == cmd' = "run"

(* In READING and WRITING the data state machine decides. *)
TransferClock ==
  /\ sdcmd_stat \in {"READING", "WRITING"}
  /\ CASE sddat_stat = "RTIMEOUT" -> sdcmd_stat' = "CMD17" /\ Issue
       [] sddat_stat \in {"DONE", "WERR"} -> sdcmd_stat' = "READY" /\ UNCHANGED cmd
       [] OTHER -> UNCHANGED <<sdcmd_stat, cmd>>
  /\ UNCHANGED <<cmd8_cnt, sdv1_maybe, card_type, sectoraddr, bad>>

(* The controller is idle: an initialisation command is issued, a request  *)
(* is taken in READY (a read before a write), and in CMD17 and CMD24       *)
(* nothing happens.                                                        *)
IdleCmdClock ==
  /\ sdcmd_stat \notin {"READING", "WRITING"}
  /\ cmd = "idle"
  /\ \/ /\ sdcmd_stat \in InitCmds
        /\ Issue
        /\ UNCHANGED <<sdcmd_stat, sectoraddr>>
     \/ /\ sdcmd_stat = "READY"
        /\ rstart \/ wstart
        /\ Issue
        /\ sdcmd_stat' = IF rstart THEN "CMD17" ELSE "CMD24"
        /\ sectoraddr' = [lba |-> sector,
                          unit |-> IF card_type = "SDHCv2" THEN "block" ELSE "byte"]
     \/ /\ sdcmd_stat \in {"CMD17", "CMD24"} \/ (sdcmd_stat = "READY" /\ ~rstart /\ ~wstart)
        /\ UNCHANGED <<sdcmd_stat, sectoraddr, cmd>>
  /\ UNCHANGED <<cmd8_cnt, sdv1_maybe, card_type, bad>>

(* A card older than version 2 does not know CMD8 and stays silent. *)
GoodReply == IF sdcmd_stat = "CMD8" /\ kind = "SDv1" THEN "timeout" ELSE "ok"

(* The command is on its way, and then the reply is there. *)
RunCmdClock ==
  /\ sdcmd_stat \notin {"READING", "WRITING"}
  /\ cmd = "run"
  /\ \/ UNCHANGED <<cmd, bad>>
     \/ cmd' = GoodReply /\ UNCHANGED bad
     \/ /\ sdcmd_stat \in BadCmds
        /\ bad < MaxBad
        /\ bad' = bad + 1
        /\ cmd' \in Replies \ {GoodReply, "ok"}
  /\ UNCHANGED <<sdcmd_stat, cmd8_cnt, sdv1_maybe, card_type, sectoraddr>>

(* Where a clean reply leads, "other" being a reply that is clean but whose *)
(* argument says no: CMD8 and ACMD41 look at it, the others do not.         *)
Accepts(reply) ==
  IF sdcmd_stat \in {"CMD8", "ACMD41"} THEN reply = "ok"
  ELSE reply \in {"ok", "other"}

(* Broken variant: the branches of ACMD6 swapped. *)
AfterGoodLoops ==
  CASE sdcmd_stat = "CMD8"     -> "CMD55_41"
    [] sdcmd_stat = "CMD55_41" -> "ACMD41"
    [] sdcmd_stat = "ACMD41"   -> "CMD2"
    [] sdcmd_stat = "CMD2"     -> "CMD3"
    [] sdcmd_stat = "CMD3"     -> "CMD7"
    [] sdcmd_stat \in {"CMD7", "ACMD6"} -> "CMD55_6"
    [] sdcmd_stat = "CMD55_6"  -> "ACMD6"

AfterGood ==
  CASE sdcmd_stat = "CMD8"     -> "CMD55_41"
    [] sdcmd_stat = "CMD55_41" -> "ACMD41"
    [] sdcmd_stat = "ACMD41"   -> "CMD2"
    [] sdcmd_stat = "CMD2"     -> "CMD3"
    [] sdcmd_stat = "CMD3"     -> "CMD7"
    [] sdcmd_stat = "CMD7"     -> "CMD55_6"
    [] sdcmd_stat = "CMD55_6"  -> "ACMD6"
    [] sdcmd_stat = "ACMD6"    -> "CMD16"
    [] sdcmd_stat = "CMD16"    -> "READY"
    [] sdcmd_stat = "CMD17"    -> "READING"
    [] sdcmd_stat = "CMD24"    -> "WRITING"

AfterBad ==
  CASE sdcmd_stat = "ACMD41" -> "CMD55_41"
    [] sdcmd_stat = "ACMD6"  -> "CMD55_6"
    [] OTHER -> sdcmd_stat

(* CMD0 goes on whatever comes back. *)
CMD0Done ==
  /\ sdcmd_stat = "CMD0"
  /\ sdcmd_stat' = "CMD8"
  /\ cmd' = "idle"
  /\ UNCHANGED <<cmd8_cnt, sdv1_maybe, card_type>>

(* Broken variants: the counter read after its increment; a refused CMD17  *)
(* that is not issued again.                                               *)
CMD8GivesUpEarly ==
  /\ sdcmd_stat = "CMD8"
  /\ cmd = "timeout"
  /\ cmd8_cnt' = (cmd8_cnt + 1) % 8
  /\ sdv1_maybe' = (sdv1_maybe \/ cmd8_cnt' = 7)
  /\ sdcmd_stat' = IF cmd8_cnt' = 7 THEN "CMD55_41" ELSE "CMD8"
  /\ cmd' = "idle"
  /\ UNCHANGED card_type

BadDoneGivesUp ==
  /\ sdcmd_stat # "CMD0"
  /\ ~Accepts(cmd)
  /\ ~(sdcmd_stat = "CMD8" /\ cmd = "timeout")
  /\ sdcmd_stat' = AfterBad
  /\ cmd' = "idle"
  /\ UNCHANGED <<cmd8_cnt, sdv1_maybe, card_type>>

(* CMD8 unanswered for the eighth time means an old card, perhaps. *)
CMD8Timeout ==
  /\ sdcmd_stat = "CMD8"
  /\ cmd = "timeout"
  /\ cmd8_cnt' = (cmd8_cnt + 1) % 8
  /\ sdv1_maybe' = (sdv1_maybe \/ cmd8_cnt = 7)
  /\ sdcmd_stat' = IF cmd8_cnt = 7 THEN "CMD55_41" ELSE "CMD8"
  /\ cmd' = "idle"
  /\ UNCHANGED card_type

GoodDone ==
  /\ sdcmd_stat # "CMD0"
  /\ Accepts(cmd)
  /\ sdcmd_stat' = AfterGood
  /\ card_type' = IF sdcmd_stat # "ACMD41" THEN card_type
                  ELSE IF sdv1_maybe THEN "SDv1"
                  ELSE IF kind = "SDHCv2" THEN "SDHCv2" ELSE "SDv2"
  /\ cmd' = "idle"
  /\ UNCHANGED <<cmd8_cnt, sdv1_maybe>>

(* A bad reply: the initialisation tries again, CMD17 is issued again at   *)
(* once, CMD24 has no else branch.                                         *)
BadDone ==
  /\ sdcmd_stat # "CMD0"
  /\ ~Accepts(cmd)
  /\ ~(sdcmd_stat = "CMD8" /\ cmd = "timeout")
  /\ sdcmd_stat' = AfterBad
  /\ cmd' = IF sdcmd_stat = "CMD17" THEN "run" ELSE "idle"
  /\ UNCHANGED <<cmd8_cnt, sdv1_maybe, card_type>>

DoneCmdClock ==
  /\ sdcmd_stat \notin {"READING", "WRITING"}
  /\ cmd \in Replies
  /\ CMD0Done \/ CMD8Timeout \/ GoodDone \/ BadDone
  /\ UNCHANGED <<sectoraddr, bad>>

CommandClock == TransferClock \/ IdleCmdClock \/ RunCmdClock \/ DoneCmdClock

-----------------------------------------------------------------------------
(* The data state machine, which moves on the rising edges of sdclk. *)

DataQuiet == outen' = FALSE /\ UNCHANGED outaddr

(* Broken variants: the state of the last transfer is not cleared; a beat   *)
(* too many;                                               *)
DataNotCleared ==
  /\ sdcmd_stat \notin {"WRITING", "CMD17", "READING"}
  /\ UNCHANGED sddat_stat
  /\ ridx' = 0
  /\ DataQuiet
  /\ UNCHANGED silent

(* No transfer: the state machine is held in RWAIT. *)
DataHeld ==
  /\ sdcmd_stat \notin {"WRITING", "CMD17", "READING"}
  /\ sddat_stat' = "RWAIT"
  /\ ridx' = 0
  /\ DataQuiet
  /\ UNCHANGED silent

(* Between two edges of sdclk, while the card makes the host wait, and in  *)
(* DONE, RTIMEOUT and WERR, which have no case of their own.               *)
DataWaits ==
  /\ sdcmd_stat \in {"WRITING", "CMD17", "READING"}
  /\ DataQuiet
  /\ UNCHANGED <<sddat_stat, ridx, silent>>

(* The next beat, or the state after the last one. *)
NextBeat(after) ==
  IF ridx = Beats - 1
  THEN sddat_stat' = after /\ ridx' = 0
  ELSE sddat_stat' = sddat_stat /\ ridx' = ridx + 1

(* The card has a command to answer: it was sent, and it is not refused. *)
CardReads == sdcmd_stat = "READING" \/ (sdcmd_stat = "CMD17" /\ cmd = "run")

ReadStart ==
  /\ sddat_stat = "RWAIT"
  /\ CardReads
  /\ sddat_stat' = "RDATA"
  /\ ridx' = 0
  /\ DataQuiet
  /\ UNCHANGED silent

ReadBeat ==
  /\ sddat_stat = "RDATA"
  /\ NextBeat("RTAIL")
  /\ outen' = TRUE
  /\ outaddr' = ridx
  /\ UNCHANGED silent

WriteStart ==
  /\ sddat_stat = "RWAIT"
  /\ sdcmd_stat = "WRITING"
  /\ sddat_stat' = "WDATA"
  /\ ridx' = 0
  /\ outen' = FALSE
  /\ outaddr' = 0
  /\ UNCHANGED silent

(* Broken variant: the place lags the beat on the lines. *)
WriteBeatLags ==
  /\ sddat_stat = "WDATA"
  /\ NextBeat("WWAITACK")
  /\ outen' = FALSE
  /\ outaddr' = ridx
  /\ UNCHANGED silent

WriteBeat ==
  /\ sddat_stat = "WDATA"
  /\ NextBeat("WWAITACK")
  /\ outen' = FALSE
  /\ outaddr' = (ridx + 1) % Beats
  /\ UNCHANGED silent

(* The card acknowledges, ends its busy time, and the tail runs out. *)
DataSettles ==
  /\ \/ sddat_stat = "WWAITACK" /\ sddat_stat' = "WWAIT"
     \/ sddat_stat = "WWAIT" /\ sddat_stat' = "RTAIL"
     \/ sddat_stat = "RTAIL" /\ sddat_stat' = "DONE"
  /\ DataQuiet
  /\ UNCHANGED <<ridx, silent>>

(* The card stays silent for more than a million clocks of sdclk. *)
DataTimeout ==
  /\ silent < MaxSilent
  /\ silent' = silent + 1
  /\ \/ /\ sddat_stat = "RWAIT"
        /\ sdcmd_stat # "WRITING"
        /\ sddat_stat' = "RTIMEOUT"
     \/ sddat_stat \in {"WWAITACK", "WWAIT"} /\ sddat_stat' = "WERR"
  /\ DataQuiet
  /\ UNCHANGED ridx

DataMoves ==
  /\ sdcmd_stat \in {"WRITING", "CMD17", "READING"}
  /\ ReadStart \/ ReadBeat \/ WriteStart \/ WriteBeat \/ DataSettles \/ DataTimeout

DataClock == DataHeld \/ DataWaits \/ DataMoves

RwClock == CommandClock /\ DataClock /\ UNCHANGED kind
=============================================================================
