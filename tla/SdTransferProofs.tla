--------------------------- MODULE SdTransferProofs ---------------------------
(***************************************************************************)
(* What sd_rw.v guarantees for any number of beats, any card and any bad   *)
(* replies and silences, of whatever number: a transfer that it reports is *)
(* whole (DoneMeansMoved), and while CMD8 has not been unanswered as often *)
(* as an old card leaves it, addresses count in the card's own unit        *)
(* (AddressUnitFits).                                                      *)
(***************************************************************************)
EXTENDS SdTransfer, TLAPS

Cards == {"SDv1", "SDv2", "SDHCv2"}
States == InitCmds \cup {"READY", "CMD17", "CMD24", "READING", "WRITING"}

(* In READY, READING and WRITING the command controller rests. *)
RwTypes ==
  /\ sdcmd_stat \in States
  /\ cmd \in {"idle", "run"} \cup Replies
  /\ sdcmd_stat \in {"READY", "READING", "WRITING"} => cmd = "idle"
  /\ ridx \in 0 .. Beats - 1

-----------------------------------------------------------------------------
(* Where the command state machine can go in a clock. *)
Follows(s, t) ==
  \/ t = s
  \/ s \in InitCmds /\ t \in InitCmds \cup {"READY"}
  \/ s = "READY" /\ t \in {"CMD17", "CMD24"}
  \/ s = "CMD17" /\ t = "READING"
  \/ s = "CMD24" /\ t = "WRITING"
  \/ s \in {"READING", "WRITING"} /\ sddat_stat = "RTIMEOUT" /\ t = "CMD17"
  \/ s \in {"READING", "WRITING"} /\ sddat_stat \in {"DONE", "WERR"} /\ t = "READY"

LEMMA CommandClockFollows ==
  ASSUME RwTypes, CommandClock
  PROVE  /\ sdcmd_stat' \in States
         /\ Follows(sdcmd_stat, sdcmd_stat')
         /\ cmd' \in {"idle", "run"} \cup Replies
         /\ sdcmd_stat' \in {"READY", "READING", "WRITING"} => cmd' = "idle"
<1> USE DEF RwTypes, States, InitCmds, Replies, Follows
<1>1. CASE TransferClock
  BY <1>1 DEF TransferClock, Issue
<1>2. CASE IdleCmdClock
  BY <1>2 DEF IdleCmdClock, Issue
<1>3. CASE RunCmdClock
  BY <1>3 DEF RunCmdClock, GoodReply
<1>4. CASE DoneCmdClock
  <2>1. CASE CMD0Done \/ CMD8Timeout
    BY <1>4, <2>1 DEF DoneCmdClock, CMD0Done, CMD8Timeout
  <2>2. CASE GoodDone
    BY <1>4, <2>2 DEF DoneCmdClock, GoodDone, AfterGood
  <2>3. CASE BadDone
    BY <1>4, <2>3 DEF DoneCmdClock, BadDone, AfterBad
  <2> QED BY <1>4, <2>1, <2>2, <2>3 DEF DoneCmdClock
<1> QED BY <1>1, <1>2, <1>3, <1>4 DEF CommandClock

LEMMA DataClockTypes ==
  ASSUME RwTypes, DataClock
  PROVE  ridx' \in 0 .. Beats - 1
<1> USE SdRwAssumption DEF RwTypes
<1>1. CASE DataHeld \/ DataWaits
  BY <1>1 DEF DataHeld, DataWaits
<1>2. CASE DataMoves
  BY <1>2 DEF DataMoves, ReadStart, ReadBeat, WriteStart, WriteBeat, DataSettles, DataTimeout, NextBeat
<1> QED BY <1>1, <1>2 DEF DataClock

LEMMA RwTypesKept == ASSUME RwTypes, RwClock PROVE RwTypes'
BY CommandClockFollows, DataClockTypes DEF RwTypes, RwClock

-----------------------------------------------------------------------------
(* The beats of the present request, as the data state machine stands.     *)
MovedNow ==
  CASE sddat_stat \in {"RWAIT", "RTIMEOUT"} -> 0
    [] sddat_stat \in {"RDATA", "WDATA"} -> ridx
    [] OTHER -> Beats

(* In READY what is left of the last transfer is cleared.  Elsewhere what  *)
(* has moved is what the data state machine says, also while a CMD17 is    *)
(* issued again, and before a transfer there is nothing to say.            *)
MovedInv ==
  /\ RwTypes
  /\ sdcmd_stat # "READY" => moved = MovedNow
  /\ sdcmd_stat \in InitCmds \cup {"CMD24"} => sddat_stat = "RWAIT"

LEMMA MovedKept ==
  ASSUME MovedInv, Next
  PROVE  MovedInv'
<1>1. RwTypes' /\ Follows(sdcmd_stat, sdcmd_stat') /\ sdcmd_stat \in States
  BY RwTypesKept, CommandClockFollows DEF MovedInv, Next, RwClock, RwTypes
<1>2. DataClock /\ HistoryClock
  BY DEF Next, RwClock
<1>3. CASE sdcmd_stat \notin {"WRITING", "CMD17", "READING"}
  <2>1. sddat_stat' = "RWAIT"
    BY <1>2, <1>3 DEF DataClock, DataHeld, DataWaits, DataMoves
  <2>2. moved' = 0
    BY <1>2, <1>3, <1>1 DEF HistoryClock, BeatClock, MovedInv, MovedNow, States
  <2> QED BY <1>1, <2>1, <2>2 DEF MovedInv, MovedNow
<1>4. CASE sdcmd_stat \in {"WRITING", "CMD17", "READING"}
  <2>1. moved = MovedNow /\ moved' = IF BeatClock THEN moved + 1 ELSE moved
    BY <1>2, <1>4 DEF MovedInv, HistoryClock
  <2>2. sdcmd_stat' \notin InitCmds \cup {"CMD24"}
    BY <1>1, <1>4 DEF Follows, InitCmds
  <2>3. ridx \in 0 .. Beats - 1 /\ Beats \in Nat \ {0}
    BY SdRwAssumption DEF MovedInv, RwTypes
  <2>4. moved' = MovedNow'
    <3>1. CASE DataWaits
      BY <2>1, <3>1 DEF DataWaits, BeatClock, MovedNow
    <3>2. CASE ReadStart \/ WriteStart \/ DataSettles \/ DataTimeout
      BY <2>1, <3>2 DEF ReadStart, WriteStart, DataSettles, DataTimeout, BeatClock, MovedNow
    <3>3. CASE ReadBeat \/ WriteBeat
      <4>1. sddat_stat \in {"RDATA", "WDATA"} /\ moved = ridx
        BY <2>1, <3>3 DEF ReadBeat, WriteBeat, MovedNow
      <4>2. CASE ridx = Beats - 1
        BY <2>1, <2>3, <3>3, <4>1, <4>2 DEF ReadBeat, WriteBeat, NextBeat, BeatClock, MovedNow
      <4>3. CASE ridx # Beats - 1
        BY <2>1, <2>3, <3>3, <4>1, <4>3 DEF ReadBeat, WriteBeat, NextBeat, BeatClock, MovedNow
      <4> QED BY <4>2, <4>3
    <3> QED BY <1>2, <1>4, <3>1, <3>2, <3>3 DEF DataClock, DataHeld, DataMoves
  <2> QED BY <1>1, <2>2, <2>4 DEF MovedInv
<1> QED BY <1>3, <1>4

(* sd_card.v and the arbiter are told of the end of a transfer when all    *)
(* the beats of a sector have moved for it.                                *)
THEOREM DoneMeansMovedHolds == Spec => []DoneMeansMoved
<1>1. Init => MovedInv
  BY SdRwAssumption DEF Init, RwInit, RwStart, MovedInv, RwTypes, MovedNow, States, InitCmds
<1>2. MovedInv /\ [Next]_vars => MovedInv'
  <2>1. ASSUME MovedInv, UNCHANGED vars PROVE MovedInv'
    BY <2>1 DEF vars, rwRegs, MovedInv, RwTypes, MovedNow
  <2> QED BY <2>1, MovedKept
<1>3. MovedInv => DoneMeansMoved
  BY DEF MovedInv, MovedNow, DoneMeansMoved, rdone
<1> QED BY <1>1, <1>2, <1>3, PTL DEF Spec

-----------------------------------------------------------------------------
(* The card is recognised in ACMD41.  Until then a card that knows CMD8 is *)
(* not taken for an old one, as each unanswered CMD8 was a bad reply and   *)
(* there were fewer than eight; and an old card answers no CMD8, so that   *)
(* only the eighth leaves the state.                                       *)
Unrecognised == {"CMD0", "CMD8", "CMD55_41", "ACMD41"}
Transfers == {"CMD17", "READING", "CMD24", "WRITING"}

Unanswered == IF sdcmd_stat = "CMD8" /\ cmd = "timeout" THEN cmd8_cnt + 1 ELSE cmd8_cnt

RecognisedInv ==
  /\ RwTypes
  /\ kind \in Cards /\ bad \in Nat /\ cmd8_cnt \in 0 .. 7
  /\ sdcmd_stat = "CMD0" => cmd8_cnt = 0 /\ ~sdv1_maybe
  /\ sdcmd_stat = "CMD8" => ~sdv1_maybe
  /\ kind # "SDv1" /\ sdcmd_stat \in {"CMD0", "CMD8"} => Unanswered <= bad
  /\ kind # "SDv1" /\ sdv1_maybe => bad >= 8
  /\ kind = "SDv1" => /\ sdcmd_stat \notin {"CMD0", "CMD8"} => sdv1_maybe
                      /\ sdcmd_stat = "CMD8" => cmd # "ok"
  /\ sdcmd_stat \notin Unrecognised /\ bad < 8 => card_type = kind

(* What a transfer is for is latched with it, and the request stands still. *)
RequestInv ==
  /\ sdcmd_stat \notin {"READY"} \cup Transfers => ~rstart /\ ~wstart
  /\ sdcmd_stat \in Transfers =>
       sectoraddr = [lba |-> sector,
                     unit |-> IF card_type = "SDHCv2" THEN "block" ELSE "byte"]

LEMMA RecognisedKept ==
  ASSUME RecognisedInv, RwClock
  PROVE  RecognisedInv'
<1>1. RwTypes' /\ CommandClock /\ kind' = kind
  BY RwTypesKept DEF RecognisedInv, RwClock
<1> USE DEF RecognisedInv, RwTypes, Unanswered, Unrecognised, States, InitCmds, Replies, Cards
<1>2. CASE TransferClock
  BY <1>1, <1>2 DEF TransferClock, Issue
<1>3. CASE IdleCmdClock
  BY <1>1, <1>3 DEF IdleCmdClock, Issue
<1>4. CASE RunCmdClock
  BY <1>1, <1>4 DEF RunCmdClock, GoodReply
<1>5. CASE DoneCmdClock
  <2>1. CASE CMD0Done
    BY <1>1, <1>5, <2>1 DEF DoneCmdClock, CMD0Done
  <2>2. CASE CMD8Timeout
    <3>1. sdcmd_stat = "CMD8" /\ cmd = "timeout" /\ cmd' = "idle" /\ UNCHANGED <<card_type, bad>>
      BY <1>5, <2>2 DEF DoneCmdClock, CMD8Timeout
    <3>2. sdv1_maybe' <=> cmd8_cnt = 7
      BY <2>2, <3>1, Zenon DEF CMD8Timeout
    <3>3. CASE cmd8_cnt = 7
      <4>1. sdcmd_stat' = "CMD55_41" /\ cmd8_cnt' = 0
        BY <2>2, <3>3 DEF CMD8Timeout
      <4> QED BY <1>1, <3>1, <3>2, <3>3, <4>1
    <3>4. CASE cmd8_cnt # 7
      <4>1. sdcmd_stat' = "CMD8" /\ cmd8_cnt' = cmd8_cnt + 1
        BY <2>2, <3>4 DEF CMD8Timeout
      <4> QED BY <1>1, <3>1, <3>2, <3>4, <4>1
    <3> QED BY <3>3, <3>4
  <2>3. CASE GoodDone
    <3>1. UNCHANGED <<cmd8_cnt, sdv1_maybe, bad>> /\ cmd' = "idle" /\ Accepts(cmd)
      BY <1>5, <2>3 DEF DoneCmdClock, GoodDone
    <3>2. CASE sdcmd_stat \in {"CMD8", "CMD55_41"}
      <4>1. sdcmd_stat' \in {"CMD55_41", "ACMD41"}
        BY <2>3, <3>2 DEF GoodDone, AfterGood
      <4>2. sdcmd_stat = "CMD8" => cmd = "ok"
        BY <3>1 DEF Accepts
      <4> QED BY <1>1, <3>1, <3>2, <4>1, <4>2
    <3>3. CASE sdcmd_stat = "ACMD41"
      <4>1. sdcmd_stat' = "CMD2"
        BY <2>3, <3>3 DEF GoodDone, AfterGood
      <4>2. bad < 8 => card_type' = kind
        BY <2>3, <3>3 DEF GoodDone
      <4> QED BY <1>1, <3>1, <3>3, <4>1, <4>2
    <3>4. CASE sdcmd_stat \notin {"CMD0", "CMD8", "CMD55_41", "ACMD41"}
      <4>1. sdcmd_stat' \notin Unrecognised /\ card_type' = card_type
        BY <1>5, <2>3, <3>4 DEF DoneCmdClock, GoodDone, AfterGood
      <4> QED BY <1>1, <3>1, <3>4, <4>1
    <3> QED BY <2>3, <3>2, <3>3, <3>4 DEF GoodDone
  <2>4. CASE BadDone
    BY <1>1, <1>5, <2>4 DEF DoneCmdClock, BadDone, AfterBad, Accepts
  <2> QED BY <1>5, <2>1, <2>2, <2>3, <2>4 DEF DoneCmdClock
<1> QED BY <1>1, <1>2, <1>3, <1>4, <1>5 DEF CommandClock

LEMMA RequestKept ==
  ASSUME RecognisedInv, RequestInv, Next
  PROVE  RequestInv'
<1>1. RwTypes /\ CommandClock /\ RequestClock
  BY DEF RecognisedInv, Next, RwClock
<1>2. sdcmd_stat \in Transfers => UNCHANGED sector
  BY <1>1 DEF RequestClock, Transfers
<1>3. sdcmd_stat \notin {"READY"} \cup Transfers => ~rstart' /\ ~wstart'
  BY <1>1 DEF RequestClock, RequestInv, Transfers, rdone
<1>4. Follows(sdcmd_stat, sdcmd_stat') /\ sdcmd_stat \in States
  BY <1>1, CommandClockFollows DEF RwTypes
<1>5. sdcmd_stat' \notin {"READY"} \cup Transfers => ~rstart' /\ ~wstart'
  BY <1>3, <1>4 DEF Follows, States, InitCmds, Transfers
<1>6. CASE sdcmd_stat = "READY" /\ sdcmd_stat' # "READY"
  <2>1. sectoraddr' = [lba |-> sector, unit |-> IF card_type = "SDHCv2" THEN "block" ELSE "byte"]
        /\ (rstart \/ wstart) /\ UNCHANGED card_type
    BY <1>1, <1>6 DEF CommandClock, TransferClock, IdleCmdClock, RunCmdClock, DoneCmdClock,
       RwTypes, InitCmds, Replies
  <2>2. UNCHANGED sector
    BY <1>1, <1>6, <2>1 DEF RequestClock, rdone
  <2> QED BY <1>5, <2>1, <2>2 DEF RequestInv
<1>7. CASE sdcmd_stat \in Transfers
  <2>1. UNCHANGED <<sectoraddr, card_type>>
    BY <1>1, <1>7 DEF CommandClock, TransferClock, IdleCmdClock, RunCmdClock, DoneCmdClock,
       CMD0Done, CMD8Timeout, GoodDone, BadDone, Transfers, InitCmds
  <2> QED BY <1>2, <1>5, <1>7, <2>1 DEF RequestInv
<1>8. CASE sdcmd_stat' \notin Transfers
  BY <1>5, <1>8 DEF RequestInv
<1> QED BY <1>4, <1>6, <1>7, <1>8 DEF Follows, States, InitCmds, Transfers

(* The address that is sent counts in the card's unit, whatever replies    *)
(* were bad, as long as there were not eight: of those CMD8 may have been  *)
(* all, and an SDHC card is then taken for an old one.                     *)
THEOREM AddressUnitFitsHolds == Spec => [](bad < 8 => AddressUnitFits)
<1>1. Init => RecognisedInv /\ RequestInv
  <2> SUFFICES ASSUME Init PROVE RecognisedInv /\ RequestInv
    OBVIOUS
  <2>1. PICK k \in Cards : RwStart("CMD0", "UNKNOWN", k)
    BY DEF Init, RwInit, Cards
  <2>2. RwTypes
    BY <2>1, SdRwAssumption DEF RwStart, RwTypes, States, InitCmds
  <2>3. RequestInv
    BY <2>1 DEF Init, RwStart, RequestInv, Transfers
  <2>4. /\ sdcmd_stat = "CMD0" /\ cmd8_cnt = 0 /\ ~sdv1_maybe
        /\ bad = 0 /\ kind \in Cards /\ cmd = "idle"
    BY <2>1 DEF RwStart
  <2> QED BY <2>2, <2>3, <2>4 DEF RecognisedInv, Unanswered, Unrecognised
<1>2. RecognisedInv /\ RequestInv /\ [Next]_vars => RecognisedInv' /\ RequestInv'
  <2>1. ASSUME RecognisedInv, RequestInv, UNCHANGED vars PROVE RecognisedInv' /\ RequestInv'
    BY <2>1 DEF vars, rwRegs, rwCard, RecognisedInv, RequestInv, RwTypes, Unanswered
  <2>2. ASSUME RecognisedInv, RequestInv, Next PROVE RecognisedInv' /\ RequestInv'
    BY <2>2, RecognisedKept, RequestKept DEF Next
  <2> QED BY <2>1, <2>2
<1>3. RecognisedInv /\ RequestInv => (bad < 8 => AddressUnitFits)
  BY DEF RecognisedInv, RequestInv, AddressUnitFits, Unrecognised, Transfers
<1> QED BY <1>1, <1>2, <1>3, PTL DEF Spec
=============================================================================
