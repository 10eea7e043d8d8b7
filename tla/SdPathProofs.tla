----------------------------- MODULE SdPathProofs -----------------------------
(***************************************************************************)
(* The SD path from end to end, for any number of clients, sectors and     *)
(* beats, and any mix of users: no request is forgotten                    *)
(* (NoRequestForgotten); the clients alone are served with their own bytes *)
(* (ServesTheRequest, OwnBytesOnly, ServedDone); what the firmware reads   *)
(* arrives beat for beat (McuReadsItsSector), and what is written belongs  *)
(* where it goes (RightBytesWritten).                                      *)
(***************************************************************************)
EXTENDS SdPath, FiniteSetTheorems, WellFoundedInduction, TLAPS

(* The request the arbiter shows, the request levels of sd_rw.v, and       *)
(* whether sd_rw.v, and the whole path to it, is at rest.                  *)
Shown == a_rstart \cup a_wstart
Up    == rstart_int \/ wstart_int
Rests == sdcmd_stat = "READY"
Quiet == ~Up /\ Rests /\ dinb_we = NoBeat

Reads     == sdcmd_stat \in {"CMD17", "READING"}
WritesNow == sdcmd_stat \in {"CMD24", "WRITING"}

LEMMA Numbers == Beats \in Nat \ {0} /\ MinGap \in Nat /\ MinGap >= 3
BY SdPathAssumption

-----------------------------------------------------------------------------
(* sd_rw.v with a card that is ready and well.                             *)
CmdInv ==
  /\ Rests \/ Reads \/ WritesNow
  /\ cmd \in {"idle", "run", "ok"}
  /\ cmd = "idle" <=> sdcmd_stat \in {"READY", "READING", "WRITING"}

DataInv ==
  /\ silent = 0
  /\ ridx \in 0 .. Beats - 1
  /\ Rests => sddat_stat \in {"RWAIT", "DONE"}
  /\ sdcmd_stat = "CMD24" => sddat_stat = "RWAIT"
  /\ Reads => sddat_stat \in {"RWAIT", "RDATA", "RTAIL", "DONE"}
  /\ sdcmd_stat = "WRITING" =>
       sddat_stat \in {"RWAIT", "WDATA", "WWAITACK", "WWAIT", "RTAIL", "DONE"}
  /\ sddat_stat = "WDATA" => outaddr = ridx

(* A beat is on the outputs for the clock after it was read.               *)
OutInv ==
  louten => /\ Reads
            /\ \/ sddat_stat = "RDATA" /\ ridx > 0 /\ outaddr = ridx - 1
               \/ sddat_stat = "RTAIL" /\ outaddr = Beats - 1

RwInv == CmdInv /\ DataInv /\ OutInv

(* Where the command state machine goes in a clock.                        *)
Follows ==
  /\ Rests /\ ~Up => Rests'
  /\ Rests /\ rstart_int => sdcmd_stat' = "CMD17" /\ cmd' = "run"
  /\ Rests /\ ~rstart_int /\ wstart_int => sdcmd_stat' = "CMD24" /\ cmd' = "run"
  /\ Rests /\ Up => sectoraddr'.lba = lsector
  /\ ~Rests => sectoraddr' = sectoraddr
  /\ sdcmd_stat = "CMD17" => sdcmd_stat' \in {"CMD17", "READING"}
  /\ sdcmd_stat = "CMD24" => sdcmd_stat' \in {"CMD24", "WRITING"}
  /\ Rw!rdone => Rests'
  /\ sdcmd_stat \in {"READING", "WRITING"} /\ ~Rw!rdone => sdcmd_stat' = sdcmd_stat

LEMMA CommandKept ==
  ASSUME RwInv, Rw!CommandClock
  PROVE  CmdInv' /\ Follows
<1> USE DEF RwInv, CmdInv, Follows, Rests, Reads, WritesNow, Up
<1>1. CASE Rw!TransferClock
  <2>1. sddat_stat \notin {"RTIMEOUT", "WERR"}
    BY <1>1 DEF DataInv, Rw!TransferClock
  <2> QED BY <1>1, <2>1 DEF Rw!TransferClock, Rw!rdone
<1>2. CASE Rw!IdleCmdClock
  BY <1>2 DEF Rw!IdleCmdClock, Rw!Issue, Rw!InitCmds, Rw!rdone
<1>3. CASE Rw!RunCmdClock
  BY <1>3 DEF Rw!RunCmdClock, Rw!GoodReply, Rw!rdone
<1>4. CASE Rw!DoneCmdClock
  <2>1. cmd = "ok" /\ sdcmd_stat \in {"CMD17", "CMD24"}
    BY <1>4 DEF Rw!DoneCmdClock, Rw!Replies
  <2>2. Rw!GoodDone
    BY <1>4, <2>1 DEF Rw!DoneCmdClock, Rw!CMD0Done, Rw!CMD8Timeout, Rw!BadDone, Rw!Accepts
  <2> QED BY <1>4, <2>1, <2>2 DEF Rw!DoneCmdClock, Rw!GoodDone, Rw!AfterGood, Rw!rdone
<1> QED BY <1>1, <1>2, <1>3, <1>4 DEF Rw!CommandClock

-----------------------------------------------------------------------------
(* Beats moved, and beats of a read that have left sd_rw.v.                *)
MovedNow == CASE sddat_stat = "RWAIT" -> 0
              [] sddat_stat \in {"RDATA", "WDATA"} -> ridx
              [] OTHER -> Beats

Passed == IF louten THEN outaddr ELSE MovedNow

(* What the data state machine does in a clock of a read, *)
ReadMove ==
  /\ sddat_stat' \in {"RWAIT", "RDATA", "RTAIL", "DONE"}
  /\ sdcmd_stat = "CMD17" /\ cmd = "ok" /\ sddat_stat = "RWAIT" => sddat_stat' = "RWAIT"
  /\ sddat_stat = "DONE" => sddat_stat' = "DONE"
  /\ \/ ~louten' /\ MovedNow' = MovedNow
     \/ /\ louten' /\ sddat_stat = "RDATA" /\ outaddr' = ridx
        /\ MovedNow' = MovedNow + 1
        /\ \/ sddat_stat' = "RDATA" /\ ridx' = ridx + 1
           \/ sddat_stat' = "RTAIL" /\ ridx = Beats - 1

(* and of a write. *)
WriteMove ==
  /\ ~louten'
  /\ sddat_stat' \in {"RWAIT", "WDATA", "WWAITACK", "WWAIT", "RTAIL", "DONE"}
  /\ sddat_stat = "DONE" => sddat_stat' = "DONE"
  /\ sddat_stat' = "WDATA" => outaddr' = ridx'
  /\ MovedNow' = IF Writes THEN MovedNow + 1 ELSE MovedNow

LEMMA ReadMoves ==
  ASSUME RwInv, Rw!DataClock, Reads
  PROVE  silent' = 0 /\ ridx' \in 0 .. Beats - 1 /\ ReadMove
<1> USE Numbers DEF RwInv, DataInv, Reads, ReadMove
<1>1. CASE Rw!DataWaits
  BY <1>1 DEF Rw!DataWaits, Rw!DataQuiet, MovedNow
<1>2. CASE Rw!ReadStart
  BY <1>2 DEF Rw!ReadStart, Rw!CardReads, Rw!DataQuiet, MovedNow
<1>3. CASE Rw!ReadBeat
  <2>1. CASE ridx = Beats - 1
    BY <1>3, <2>1 DEF Rw!ReadBeat, Rw!NextBeat, MovedNow
  <2>2. CASE ridx # Beats - 1
    BY <1>3, <2>2 DEF Rw!ReadBeat, Rw!NextBeat, MovedNow
  <2> QED BY <2>1, <2>2
<1>4. CASE Rw!DataSettles
  BY <1>4 DEF Rw!DataSettles, Rw!DataQuiet, MovedNow
<1>5. ~Rw!DataHeld /\ ~Rw!WriteStart /\ ~Rw!WriteBeat /\ ~Rw!DataTimeout
  BY DEF Rw!DataHeld, Rw!WriteStart, Rw!WriteBeat, Rw!DataTimeout
<1> QED BY <1>1, <1>2, <1>3, <1>4, <1>5 DEF Rw!DataClock, Rw!DataMoves

LEMMA WriteMoves ==
  ASSUME RwInv, Rw!DataClock, sdcmd_stat = "WRITING"
  PROVE  silent' = 0 /\ ridx' \in 0 .. Beats - 1 /\ WriteMove
<1> USE Numbers DEF RwInv, DataInv, WriteMove
<1>1. CASE Rw!DataWaits
  BY <1>1 DEF Rw!DataWaits, Rw!DataQuiet, MovedNow, Writes
<1>2. CASE Rw!WriteStart
  BY <1>2 DEF Rw!WriteStart, MovedNow, Writes
<1>3. CASE Rw!WriteBeat
  <2>1. CASE ridx = Beats - 1
    BY <1>3, <2>1 DEF Rw!WriteBeat, Rw!NextBeat, MovedNow, Writes
  <2>2. CASE ridx # Beats - 1
    <3>1. ridx + 1 \in 0 .. Beats - 1 /\ (ridx + 1) % Beats = ridx + 1
      BY <2>2
    <3> QED BY <1>3, <2>2, <3>1 DEF Rw!WriteBeat, Rw!NextBeat, MovedNow, Writes
  <2> QED BY <2>1, <2>2
<1>4. CASE Rw!DataSettles
  BY <1>4 DEF Rw!DataSettles, Rw!DataQuiet, MovedNow, Writes
<1>5. ~Rw!DataHeld /\ ~Rw!ReadStart /\ ~Rw!ReadBeat /\ ~Rw!DataTimeout
  BY DEF Rw!DataHeld, Rw!ReadStart, Rw!ReadBeat, Rw!DataTimeout, Rw!CardReads
<1> QED BY <1>1, <1>2, <1>3, <1>4, <1>5 DEF Rw!DataClock, Rw!DataMoves

LEMMA HeldMoves ==
  ASSUME RwInv, Rw!DataClock, Rests \/ sdcmd_stat = "CMD24"
  PROVE  silent' = 0 /\ ridx' = 0 /\ sddat_stat' = "RWAIT" /\ ~louten' /\ MovedNow' = 0 /\ ~Writes
<1>1. Rw!DataHeld
  BY DEF Rw!DataClock, Rw!DataWaits, Rw!DataMoves, Rests
<1> QED BY <1>1 DEF Rw!DataHeld, Rw!DataQuiet, MovedNow, Writes, RwInv, DataInv, Rests

(* A read beat that left sd_rw.v is counted in the clock after.            *)
LEMMA PassedMoves ==
  ASSUME RwInv, Rw!DataClock, Reads
  PROVE  /\ Passed' = IF louten THEN Passed + 1 ELSE Passed
         /\ Passed \in 0 .. Beats
         /\ louten => Passed < Beats
         /\ Rw!rdone => Passed = Beats
<1> USE Numbers
<1>1. ReadMove /\ ridx \in 0 .. Beats - 1
  BY ReadMoves DEF RwInv, DataInv
<1>2. Passed' = MovedNow
  BY <1>1 DEF ReadMove, Passed, MovedNow
<1>3. MovedNow = (IF louten THEN outaddr + 1 ELSE MovedNow) /\ MovedNow \in 0 .. Beats
  BY <1>1 DEF RwInv, OutInv, MovedNow
<1>4. louten => outaddr \in 0 .. Beats - 1
  BY <1>1 DEF RwInv, OutInv
<1>5. Rw!rdone => ~louten /\ MovedNow = Beats
  BY DEF RwInv, OutInv, Rw!rdone, MovedNow
<1> QED BY <1>2, <1>3, <1>4, <1>5 DEF Passed

LEMMA RwKept == ASSUME RwInv, Rw!RwClock PROVE RwInv' /\ Follows
<1>1. CmdInv' /\ Follows
  BY CommandKept DEF Rw!RwClock
<1>2. Rw!DataClock /\ (Rests \/ Reads \/ WritesNow)
  BY DEF Rw!RwClock, RwInv, CmdInv
<1> USE Numbers DEF Rests, Reads, WritesNow
<1>3. CASE Rests \/ sdcmd_stat = "CMD24"
  <2>1. silent' = 0 /\ ridx' = 0 /\ sddat_stat' = "RWAIT" /\ ~louten'
    BY <1>2, <1>3, HeldMoves
  <2> QED BY <1>1, <2>1 DEF RwInv, DataInv, OutInv
<1>4. CASE Reads
  <2>1. silent' = 0 /\ ridx' \in 0 .. Beats - 1 /\ ReadMove
    BY <1>2, <1>4, ReadMoves
  <2>2. sddat_stat' = "DONE" \/ Reads'
    BY <1>1, <1>4, <2>1 DEF Follows, ReadMove, Rw!rdone
  <2>3. Rests' \/ Reads'
    BY <1>1, <1>4 DEF Follows
  <2>4. louten' => Reads'
    BY <1>1, <1>4, <2>1 DEF Follows, ReadMove, Rw!rdone
  <2>5. DataInv'
    BY <2>1, <2>2, <2>3 DEF ReadMove, DataInv
  <2>6. OutInv'
    <3>1. ridx \in Nat
      BY DEF RwInv, DataInv
    <3>2. louten' => \/ sddat_stat' = "RDATA" /\ ridx' = ridx + 1 /\ outaddr' = ridx
                     \/ sddat_stat' = "RTAIL" /\ outaddr' = Beats - 1
      BY <2>1 DEF ReadMove
    <3>3. ridx + 1 > 0 /\ ridx = (ridx + 1) - 1
      BY <3>1
    <3> QED BY <2>4, <3>2, <3>3 DEF OutInv
  <2> QED BY <1>1, <2>5, <2>6 DEF RwInv
<1>5. CASE sdcmd_stat = "WRITING"
  <2>1. silent' = 0 /\ ridx' \in 0 .. Beats - 1 /\ WriteMove
    BY <1>2, <1>5, WriteMoves
  <2>2. \/ sdcmd_stat' = "WRITING"
        \/ sddat_stat' = "DONE" /\ Rests'
    BY <1>1, <1>5, <2>1 DEF Follows, WriteMove, Rw!rdone
  <2> QED BY <1>1, <2>1, <2>2 DEF WriteMove, RwInv, DataInv, OutInv
<1> QED BY <1>2, <1>3, <1>4, <1>5

-----------------------------------------------------------------------------
(* Every step of the system is a clock of the FPGA, with the bytes of SPI  *)
(* that Timed allows in it; one that acknowledges is spi_task's.           *)
Timed(in, ack) ==
  /\ \/ gap = 0 /\ gap' = MinGap
     \/ in = Card!NoByte /\ ~ack /\ gap' = IF gap = 0 THEN 0 ELSE gap - 1
  /\ ack => TaskAcks

LEMMA StepIsClock ==
  ASSUME Next
  PROVE  \E in, ack : Fpga(in, ack) /\ Timed(in, ack)
<1> USE DEF Byte, NoByte, AckByte, OtherByte, Timed
<1>1. CASE QuietClock
  BY <1>1 DEF QuietClock
<1>2. CASE TaskStep
  <2>1. CASE TaskAcks
    <3>1. AckByte
      BY <2>1 DEF TaskAcks
    <3> QED BY <2>1, <3>1
  <2>2. CASE ~TaskAcks
    BY <1>2, <2>2 DEF TaskStep, TaskWakes, TaskReadsPending, TaskStatus, TaskFetchesMask,
       TaskReadsRequest, TaskReadsSector, TaskLocks, TaskCoreRw, TaskAddress, TaskPolls
  <2> QED BY <2>1, <2>2
<1>3. CASE OsdStep
  <2>1. CASE OsdAddress
    BY <2>1 DEF OsdAddress
  <2>2. CASE ~OsdAddress
    BY <1>3, <2>2 DEF OsdStep, OsdBegins, OsdLocks, OsdStatus, OsdReadsBusy, OsdCommand,
       OsdPolls, OsdSends, OsdReceives, OsdSize
  <2> QED BY <2>1, <2>2
<1> QED BY <1>1, <1>2, <1>3 DEF Next

(* The clocks of the parts. *)
LEMMA ClockParts ==
  ASSUME NEW in, NEW ack, Fpga(in, ack)
  PROVE  /\ Arb!Clock(c_rd, c_wr, c_sector, Rw!rbusy, Rw!rdone)
         /\ Rw!RwClock
         /\ ClientClock
         /\ Card!IrqClock(Shown # {}, int_ack)
         /\ Card!ByteClock(in)
         /\ Card!LevelClock(in, a_rstart # {}, a_wstart # {}, Rw!rdone)
         /\ Card!StateClock(in)
         /\ Card!BufferClock(in, louten, outaddr, Outbyte)
         /\ Card!AnswerClock(in, Shown, rsector, Rw!rbusy)
         /\ int_ack' = ack
         /\ sys_out' = IF ack THEN irq ELSE sys_out
BY DEF Fpga, Card!CardClock, Shown

-----------------------------------------------------------------------------
(* sd_arbiter.v as the path drives it: a request is shown for the owner,   *)
(* in its direction, until sd_rw.v is seen busy.                           *)
LEMMA GrantIsMember ==
  ASSUME NEW want \in SUBSET Client, want # {}
  PROVE  Arb!Grant(want) \in want
<1>1. want \in SUBSET Nat
  BY SdPathAssumption DEF Client
<1>2. \E c \in want : \A d \in want : c <= d
  <2>1. PICK c \in want : \A d \in want : <<d, c>> \notin OpToRel(<, Nat)
    BY <1>1, NatLessThanWellFounded, WFMin, Zenon
  <2>2. \A d \in want : ~(d < c)
    BY <1>1, <2>1 DEF OpToRel
  <2> QED BY <1>1, <2>2
<1> QED BY <1>2 DEF Arb!Grant

ArbInv ==
  /\ arb_state \in {"S_IDLE", "S_REQ", "S_XFER"}
  /\ owner \in Client
  /\ c_rd \subseteq Client /\ c_wr \subseteq Client
  /\ a_rstart # {} => a_rstart = {owner} /\ ~is_wr
  /\ a_wstart # {} => a_wstart = {owner} /\ is_wr
  /\ Shown # {} => arb_state = "S_REQ" /\ (Rests \/ sdcmd_stat \in {"CMD17", "CMD24"})

LEMMA ClientsStay ==
  ASSUME ArbInv, ClientClock, mix \in Mixes
  PROVE  c_rd' \subseteq Client /\ c_wr' \subseteq Client
<1>1. mix.clients \subseteq Client
  BY SdPathAssumption DEF Client
<1> QED BY <1>1 DEF ArbInv, ClientClock, NobodyAsks, Ask

LEMMA ArbKept ==
  ASSUME RwInv, ArbInv, mix \in Mixes, Next
  PROVE  RwInv' /\ ArbInv' /\ Follows
<1>1. PICK in, ack : Fpga(in, ack)
  BY StepIsClock
<1>2. Arb!Clock(c_rd, c_wr, c_sector, Rw!rbusy, Rw!rdone) /\ Rw!RwClock /\ ClientClock
  BY <1>1, ClockParts
<1>3. RwInv' /\ Follows
  BY <1>2, RwKept
<1>4. c_rd' \subseteq Client /\ c_wr' \subseteq Client
  BY <1>2, ClientsStay
<1>5. CASE Arb!IdleClock(c_rd, c_wr, c_sector, Rw!rbusy)
  <2>1. CASE ~Rw!rbusy /\ c_rd \cup c_wr # {}
    <3>1. Arb!Grant(c_rd \cup c_wr) \in Client
      BY <2>1, GrantIsMember DEF ArbInv
    <3> QED BY <1>3, <1>4, <1>5, <2>1, <3>1 DEF Arb!IdleClock, ArbInv, Shown
  <2>2. CASE ~(~Rw!rbusy /\ c_rd \cup c_wr # {})
    BY <1>3, <1>4, <1>5, <2>2 DEF Arb!IdleClock, ArbInv, Shown
  <2> QED BY <2>1, <2>2
<1>6. CASE Arb!ReqClock(Rw!rbusy)
  <2>1. Rests => Rests' \/ sdcmd_stat' \in {"CMD17", "CMD24"}
    BY <1>3 DEF Follows, Up
  <2> QED BY <1>3, <1>4, <1>6, <2>1 DEF Arb!ReqClock, ArbInv, Shown, Rw!rbusy, Rests
<1>7. CASE Arb!XferClock(Rw!rdone)
  BY <1>3, <1>4, <1>7 DEF Arb!XferClock, ArbInv, Shown
<1> QED BY <1>2, <1>5, <1>6, <1>7 DEF Arb!Clock

-----------------------------------------------------------------------------
(* The firmware: what each task holds, and what it last said, where it     *)
(* stands in its protocol.                                                 *)
TaskPcs == {"wait", "ack", "pending", "status", "mask", "request", "rsector",
            "lock", "core_rw", "address", "poll"}
OsdPcs == {"idle", "lock", "status", "busy", "command", "address", "poll", "data", "size"}

TaskTalks == task.pc \in {"pending", "mask", "request", "rsector", "address", "poll"}
OsdTalks  == osd.pc \in {"busy", "address", "poll", "data", "size"}

McuTypes ==
  /\ mix \in Mixes
  /\ gap \in 0 .. MinGap
  /\ byte_cnt \in 0 .. 2
  /\ task = [pc |-> task.pc, request |-> task.request, sector |-> task.sector]
  /\ task.pc \in TaskPcs
  /\ osd = [pc |-> osd.pc, op |-> osd.op, sector |-> osd.sector, n |-> osd.n]
  /\ osd.pc \in OsdPcs
  /\ osd.op \in {"read", "write", "insert"}
  /\ osd.n \in 0 .. Beats - 1
  /\ osd.n = 0 \/ osd.pc = "data"
  /\ osd.op = "insert" => osd.pc \in {"idle", "command", "address", "size"}
  /\ osd.op # "insert" => osd.pc # "size"

Holds ==
  /\ TaskTalks => spi_sem = "task"
  /\ OsdTalks => spi_sem = "osd"
  /\ task.pc \in {"core_rw", "address", "poll"} => sdc_sem = "task"
  /\ osd.op # "insert" /\ osd.pc \notin {"idle", "lock"} => sdc_sem = "osd"

OsdCommandIs == CASE osd.op = "read"   -> "MCU_READ"
                  [] osd.op = "write"  -> "MCU_WRITE"
                  [] osd.op = "insert" -> "INSERTED"

Said ==
  /\ task.pc = "mask" => command = "STATUS" /\ byte_cnt = 0
  /\ task.pc = "request" => command = "STATUS" /\ byte_cnt = 1
  /\ task.pc = "rsector" => command = "STATUS" /\ byte_cnt = 2
  /\ task.pc = "address" => command = "CORE_RW" /\ byte_cnt = 0
  /\ task.pc = "poll" => command = "CORE_RW" /\ byte_cnt > 0
  /\ osd.pc = "busy" => command = "STATUS" /\ byte_cnt = 0
  /\ osd.pc = "address" => command = OsdCommandIs /\ byte_cnt = 0
  /\ osd.pc \in {"poll", "data", "size"} => command = OsdCommandIs /\ byte_cnt > 0

McuInv == McuTypes /\ Holds /\ Said

LEMMA NoByteSaid ==
  ASSUME NoByte \/ AckByte \/ OtherByte, gap \in 0 .. MinGap
  PROVE  UNCHANGED <<command, byte_cnt>> /\ gap' \in 0 .. MinGap
BY Numbers DEF NoByte, AckByte, OtherByte, Fpga, Card!CardClock, Card!ByteClock, Card!NoByte

LEMMA StartSaid ==
  ASSUME NEW c, Byte(Card!Command(c))
  PROVE  command' = c /\ byte_cnt' = 0 /\ gap' \in 0 .. MinGap
BY Numbers DEF Byte, Fpga, Card!CardClock, Card!ByteClock, Card!Command

LEMMA MoreSaid ==
  ASSUME NEW v, Byte(Card!More(v)), byte_cnt \in 0 .. 2
  PROVE  /\ command' = command /\ gap' \in 0 .. MinGap
         /\ byte_cnt' \in 0 .. 2 /\ byte_cnt' > 0
         /\ byte_cnt = 0 => byte_cnt' = 1
         /\ byte_cnt = 1 => byte_cnt' = 2
BY Numbers DEF Byte, Fpga, Card!CardClock, Card!ByteClock, Card!More

LEMMA TaskKeepsMcu ==
  ASSUME McuInv, TaskStep, UNCHANGED <<osd, mix>>
  PROVE  McuInv'
<1> USE DEF McuInv, McuTypes, Holds, Said, TaskTalks, OsdTalks, OsdCommandIs, TaskPcs, OsdPcs,
        Begins, Keeps, Ends, Goes
<1>1. CASE TaskWakes
  BY <1>1, NoByteSaid DEF TaskWakes
<1>2. CASE TaskAcks
  BY <1>2, NoByteSaid DEF TaskAcks
<1>3. CASE TaskReadsPending
  BY <1>3, NoByteSaid DEF TaskReadsPending
<1>4. CASE TaskStatus
  BY <1>4, StartSaid DEF TaskStatus
<1>5. CASE TaskFetchesMask
  BY <1>5, MoreSaid DEF TaskFetchesMask
<1>6. CASE TaskReadsRequest
  BY <1>6, MoreSaid DEF TaskReadsRequest
<1>7. CASE TaskReadsSector
  BY <1>7, MoreSaid DEF TaskReadsSector
<1>8. CASE TaskLocks
  BY <1>8, NoByteSaid DEF TaskLocks
<1>9. CASE TaskCoreRw
  BY <1>9, StartSaid DEF TaskCoreRw
<1>10. CASE TaskAddress
  BY <1>10, MoreSaid DEF TaskAddress
<1>11. CASE TaskPolls
  BY <1>11, MoreSaid DEF TaskPolls
<1> QED BY <1>1, <1>2, <1>3, <1>4, <1>5, <1>6, <1>7, <1>8, <1>9, <1>10, <1>11 DEF TaskStep

LEMMA OsdKeepsMcu ==
  ASSUME McuInv, OsdStep, UNCHANGED <<task, mix>>
  PROVE  McuInv'
<1> USE Numbers DEF McuInv, McuTypes, Holds, Said, TaskTalks, OsdTalks, OsdCommandIs, TaskPcs,
        OsdPcs, Begins, Keeps, Ends, OsdGoes
<1>0. mix.ops \subseteq {"read", "write", "insert"}
  BY SdPathAssumption
<1>1. CASE OsdBegins
  BY <1>0, <1>1, NoByteSaid DEF OsdBegins
<1>2. CASE OsdLocks
  BY <1>2, NoByteSaid DEF OsdLocks
<1>3. CASE OsdStatus
  BY <1>3, StartSaid DEF OsdStatus
<1>4. CASE OsdReadsBusy
  BY <1>4, MoreSaid DEF OsdReadsBusy
<1>5. CASE OsdCommand
  BY <1>5, StartSaid DEF OsdCommand
<1>6. CASE OsdAddress
  BY <1>6, MoreSaid DEF OsdAddress
<1>7. CASE OsdPolls
  BY <1>7, MoreSaid DEF OsdPolls
<1>8. CASE OsdSends
  <2>1. osd.n \in 0 .. Beats - 1 /\ 0 \in 0 .. Beats - 1
    OBVIOUS
  <2>2. osd.n = Beats - 1 \/ osd.n + 1 \in 0 .. Beats - 1
    BY <2>1
  <2>3. /\ command' = command /\ gap' \in 0 .. MinGap
        /\ byte_cnt' \in 0 .. 2 /\ byte_cnt' > 0
    BY <1>8, MoreSaid DEF OsdSends
  <2> HIDE Numbers
  <2>4. CASE osd.n = Beats - 1
    BY <1>8, <2>1, <2>3, <2>4 DEF OsdSends
  <2>5. CASE osd.n # Beats - 1
    BY <1>8, <2>2, <2>3, <2>5 DEF OsdSends
  <2> QED BY <2>4, <2>5
<1>9. CASE OsdReceives
  <2>1. osd.n \in 0 .. Beats - 1 /\ 0 \in 0 .. Beats - 1
    OBVIOUS
  <2>2. osd.n < Beats - 1 => osd.n + 1 \in 0 .. Beats - 1
    BY <2>1
  <2>3. /\ command' = command /\ gap' \in 0 .. MinGap
        /\ byte_cnt' \in 0 .. 2 /\ byte_cnt' > 0
    BY <1>9, MoreSaid DEF OsdReceives
  <2> HIDE Numbers
  <2>4. CASE osd.n < Beats - 1
    BY <1>9, <2>2, <2>3, <2>4 DEF OsdReceives
  <2>5. CASE ~(osd.n < Beats - 1)
    BY <1>9, <2>1, <2>3, <2>5 DEF OsdReceives
  <2> QED BY <2>4, <2>5
<1>10. CASE OsdSize
  BY <1>10, MoreSaid DEF OsdSize
<1> QED BY <1>1, <1>2, <1>3, <1>4, <1>5, <1>6, <1>7, <1>8, <1>9, <1>10 DEF OsdStep

LEMMA McuKept == ASSUME McuInv, Next PROVE McuInv'
<1>1. CASE QuietClock
  BY <1>1, NoByteSaid DEF QuietClock, Next, McuInv, McuTypes, Holds, Said, TaskTalks, OsdTalks,
     OsdCommandIs
<1> QED BY <1>1, TaskKeepsMcu, OsdKeepsMcu DEF Next
-----------------------------------------------------------------------------
(* Three clocks at least lie between two bytes, so that none ends while a  *)
(* beat of the MCU's is on its way into the buffer, while sd_rw.v has not  *)
(* taken a request yet, or while an acknowledge is on its way.             *)
TimeInv ==
  /\ dinb_we # NoBeat => gap = MinGap
  /\ Up /\ Rests => gap >= MinGap - 1
  /\ int_ack => task.pc = "pending" /\ gap = MinGap

LEMMA StartsResting == ASSUME RwInv, Follows, ~Rests, Rests' PROVE Rw!rdone
BY DEF RwInv, CmdInv, Follows, Rests, Reads, WritesNow

LEMMA TimeKept ==
  ASSUME RwInv, McuInv, TimeInv, Follows, Next
  PROVE  TimeInv'
<1>1. PICK in, ack : Fpga(in, ack) /\ Timed(in, ack)
  BY StepIsClock
<1>2. gap \in 0 .. MinGap /\ MinGap \in Nat /\ MinGap >= 3
  BY Numbers DEF McuInv, McuTypes
<1>3. /\ Card!LevelClock(in, a_rstart # {}, a_wstart # {}, Rw!rdone)
      /\ Card!BufferClock(in, louten, outaddr, Outbyte)
      /\ int_ack' = ack
  BY <1>1, ClockParts
<1>4. in.kind = "more" => gap' = MinGap
  BY <1>1 DEF Timed, Card!NoByte
<1>5. (dinb_we # NoBeat => gap = MinGap)'
  BY <1>3, <1>4 DEF Card!BufferClock, Card!IsLater
<1>6. ASSUME Up', Rests' PROVE gap' >= MinGap - 1
  <2>1. CASE Card!Addresses(in)
    BY <1>2, <1>4, <2>1 DEF Card!Addresses, Card!IsByte
  <2>2. CASE dinb_we # NoBeat
    BY <1>1, <1>2, <2>2 DEF TimeInv, Timed
  <2>3. CASE ~Card!Addresses(in) /\ dinb_we = NoBeat
    <3>1. Up /\ ~Rw!rdone
      BY <1>3, <1>6, <2>3 DEF Card!LevelClock, Card!LastBeatIn, Up
    <3> QED BY <1>6, <3>1, StartsResting DEF Follows, Up, Rests
  <2> QED BY <2>1, <2>2, <2>3
<1>7. ASSUME int_ack' PROVE task'.pc = "pending" /\ gap' = MinGap
  <2>1. TaskAcks
    BY <1>1, <1>3, <1>7 DEF Timed
  <2> QED BY <2>1 DEF TaskAcks, Goes, AckByte, McuInv, McuTypes
<1> QED BY <1>5, <1>6, <1>7 DEF TimeInv

-----------------------------------------------------------------------------
(* A request that is shown, and that no interrupt announces any more: its  *)
(* acknowledge was seen, so spi_task is between its status command and the *)
(* end of its wait.                                                        *)
Announced == Shown # {} /\ startD /\ ~irq

ForgetInv ==
  /\ task.pc = "ack" => irq
  /\ task.pc = "pending" => sys_out
  /\ task.pc = "request" /\ Announced => data_out.mask # {}
  /\ task.pc = "rsector" /\ Announced => task.request # {}
  /\ task.pc = "poll" /\ Announced => Up /\ ~Card!Ready(data_out)
  /\ task.pc = "wait" => ~Announced

(* A request is announced by its rising edge and an interrupt.             *)
LEMMA Announces ==
  ASSUME NEW in, NEW ack, Fpga(in, ack), ~int_ack
  PROVE  /\ irq => irq'
         /\ Announced' => Announced
BY ClockParts DEF Card!IrqClock, Announced

(* The levels outlast the clock unless the transfer is done.               *)
LEMMA LevelsStay ==
  ASSUME NEW in, NEW ack, Fpga(in, ack), ~Rw!rdone, Up
  PROVE  Up'
BY ClockParts DEF Card!LevelClock, Up

LEMMA SilentAnswer ==
  ASSUME NEW ack, Fpga(Card!NoByte, ack)
  PROVE  data_out' = data_out
<1>1. Card!AnswerClock(Card!NoByte, Shown, rsector, Rw!rbusy)
  BY ClockParts
<1> QED BY <1>1 DEF Card!AnswerClock, Card!NoByte, Card!IsByte, Card!IsLater, Card!Addresses,
       Card!Sends

(* While spi_task is in a transaction, only it speaks.                     *)
LEMMA OsdIsSilent ==
  ASSUME McuInv, TaskTalks, OsdStep
  PROVE  NoByte
<1>1. spi_sem = "task"
  BY DEF McuInv, Holds
<1> QED BY <1>1 DEF OsdStep, OsdBegins, OsdLocks, OsdStatus, OsdReadsBusy, OsdCommand, OsdAddress,
       OsdPolls, OsdSends, OsdReceives, OsdSize, Begins, Keeps, Ends

(* The answers spi_task gets. *)
LEMMA MaskAnswer ==
  ASSUME NEW v, Byte(Card!More(v)), command = "STATUS", byte_cnt = 0
  PROVE  data_out' = Card!Mask(Shown)
<1>1. Card!AnswerClock(Card!More(v), Shown, rsector, Rw!rbusy)
  BY ClockParts DEF Byte
<1> QED BY <1>1 DEF Card!AnswerClock, Card!More, Card!IsByte, Card!IsLater, Card!Addresses,
       Card!Sends

LEMMA SectorAnswer ==
  ASSUME NEW v, Byte(Card!More(v)), command = "STATUS", byte_cnt = 1
  PROVE  data_out' = Card!SectorIs(rsector)
<1>1. Card!AnswerClock(Card!More(v), Shown, rsector, Rw!rbusy)
  BY ClockParts DEF Byte
<1> QED BY <1>1 DEF Card!AnswerClock, Card!More, Card!IsByte, Card!IsLater, Card!Addresses,
       Card!Sends

LEMMA AddressAnswer ==
  ASSUME NEW v, Byte(Card!More(v)), command = "CORE_RW", byte_cnt = 0
  PROVE  /\ data_out' = Card!Level(TRUE)
         /\ Shown # {} => Up'
<1>1. /\ Card!AnswerClock(Card!More(v), Shown, rsector, Rw!rbusy)
      /\ Card!LevelClock(Card!More(v), a_rstart # {}, a_wstart # {}, Rw!rdone)
  BY ClockParts DEF Byte
<1>2. Card!Addresses(Card!More(v))
  BY DEF Card!Addresses, Card!More, Card!IsByte
<1>3. data_out' = Card!Level(TRUE)
  BY <1>1 DEF Card!AnswerClock, Card!More, Card!IsByte, Card!IsLater, Card!Addresses, Card!Sends
<1> QED BY <1>1, <1>2, <1>3 DEF Card!LevelClock, Up, Shown

LEMMA PollAnswer ==
  ASSUME NEW v, Byte(Card!More(v)), command = "CORE_RW", byte_cnt > 0, byte_cnt \in 0 .. 2
  PROVE  data_out' = Card!Level(Up)
<1>1. Card!AnswerClock(Card!More(v), Shown, rsector, Rw!rbusy)
  BY ClockParts DEF Byte
<1> QED BY <1>1 DEF Card!AnswerClock, Card!More, Card!IsByte, Card!IsLater, Card!Addresses,
       Card!Sends, Up

LEMMA BusyIsNotReady == ASSUME Up PROVE ~Card!Ready(Card!Level(Up)) /\ ~Card!Ready(Card!Level(TRUE))
<1>1. Card!Level(Up).busy = Up /\ Card!Level(FALSE).busy = FALSE /\ Card!Level(TRUE).busy = TRUE
  BY DEF Card!Level
<1> QED BY <1>1 DEF Card!Ready

LEMMA ForgetKept ==
  ASSUME RwInv, ArbInv, McuInv, TimeInv, ForgetInv, Next
  PROVE  ForgetInv'
<1>1. PICK in, ack : Fpga(in, ack) /\ Timed(in, ack)
  BY StepIsClock
<1>2. int_ack => task.pc = "pending" /\ gap # 0
  BY Numbers DEF TimeInv
<1>3. ~int_ack => (irq => irq') /\ (Announced' => Announced)
  BY <1>1, Announces
<1>4. Announced => ~Rw!rdone
  BY DEF Announced, ArbInv, Rw!rdone, Rests
<1>5. Announced /\ Up => Up'
  BY <1>1, <1>4, LevelsStay
<1>6. task = [pc |-> task.pc, request |-> task.request, sector |-> task.sector]
  BY DEF McuInv, McuTypes
<1>7. sys_out' = IF ack THEN irq ELSE sys_out
  BY <1>1, ClockParts
<1>8. ack => TaskAcks
  BY <1>1 DEF Timed
<1> USE <1>6 DEF ForgetInv
<1>9. CASE QuietClock \/ (OsdStep /\ UNCHANGED task)
  <2>1. task.pc \in {"request", "poll"} => data_out' = data_out
    <3>1. CASE QuietClock
      BY <3>1, SilentAnswer DEF QuietClock, NoByte
    <3>2. CASE OsdStep
      BY <3>2, SilentAnswer, OsdIsSilent DEF TaskTalks, NoByte
    <3> QED BY <1>9, <3>1, <3>2
  <2>2. task' = task
    BY <1>9 DEF QuietClock
  <2>3. ~ack
    BY <1>8, <2>2 DEF TaskAcks, Goes
  <2> QED BY <1>2, <1>3, <1>5, <1>7, <2>1, <2>2, <2>3
<1>10. CASE TaskWakes
  BY <1>2, <1>3, <1>10 DEF TaskWakes, Goes
<1>11. CASE TaskAcks
  <2>1. sys_out'
    BY <1>11, ClockParts DEF TaskAcks, AckByte
  <2> QED BY <1>11, <2>1 DEF TaskAcks, Goes
<1>12. CASE TaskReadsPending
  BY <1>12 DEF TaskReadsPending, Goes
<1>13. CASE TaskStatus
  BY <1>13 DEF TaskStatus, Goes
<1>14. CASE TaskFetchesMask
  <2>1. data_out' = Card!Mask(Shown) /\ task'.pc = "request" /\ ~int_ack
    BY <1>2, <1>14, MaskAnswer DEF TaskFetchesMask, Goes, McuInv, Said
  <2> QED BY <1>3, <2>1 DEF Announced, Card!Mask
<1>15. CASE TaskReadsRequest
  BY <1>2, <1>3, <1>15 DEF TaskReadsRequest
<1>16. CASE TaskReadsSector
  BY <1>2, <1>3, <1>16 DEF TaskReadsSector
<1>17. CASE TaskLocks \/ TaskCoreRw
  BY <1>17 DEF TaskLocks, TaskCoreRw, Goes
<1>18. CASE TaskAddress
  <2>1. data_out' = Card!Level(TRUE) /\ (Shown # {} => Up') /\ task'.pc = "poll" /\ ~int_ack
    BY <1>2, <1>18, AddressAnswer DEF TaskAddress, McuInv, Said
  <2>2. ~Card!Ready(Card!Level(TRUE))
    BY DEF Card!Ready, Card!Level
  <2> QED BY <1>3, <2>1, <2>2 DEF Announced
<1>19. CASE TaskPolls
  <2>1. data_out' = Card!Level(Up) /\ ~int_ack /\ task.pc = "poll"
    BY <1>2, <1>19, PollAnswer DEF TaskPolls, McuInv, Said, McuTypes
  <2>2. CASE Card!Ready(data_out)
    BY <1>3, <1>19, <2>1, <2>2 DEF TaskPolls, Goes
  <2>3. CASE ~Card!Ready(data_out)
    <3>1. task' = task
      BY <1>19, <2>3 DEF TaskPolls
    <3>2. Announced' => Up' /\ ~Card!Ready(data_out')
      BY <1>3, <1>5, <2>1, BusyIsNotReady
    <3> QED BY <2>1, <3>1, <3>2
  <2> QED BY <2>2, <2>3
<1> QED BY <1>9, <1>10, <1>11, <1>12, <1>13, <1>14, <1>15, <1>16, <1>17, <1>18, <1>19
     DEF Next, TaskStep, QuietClock

-----------------------------------------------------------------------------
(* The invariants that hold for every mix of users.                        *)
PathInv == RwInv /\ ArbInv /\ McuInv /\ TimeInv /\ ForgetInv

LEMMA PathStarts == Init => PathInv
<1> SUFFICES ASSUME Init PROVE PathInv
  OBVIOUS
<1> USE Numbers DEF Init
<1>1. RwInv
  BY DEF Rw!RwReady, Rw!RwStart, RwInv, CmdInv, DataInv, OutInv, Rests, Reads, WritesNow
<1>2. ArbInv
  BY SdPathAssumption DEF Arb!Init, ArbInv, Shown, Client
<1>3. McuInv
  BY DEF McuInv, McuTypes, Holds, Said, TaskTalks, OsdTalks, TaskPcs, OsdPcs, Card!CardInit
<1>4. TimeInv /\ ForgetInv
  BY DEF Card!CardInit, Arb!Init, TimeInv, ForgetInv, Announced, Shown, Up
<1> QED BY <1>1, <1>2, <1>3, <1>4 DEF PathInv

LEMMA PathKept == ASSUME PathInv, Next PROVE PathInv'
<1>1. RwInv' /\ ArbInv' /\ Follows
  BY ArbKept DEF PathInv, McuInv, McuTypes
<1> QED BY <1>1, McuKept, TimeKept, ForgetKept DEF PathInv

LEMMA PathStutters == ASSUME PathInv, UNCHANGED vars PROVE PathInv'
<1> USE DEF vars, arbVars, cardVars, rwVars, sysVars, clientVars, mcuVars, PathInv
<1>1. RwInv'
  BY DEF RwInv, CmdInv, DataInv, OutInv, Rests, Reads, WritesNow
<1>2. ArbInv'
  BY DEF ArbInv, Rests, Shown
<1>3. McuInv'
  BY DEF McuInv, McuTypes, Holds, Said, TaskTalks, OsdTalks, OsdCommandIs
<1>4. TimeInv' /\ ForgetInv'
  BY DEF TimeInv, ForgetInv, Announced, Shown, Up, Rests, Card!Ready, Card!Level
<1> QED BY <1>1, <1>2, <1>3, <1>4

LEMMA PathHolds == Spec => []PathInv
<1>1. PathInv /\ [Next]_vars => PathInv'
  BY PathKept, PathStutters
<1> QED BY <1>1, PathStarts, PTL DEF Spec

(* A request shown to the MCU whose interrupt is down is one that spi_task *)
(* is on its way to: no request waits for an interrupt that never comes.   *)
THEOREM NoRequestForgottenHolds == Spec => []NoRequestForgotten
<1>1. PathInv => NoRequestForgotten
  BY DEF PathInv, ForgetInv, Announced, Shown, NoRequestForgotten
<1> QED BY <1>1, PathHolds, PTL
-----------------------------------------------------------------------------
(* The clients alone.  The OSD's task never starts, so the MCU says only   *)
(* STATUS and CORE_RW.                                                     *)
AloneMcu ==
  /\ osd.pc = "idle"
  /\ command \in {"none", "STATUS", "CORE_RW"}
  /\ dinb_we = NoBeat
  /\ task.pc \in {"address", "poll"} => state = "CORE_IO"

LEMMA OsdRests == ASSUME ClientsAlone, AloneMcu PROVE ~OsdStep
BY DEF ClientsAlone, AloneMcu, OsdStep, OsdBegins, OsdLocks, OsdStatus, OsdReadsBusy, OsdCommand,
   OsdAddress, OsdPolls, OsdSends, OsdReceives, OsdSize

(* Only TaskAddress addresses a sector. *)
LEMMA OthersDoNotAddress ==
  ASSUME ClientsAlone, AloneMcu, McuInv, Next, ~TaskAddress
  PROVE  \E in, ack : Fpga(in, ack) /\ ~Card!Addresses(in)
<1>0. /\ ~Card!Addresses(Card!NoByte)
      /\ \A c : ~Card!Addresses(Card!Command(c))
  BY DEF Card!Addresses, Card!IsByte, Card!NoByte, Card!Command
<1>1. CASE QuietClock
  BY <1>0, <1>1 DEF QuietClock, NoByte
<1>2. CASE TaskWakes \/ TaskAcks \/ TaskReadsPending \/ TaskLocks
  BY <1>0, <1>2 DEF TaskWakes, TaskAcks, TaskReadsPending, TaskLocks, NoByte, AckByte, OtherByte
<1>3. CASE TaskStatus \/ TaskCoreRw
  BY <1>0, <1>3 DEF TaskStatus, TaskCoreRw, Byte
<1> USE DEF Byte, Card!Addresses, Card!IsByte
<1>4. CASE TaskFetchesMask \/ TaskReadsRequest
  BY <1>4 DEF TaskFetchesMask, TaskReadsRequest, McuInv, Said
<1>5. CASE TaskReadsSector
  <2>1. command = "STATUS"
    BY <1>5 DEF TaskReadsSector, McuInv, Said
  <2> QED BY <1>5, <2>1 DEF TaskReadsSector
<1>6. CASE TaskPolls
  <2>1. command = "CORE_RW" /\ byte_cnt # 0
    BY <1>6 DEF TaskPolls, McuInv, Said
  <2> QED BY <1>6, <2>1 DEF TaskPolls
<1> QED BY <1>1, <1>2, <1>3, <1>4, <1>5, <1>6, OsdRests DEF Next, TaskStep

LEMMA StateStays ==
  ASSUME NEW in, NEW ack, Fpga(in, ack), AloneMcu, in.kind # "start"
  PROVE  state' = state
<1>1. /\ ~Card!LastBeatIn /\ ~Card!Starts(in, "CORE_RW") /\ ~Card!Starts(in, "MCU_READ")
      /\ ~Card!IsByte(in, "MCU_WRITE", 0) /\ ~Card!IsLater(in, "MCU_READ")
  BY DEF AloneMcu, Card!LastBeatIn, Card!IsLater, Card!IsByte, Card!Starts
<1>2. Card!StateClock(in)
  BY ClockParts
<1> QED BY <1>1, <1>2 DEF Card!StateClock

LEMMA AloneMcuKept ==
  ASSUME ClientsAlone, AloneMcu, McuInv, Next
  PROVE  AloneMcu' /\ ClientsAlone'
<1>1. ~OsdStep
  BY OsdRests
<1>2. osd' = osd /\ mix' = mix
  BY <1>1 DEF Next, QuietClock
<1>3. PICK in, ack : Fpga(in, ack)
  BY StepIsClock
<1>4. Card!BufferClock(in, louten, outaddr, Outbyte)
  BY <1>3, ClockParts
<1>5. dinb_we' = NoBeat
  BY <1>4 DEF AloneMcu, Card!BufferClock, Card!IsLater
<1>6. /\ NoByte \/ AckByte \/ OtherByte => state' = state
      /\ \A v : Byte(Card!More(v)) => state' = state
  BY StateStays DEF NoByte, AckByte, OtherByte, Byte, Card!NoByte, Card!More
<1> USE DEF AloneMcu, Goes
<1>7. task = [pc |-> task.pc, request |-> task.request, sector |-> task.sector] /\ byte_cnt \in 0 .. 2
      /\ gap \in 0 .. MinGap
  BY DEF McuInv, McuTypes
<1>8. CASE QuietClock
  BY <1>2, <1>5, <1>6, <1>7, <1>8, NoByteSaid DEF QuietClock, ClientsAlone
<1>9. CASE TaskWakes \/ TaskAcks \/ TaskReadsPending \/ TaskLocks
  BY <1>2, <1>5, <1>6, <1>7, <1>9, NoByteSaid DEF TaskWakes, TaskAcks, TaskReadsPending, TaskLocks,
     ClientsAlone
<1>10. CASE TaskStatus
  BY <1>2, <1>5, <1>7, <1>10, StartSaid DEF TaskStatus, ClientsAlone
<1>11. CASE TaskCoreRw
  <2>1. Card!StateClock(Card!Command("CORE_RW"))
    BY <1>11, ClockParts DEF TaskCoreRw, Byte
  <2>2. state' = "CORE_IO"
    BY <2>1 DEF Card!StateClock, Card!Starts, Card!Command, Card!IsLater, Card!IsByte
  <2> QED BY <1>2, <1>5, <2>2, <1>7, <1>11, StartSaid DEF TaskCoreRw, ClientsAlone
<1>12. CASE TaskFetchesMask \/ TaskReadsRequest \/ TaskReadsSector
  BY <1>2, <1>5, <1>6, <1>7, <1>12, MoreSaid DEF TaskFetchesMask, TaskReadsRequest, TaskReadsSector,
     ClientsAlone
<1>13. CASE TaskAddress
  BY <1>2, <1>5, <1>6, <1>7, <1>13, MoreSaid DEF TaskAddress, ClientsAlone
<1>14. CASE TaskPolls
  BY <1>2, <1>5, <1>6, <1>7, <1>14, MoreSaid DEF TaskPolls, ClientsAlone
<1> QED BY <1>1, <1>8, <1>9, <1>10, <1>11, <1>12, <1>13, <1>14 DEF Next, TaskStep

-----------------------------------------------------------------------------
(* The lease and the transfer, as the clients see them: a transfer is      *)
(* under way exactly while the levels are up, for the sector and in the    *)
(* direction the arbiter granted, from the clock after sd_rw.v takes it to *)
(* its rdone in S_XFER, and spi_task polls all that time.                  *)
LevelsInv ==
  /\ Up => /\ arb_state # "S_IDLE"
           /\ rstart_int <=> ~is_wr
           /\ wstart_int <=> is_wr
           /\ lsector = <<owner, rsector>>
           /\ task.pc = "poll" /\ ~Card!Ready(data_out)
  /\ ~Up => Rests
  /\ Reads => rstart_int
  /\ WritesNow => wstart_int
  /\ ~Rests => sectoraddr.lba = lsector

LeaseInv ==
  /\ arb_state = "S_XFER" => ~Rests /\ owner \notin c_rd \cup c_wr
  /\ arb_state = "S_REQ" /\ ~Rests => cmd = "run" /\ sddat_stat = "RWAIT" /\ ~louten
  /\ c_sector \in [Client -> Sector]
  /\ arb_state # "S_IDLE" => rsector = c_sector[owner]

(* What spi_task found in the answers to its status command is the lease   *)
(* that waits, which cannot end before spi_task has served it.             *)
Waits == arb_state = "S_REQ" /\ Shown # {} /\ ~Up

RequestInv ==
  /\ task.pc = "request" /\ data_out.mask # {} => Waits /\ data_out.mask = {owner}
  /\ task.pc = "rsector" /\ task.request # {} =>
       Waits /\ task.request = {owner} /\ data_out.sector = rsector
  /\ task.pc \in {"lock", "core_rw", "address"} =>
       Waits /\ task.request = {owner} /\ task.sector = rsector

ServeInv == AloneMcu /\ LevelsInv /\ LeaseInv /\ RequestInv

(* A client's sector stays while it is at work, and an acknowledged client *)
(* asks for nothing.                                                       *)
LEMMA AtWorkStays ==
  ASSUME ClientClock, NEW c \in Client, AtWork(c), mix \in Mixes, c_sector \in [Client -> Sector]
  PROVE  /\ c_sector'[c] = c_sector[c]
         /\ c \in Arb!c_ack => c \notin c_rd' \cup c_wr'
BY DEF ClientClock, NobodyAsks, Ask

LEMMA SectorsStay ==
  ASSUME ClientClock, mix \in Mixes, c_sector \in [Client -> Sector]
  PROVE  c_sector' \in [Client -> Sector]
<1>1. mix.sectors \subseteq Sector
  BY SdPathAssumption
<1> QED BY <1>1 DEF ClientClock, NobodyAsks, Ask

(* A clock in which nothing is addressed.                                  *)
LEMMA LevelsFall ==
  ASSUME NEW in, NEW ack, Fpga(in, ack), ~Card!Addresses(in), dinb_we = NoBeat,
         command \notin {"MCU_WRITE"}
  PROVE  /\ rstart_int' <=> rstart_int /\ ~Rw!rdone
         /\ wstart_int' <=> wstart_int /\ ~Rw!rdone
         /\ lsector' = lsector
<1>1. Card!LevelClock(in, a_rstart # {}, a_wstart # {}, Rw!rdone)
  BY ClockParts
<1> QED BY <1>1 DEF Card!LevelClock, Card!LastBeatIn, Card!IsByte

(* What the arbiter does while it holds the path.                          *)
LEMMA LeaseClock ==
  ASSUME Arb!Clock(c_rd, c_wr, c_sector, Rw!rbusy, Rw!rdone), ArbInv
  PROVE  /\ arb_state = "S_IDLE" => arb_state' \in {"S_IDLE", "S_REQ"}
         /\ arb_state = "S_IDLE" /\ arb_state' = "S_REQ" =>
              Rests /\ owner' \in c_rd \cup c_wr /\ rsector' = c_sector[owner']
         /\ arb_state = "S_REQ" => /\ arb_state' = IF Rests THEN "S_REQ" ELSE "S_XFER"
                                   /\ Rests => Shown' = {owner}
         /\ arb_state = "S_XFER" => arb_state' = IF Rw!rdone THEN "S_IDLE" ELSE "S_XFER"
         /\ arb_state # "S_IDLE" => UNCHANGED <<owner, rsector, is_wr>>
         /\ c_done' = IF arb_state = "S_XFER" /\ Rw!rdone THEN {owner} ELSE {}
<1> USE DEF Arb!Clock, Rw!rbusy, Rests, Shown
<1>1. CASE Arb!IdleClock(c_rd, c_wr, c_sector, Rw!rbusy)
  <2>1. CASE ~Rw!rbusy /\ c_rd \cup c_wr # {}
    <3>1. Arb!Grant(c_rd \cup c_wr) \in c_rd \cup c_wr
      BY <2>1, GrantIsMember DEF ArbInv
    <3> QED BY <1>1, <2>1, <3>1 DEF Arb!IdleClock
  <2>2. CASE ~(~Rw!rbusy /\ c_rd \cup c_wr # {})
    BY <1>1, <2>2 DEF Arb!IdleClock
  <2> QED BY <2>1, <2>2
<1>2. CASE Arb!ReqClock(Rw!rbusy)
  BY <1>2 DEF Arb!ReqClock
<1>3. CASE Arb!XferClock(Rw!rdone)
  BY <1>3 DEF Arb!XferClock
<1> QED BY <1>1, <1>2, <1>3

(* A step other than TaskAddress keeps spi_task in its poll while the      *)
(* levels are up.                                                          *)
LEMMA PollGoesOn ==
  ASSUME ClientsAlone, AloneMcu, McuInv, Next, Up, Up', task.pc = "poll", ~Card!Ready(data_out)
  PROVE  task'.pc = "poll" /\ ~Card!Ready(data_out')
<1>1. CASE QuietClock
  BY <1>1, SilentAnswer DEF QuietClock, NoByte
<1>2. CASE TaskStep
  <2>1. TaskPolls
    BY <1>2 DEF TaskStep, TaskWakes, TaskAcks, TaskReadsPending, TaskStatus, TaskFetchesMask,
       TaskReadsRequest, TaskReadsSector, TaskLocks, TaskCoreRw, TaskAddress
  <2>2. data_out' = Card!Level(Up)
    BY <2>1, PollAnswer DEF TaskPolls, McuInv, Said, McuTypes
  <2> QED BY <2>1, <2>2, BusyIsNotReady DEF TaskPolls
<1> QED BY <1>1, <1>2, OsdRests DEF Next

(* TaskAddress starts the transfer of the lease that waits.                *)
LEMMA AddressServes ==
  ASSUME PathInv, ServeInv, TaskAddress
  PROVE  /\ rstart_int' <=> ~is_wr
         /\ wstart_int' <=> is_wr
         /\ lsector' = <<owner, rsector>>
         /\ task'.pc = "poll" /\ ~Card!Ready(data_out')
<1>1. Waits /\ task.request = {owner} /\ task.sector = rsector
  BY DEF TaskAddress, ServeInv, RequestInv
<1>2. Drive = owner
  BY <1>1, FS_Singleton DEF Drive
<1>3. Byte(Card!More(<<owner, rsector>>)) /\ command = "CORE_RW" /\ byte_cnt = 0
  BY <1>1, <1>2 DEF TaskAddress, PathInv, McuInv, Said
<1>4. Card!LevelClock(Card!More(<<owner, rsector>>), a_rstart # {}, a_wstart # {}, Rw!rdone)
  BY <1>3, ClockParts DEF Byte
<1>5. Card!Addresses(Card!More(<<owner, rsector>>))
  BY <1>3 DEF Card!Addresses, Card!IsByte, Card!More
<1>6. (a_rstart # {} <=> ~is_wr) /\ (a_wstart # {} <=> is_wr)
  BY <1>1 DEF Waits, Shown, PathInv, ArbInv
<1>7. ~rstart_int /\ ~wstart_int /\ ~Card!LastBeatIn
  BY <1>1 DEF Waits, Up, ServeInv, AloneMcu, Card!LastBeatIn
<1>8. (rstart_int' <=> ~is_wr) /\ (wstart_int' <=> is_wr)
  BY <1>3, <1>4, <1>5, <1>6, <1>7 DEF Card!LevelClock
<1>9. lsector' = <<owner, rsector>>
  BY <1>4, <1>5 DEF Card!LevelClock, Card!More
<1>10. data_out' = Card!Level(TRUE)
  BY <1>3, AddressAnswer
<1>11. task'.pc = "poll"
  BY DEF TaskAddress, PathInv, McuInv, McuTypes
<1>12. ~Card!Ready(Card!Level(TRUE))
  BY DEF Card!Ready, Card!Level
<1> QED BY <1>8, <1>9, <1>10, <1>11, <1>12
LEMMA LevelsKept ==
  ASSUME PathInv, ServeInv, ClientsAlone, Next
  PROVE  LevelsInv'
<1>1. RwInv' /\ Follows
  BY ArbKept DEF PathInv, McuInv, McuTypes
<1>2. PICK in, ack : Fpga(in, ack)
  BY StepIsClock
<1>3. Arb!Clock(c_rd, c_wr, c_sector, Rw!rbusy, Rw!rdone) /\ ArbInv
  BY <1>2, ClockParts DEF PathInv
<1> USE DEF Rests, Reads, WritesNow
<1>4. CASE TaskAddress
  <2>1. /\ rstart_int' <=> ~is_wr
        /\ wstart_int' <=> is_wr
        /\ lsector' = <<owner, rsector>>
        /\ task'.pc = "poll" /\ ~Card!Ready(data_out')
    BY <1>4, AddressServes
  <2>2. Waits
    BY <1>4 DEF TaskAddress, ServeInv, RequestInv
  <2>3. Rests /\ Rests'
    BY <1>1, <2>2 DEF Waits, ServeInv, LevelsInv, Follows
  <2>4. arb_state' = "S_REQ" /\ UNCHANGED <<owner, rsector, is_wr>>
    BY <1>3, <2>2, <2>3, LeaseClock DEF Waits
  <2> QED BY <2>1, <2>3, <2>4 DEF LevelsInv, Up
<1>5. CASE ~TaskAddress
  <2>1. /\ rstart_int' <=> rstart_int /\ ~Rw!rdone
        /\ wstart_int' <=> wstart_int /\ ~Rw!rdone
        /\ lsector' = lsector
    <3>1. PICK i, a : Fpga(i, a) /\ ~Card!Addresses(i)
      BY <1>5, OthersDoNotAddress DEF ServeInv, PathInv
    <3> QED BY <3>1, LevelsFall DEF ServeInv, AloneMcu
  <2>2. CASE ~Up
    <3>1. Rests /\ Rests' /\ ~Up'
      BY <1>1, <2>1, <2>2 DEF ServeInv, LevelsInv, Follows, Up
    <3> QED BY <3>1 DEF LevelsInv
  <2>3. CASE Up /\ Rw!rdone
    <3>1. Rests' /\ ~Up'
      BY <1>1, <2>1, <2>3 DEF Follows, Up
    <3> QED BY <3>1 DEF LevelsInv
  <2>4. CASE Up /\ ~Rw!rdone
    <3>1. Up' /\ (rstart_int' <=> rstart_int) /\ (wstart_int' <=> wstart_int) /\ lsector' = lsector
      BY <2>1, <2>4 DEF Up
    <3>2. /\ arb_state # "S_IDLE"
          /\ rstart_int <=> ~is_wr
          /\ wstart_int <=> is_wr
          /\ lsector = <<owner, rsector>>
          /\ task.pc = "poll" /\ ~Card!Ready(data_out)
      BY <2>4 DEF ServeInv, LevelsInv
    <3>3. task'.pc = "poll" /\ ~Card!Ready(data_out')
      BY <2>4, <3>1, <3>2, PollGoesOn DEF ServeInv, PathInv
    <3>4. arb_state' # "S_IDLE" /\ UNCHANGED <<owner, rsector, is_wr>>
      BY <1>3, <2>4, <3>2, LeaseClock DEF ArbInv
    <3>5. (Reads' => rstart_int') /\ (WritesNow' => wstart_int') /\ (~Rests' => sectoraddr'.lba = lsector')
      <4>1. CASE Rests
        BY <1>1, <2>4, <3>1, <4>1 DEF Follows, Up
      <4>2. CASE ~Rests
        <5>1. sectoraddr' = sectoraddr /\ sectoraddr.lba = lsector
          BY <1>1, <4>2 DEF Follows, ServeInv, LevelsInv
        <5>2. (Reads' <=> Reads) /\ (WritesNow' <=> WritesNow)
          BY <1>1, <2>4, <4>2 DEF Follows, PathInv, RwInv, CmdInv
        <5> QED BY <3>1, <5>1, <5>2 DEF ServeInv, LevelsInv
      <4> QED BY <4>1, <4>2
    <3> QED BY <3>1, <3>2, <3>3, <3>4, <3>5 DEF LevelsInv
  <2> QED BY <2>2, <2>3, <2>4
<1> QED BY <1>4, <1>5

LEMMA LeaseKept ==
  ASSUME PathInv, ServeInv, Next
  PROVE  LeaseInv'
<1>1. RwInv' /\ ArbInv' /\ Follows
  BY ArbKept DEF PathInv, McuInv, McuTypes
<1>2. PICK in, ack : Fpga(in, ack)
  BY StepIsClock
<1>3. /\ Arb!Clock(c_rd, c_wr, c_sector, Rw!rbusy, Rw!rdone) /\ ArbInv
      /\ ClientClock /\ Rw!RwClock /\ mix \in Mixes /\ RwInv
  BY <1>2, ClockParts DEF PathInv, McuInv, McuTypes
<1>4. c_sector \in [Client -> Sector] /\ c_sector' \in [Client -> Sector]
  BY <1>3, SectorsStay DEF ServeInv, LeaseInv
<1>5. ASSUME arb_state # "S_IDLE"
      PROVE  /\ UNCHANGED <<owner, rsector>>
             /\ c_sector'[owner] = c_sector[owner] /\ rsector = c_sector[owner]
             /\ owner \notin c_rd' \cup c_wr'
  <2>1. owner \in Client /\ owner \in Arb!c_ack
    BY <1>3, <1>5 DEF ArbInv, Arb!c_ack
  <2>2. AtWork(owner)
    BY <2>1 DEF AtWork
  <2> QED BY <1>3, <1>4, <1>5, <2>1, <2>2, AtWorkStays, LeaseClock DEF ServeInv, LeaseInv
<1>6. CASE arb_state = "S_IDLE"
  <2>1. CASE arb_state' = "S_IDLE"
    BY <1>4, <2>1 DEF LeaseInv
  <2>2. CASE arb_state' = "S_REQ"
    <3>1. owner' \in c_rd \cup c_wr /\ rsector' = c_sector[owner'] /\ Rests
      BY <1>3, <1>6, <2>2, LeaseClock
    <3>2. owner' \in Client /\ AtWork(owner')
      BY <1>3, <3>1 DEF ArbInv, AtWork
    <3>3. c_sector'[owner'] = c_sector[owner']
      BY <1>3, <1>4, <3>2, AtWorkStays
    <3>4. ~Up /\ Rests'
      BY <1>1, <1>6, <3>1 DEF ServeInv, LevelsInv, Follows
    <3> QED BY <1>4, <2>2, <3>1, <3>3, <3>4 DEF LeaseInv
  <2> QED BY <1>3, <1>6, <2>1, <2>2, LeaseClock
<1>7. CASE arb_state = "S_REQ" /\ Rests
  <2>1. arb_state' = "S_REQ"
    BY <1>3, <1>7, LeaseClock
  <2>2. Rw!DataClock
    BY <1>3 DEF Rw!RwClock
  <2>3. sddat_stat' = "RWAIT" /\ ~louten'
    BY <1>3, <1>7, <2>2, HeldMoves
  <2>4. ~Rests' => cmd' = "run"
    BY <1>1, <1>7 DEF Follows, Up
  <2> QED BY <1>4, <1>5, <1>7, <2>1, <2>3, <2>4 DEF LeaseInv
<1>8. CASE arb_state = "S_REQ" /\ ~Rests
  <2>1. arb_state' = "S_XFER"
    BY <1>3, <1>8, LeaseClock
  <2>2. ~Rests'
    BY <1>1, <1>3, <1>8 DEF ServeInv, LeaseInv, RwInv, CmdInv, Follows, Rests, Reads, WritesNow
  <2> QED BY <1>4, <1>5, <1>8, <2>1, <2>2 DEF LeaseInv
<1>9. CASE arb_state = "S_XFER"
  <2>1. arb_state' = IF Rw!rdone THEN "S_IDLE" ELSE "S_XFER"
    BY <1>3, <1>9, LeaseClock
  <2>2. ~Rests
    BY <1>9 DEF ServeInv, LeaseInv
  <2>3. ~Rw!rdone => ~Rests'
    BY <1>1, <1>3, <2>2, StartsResting
  <2> QED BY <1>4, <1>5, <1>9, <2>1, <2>3 DEF LeaseInv
<1> QED BY <1>3, <1>6, <1>7, <1>8, <1>9 DEF ArbInv

(* The lease that waits, waits until spi_task starts its transfer.         *)
LEMMA WaitsOn ==
  ASSUME PathInv, ServeInv, ClientsAlone, Next, ~TaskAddress, Waits
  PROVE  Waits' /\ UNCHANGED <<owner, rsector>>
<1>1. PICK in, ack : Fpga(in, ack) /\ ~Card!Addresses(in)
  BY OthersDoNotAddress DEF ServeInv, PathInv
<1>2. ~Up'
  BY <1>1, LevelsFall DEF ServeInv, AloneMcu, Waits, Up
<1>3. Rests
  BY DEF Waits, ServeInv, LevelsInv
<1>4. Arb!Clock(c_rd, c_wr, c_sector, Rw!rbusy, Rw!rdone) /\ ArbInv
  BY <1>1, ClockParts DEF PathInv
<1> QED BY <1>2, <1>3, <1>4, LeaseClock DEF Waits

LEMMA RequestKept ==
  ASSUME PathInv, ServeInv, ClientsAlone, Next
  PROVE  RequestInv'
<1>1. ~TaskAddress /\ Waits => Waits' /\ UNCHANGED <<owner, rsector>>
  BY WaitsOn
<1>2. task = [pc |-> task.pc, request |-> task.request, sector |-> task.sector] /\ ArbInv
  BY DEF PathInv, McuInv, McuTypes
<1>3. task.pc # "poll" => ~Up
  BY DEF ServeInv, LevelsInv
<1> USE <1>2 DEF ServeInv, RequestInv, Goes
<1>4. CASE QuietClock
  BY <1>1, <1>4, SilentAnswer DEF QuietClock, NoByte, TaskAddress
<1>5. CASE TaskWakes \/ TaskAcks \/ TaskReadsPending \/ TaskStatus
  BY <1>5 DEF TaskWakes, TaskAcks, TaskReadsPending, TaskStatus
<1>6. CASE TaskFetchesMask
  <2>1. data_out' = Card!Mask(Shown) /\ task.pc = "mask" /\ task'.pc = "request"
    BY <1>6, MaskAnswer DEF TaskFetchesMask, PathInv, McuInv, Said
  <2>2. data_out'.mask = Shown
    BY <2>1 DEF Card!Mask
  <2>3. Shown # {} => Waits /\ Shown = {owner}
    BY <1>3, <2>1 DEF ArbInv, Waits, Shown
  <2>4. ~TaskAddress
    BY <2>1 DEF TaskAddress
  <2> QED BY <1>1, <2>1, <2>2, <2>3, <2>4
<1>7. CASE TaskReadsRequest
  <2>1. /\ data_out' = Card!SectorIs(rsector) /\ task.pc = "request"
        /\ task'.pc = "rsector" /\ task'.request = data_out.mask
    BY <1>7, SectorAnswer DEF TaskReadsRequest, PathInv, McuInv, Said
  <2>2. data_out'.sector = rsector /\ ~TaskAddress
    BY <2>1 DEF Card!SectorIs, TaskAddress
  <2> QED BY <1>1, <2>1, <2>2
<1>8. CASE TaskReadsSector
  <2>1. /\ task.pc = "rsector" /\ task'.request = task.request /\ task'.sector = data_out.sector
        /\ task'.pc = IF task.request = {} THEN "wait" ELSE "lock"
    BY <1>8 DEF TaskReadsSector
  <2> QED BY <1>1, <2>1 DEF TaskAddress
<1>9. CASE TaskLocks \/ TaskCoreRw
  <2>1. /\ task.pc \in {"lock", "core_rw"} /\ task'.pc \in {"core_rw", "address"}
        /\ task'.request = task.request /\ task'.sector = task.sector
    BY <1>9 DEF TaskLocks, TaskCoreRw
  <2> QED BY <1>1, <2>1 DEF TaskAddress
<1>10. CASE TaskAddress
  BY <1>10 DEF TaskAddress
<1>11. CASE TaskPolls
  BY <1>11 DEF TaskPolls
<1> QED BY <1>4, <1>5, <1>6, <1>7, <1>8, <1>9, <1>10, <1>11, OsdRests DEF Next, TaskStep
-----------------------------------------------------------------------------
(* What a client has counted: nothing until its request is taken, then as  *)
(* many beats as have left or reached sd_rw.v, and all of them at its      *)
(* done.                                                                   *)
GotInv ==
  /\ c_got \in [Client -> Nat]
  /\ \A c \in c_rd \cup c_wr : c \notin Arb!c_ack => c_got[c] = 0
  /\ arb_state = "S_REQ" => c_got[owner] = 0
  /\ arb_state = "S_XFER" /\ is_wr => c_got[owner] = MovedNow
  /\ arb_state = "S_XFER" /\ ~is_wr => c_got[owner] = Passed
  /\ \A c \in c_done : c \in Client /\ c_got[c] = Beats

AloneInv == ClientsAlone => ServeInv /\ GotInv

(* Only the owner counts, a read when sd_rw.v shows a beat and a write     *)
(* when one moves.                                                         *)
LEMMA OwnerCounts ==
  ASSUME PathInv, ServeInv, NEW c \in Client, Gets(c) \/ Puts(c)
  PROVE  c = owner /\ arb_state # "S_IDLE"
BY DEF Gets, Puts, Arb!c_outen, Arb!c_ack

LEMMA CountsRead ==
  ASSUME PathInv, ServeInv, GotInv, arb_state = "S_XFER", ~is_wr
  PROVE  (Gets(owner) \/ Puts(owner)) <=> louten
<1>1. /\ Up /\ rstart_int /\ lsector = <<owner, rsector>> /\ state = "CORE_IO"
      /\ sectoraddr.lba = lsector /\ rsector = c_sector[owner]
  BY DEF ServeInv, LevelsInv, LeaseInv, AloneMcu
<1>2. louten => outaddr = c_got[owner]
  BY DEF GotInv, Passed
<1>3. louten => Gets(owner)
  BY <1>1, <1>2 DEF Gets, Arb!c_outen, Card!outen, Outbyte
<1>4. Gets(owner) => louten
  BY DEF Gets, Arb!c_outen, Card!outen
<1> QED BY <1>3, <1>4 DEF Puts

LEMMA CountsWrite ==
  ASSUME PathInv, ServeInv, GotInv, arb_state = "S_XFER", is_wr
  PROVE  (Gets(owner) \/ Puts(owner)) <=> Writes
<1>1. /\ Up /\ ~rstart_int /\ lsector = <<owner, rsector>> /\ state = "CORE_IO"
      /\ sectoraddr.lba = lsector /\ rsector = c_sector[owner]
  BY DEF ServeInv, LevelsInv, LeaseInv, AloneMcu
<1>2. Writes => outaddr = c_got[owner]
  BY DEF GotInv, Writes, MovedNow, PathInv, RwInv, DataInv
<1>3. ASSUME Writes PROVE Puts(owner)
  <2>1. LineByte = Content(<<owner, c_sector[owner]>>, c_got[owner])
    BY <1>1, <1>2, <1>3 DEF LineByte, Inbyte
  <2>2. owner \in Arb!c_ack
    BY DEF Arb!c_ack
  <2> QED BY <1>1, <1>3, <2>1, <2>2 DEF Puts
<1>4. ~Gets(owner)
  BY <1>1 DEF Gets, Arb!c_outen, Card!outen
<1> QED BY <1>3, <1>4 DEF Puts

LEMMA GotKept ==
  ASSUME PathInv, ServeInv, ServeInv', GotInv, ClientsAlone, Next
  PROVE  GotInv'
<1>1. RwInv' /\ ArbInv' /\ Follows
  BY ArbKept DEF PathInv, McuInv, McuTypes
<1>2. PICK in, ack : Fpga(in, ack)
  BY StepIsClock
<1>3. /\ Arb!Clock(c_rd, c_wr, c_sector, Rw!rbusy, Rw!rdone) /\ ArbInv /\ ClientClock
      /\ Rw!DataClock /\ mix \in Mixes /\ RwInv
  BY <1>2, ClockParts DEF PathInv, McuInv, McuTypes, Rw!RwClock
<1>4. c_got' = [c \in Client |-> IF Gets(c) \/ Puts(c) THEN c_got[c] + 1
                                 ELSE IF AtWork(c) THEN c_got[c] ELSE 0]
  BY <1>3 DEF ClientClock, CountClock
<1>5. c_got' \in [Client -> Nat]
  BY <1>4 DEF GotInv
<1>6. owner \in Client /\ (arb_state # "S_IDLE" => AtWork(owner))
  BY <1>3 DEF ArbInv, AtWork, Arb!c_ack
<1>7. \A c \in c_rd' \cup c_wr' : c \in Client
  BY <1>1 DEF ArbInv
<1>8. ASSUME NEW c \in c_rd' \cup c_wr', c \notin (Arb!c_ack)'
      PROVE  c_got'[c] = 0
  <2>1. CASE c \in Arb!c_ack
    <3>1. c = owner /\ arb_state # "S_IDLE"
      BY <2>1 DEF Arb!c_ack
    <3>2. arb_state' = "S_IDLE" /\ owner' = owner
      BY <1>3, <1>8, <3>1, LeaseClock DEF Arb!c_ack
    <3>3. c \notin c_rd' \cup c_wr'
      BY <1>3, <1>6, <2>1, <3>1, AtWorkStays DEF ServeInv, LeaseInv
    <3> QED BY <1>8, <3>3
  <2>2. CASE c \notin Arb!c_ack
    <3>1. ~Gets(c) /\ ~Puts(c)
      <4>1. c = owner => arb_state = "S_IDLE"
        BY <2>2 DEF Arb!c_ack
      <4> QED BY <1>7, <1>8, <4>1, OwnerCounts
    <3>2. AtWork(c) => c_got[c] = 0
      BY <2>2 DEF AtWork, GotInv
    <3> QED BY <1>4, <1>7, <1>8, <3>1, <3>2
  <2> QED BY <2>1, <2>2
<1>9. ASSUME arb_state' = "S_REQ" PROVE c_got'[owner'] = 0
  <2>1. CASE arb_state = "S_IDLE"
    <3>1. owner' \in c_rd \cup c_wr
      BY <1>3, <1>9, <2>1, LeaseClock
    <3>2. owner' \in Client /\ AtWork(owner') /\ c_got[owner'] = 0
      BY <1>3, <2>1, <3>1 DEF ArbInv, AtWork, GotInv, Arb!c_ack
    <3>3. ~Gets(owner') /\ ~Puts(owner')
      BY <2>1, <3>2, OwnerCounts
    <3> QED BY <1>4, <3>2, <3>3
  <2>2. CASE arb_state = "S_REQ"
    <3>1. owner' = owner /\ Rests
      BY <1>3, <1>9, <2>2, LeaseClock
    <3>2. ~Gets(owner) /\ ~Puts(owner)
      BY <1>3, <2>2, <3>1, HeldMoves DEF Gets, Puts, Arb!c_outen
    <3> QED BY <1>4, <1>6, <2>2, <3>1, <3>2 DEF GotInv
  <2>3. CASE arb_state = "S_XFER"
    BY <1>3, <1>9, <2>3, LeaseClock
  <2> QED BY <1>3, <2>1, <2>2, <2>3 DEF ArbInv
<1>10. ASSUME arb_state' = "S_XFER"
       PROVE  /\ is_wr' => c_got'[owner'] = MovedNow'
              /\ ~is_wr' => c_got'[owner'] = Passed'
  <2>1. arb_state \in {"S_REQ", "S_XFER"} /\ owner' = owner /\ is_wr' = is_wr
    BY <1>3, <1>10, LeaseClock DEF ArbInv
  <2>2. ~Rests /\ Up /\ (Reads => ~is_wr) /\ (WritesNow => is_wr)
    BY <1>3, <1>10, <2>1, LeaseClock DEF ServeInv, LevelsInv, LeaseInv, Reads, WritesNow
  <2>3. c_got'[owner] = IF Gets(owner) \/ Puts(owner) THEN c_got[owner] + 1 ELSE c_got[owner]
    BY <1>4, <1>6, <2>1
  <2>4. CASE arb_state = "S_REQ"
    <3>1. sddat_stat = "RWAIT" /\ ~louten /\ c_got[owner] = 0 /\ sdcmd_stat \in {"CMD17", "CMD24"}
      BY <1>3, <2>2, <2>4 DEF ServeInv, LeaseInv, GotInv, RwInv, CmdInv, Rests, Reads, WritesNow
    <3>2. ~Gets(owner) /\ ~Puts(owner) /\ MovedNow = 0
      BY <2>4, <3>1 DEF Gets, Puts, Arb!c_outen, Writes, MovedNow
    <3>3. CASE Reads
      <4>1. Passed' = Passed
        BY <1>3, <3>1, <3>3, PassedMoves
      <4> QED BY <2>1, <2>2, <2>3, <3>1, <3>2, <3>3, <4>1 DEF Passed
    <3>4. CASE sdcmd_stat = "CMD24"
      <4>1. MovedNow' = 0 /\ is_wr
        BY <1>3, <2>2, <3>4, HeldMoves DEF WritesNow
      <4> QED BY <2>1, <2>3, <3>1, <3>2, <4>1
    <3> QED BY <3>1, <3>3, <3>4 DEF Reads
  <2>5. CASE arb_state = "S_XFER" /\ Reads
    <3>1. Passed' = (IF louten THEN Passed + 1 ELSE Passed) /\ ~is_wr /\ c_got[owner] = Passed
      BY <1>3, <2>2, <2>5, PassedMoves DEF GotInv
    <3> QED BY <2>1, <2>3, <2>5, <3>1, CountsRead
  <2>6. CASE arb_state = "S_XFER" /\ WritesNow
    <3>1. is_wr /\ c_got[owner] = MovedNow
      BY <2>2, <2>6 DEF GotInv
    <3>2. MovedNow' = IF Writes THEN MovedNow + 1 ELSE MovedNow
      <4>1. CASE sdcmd_stat = "CMD24"
        BY <1>3, <4>1, HeldMoves DEF MovedNow, RwInv, DataInv
      <4>2. CASE sdcmd_stat = "WRITING"
        BY <1>3, <4>2, WriteMoves DEF WriteMove
      <4> QED BY <2>6, <4>1, <4>2 DEF WritesNow
    <3> QED BY <2>1, <2>3, <2>6, <3>1, <3>2, CountsWrite
  <2> QED BY <1>3, <2>1, <2>2, <2>4, <2>5, <2>6 DEF RwInv, CmdInv
<1>11. ASSUME NEW c \in c_done' PROVE c \in Client /\ c_got'[c] = Beats
  <2>1. arb_state = "S_XFER" /\ Rw!rdone /\ c = owner
    BY <1>3, <1>11, LeaseClock
  <2>2. sddat_stat = "DONE" /\ ~louten /\ MovedNow = Beats
    BY <1>3, <2>1 DEF Rw!rdone, RwInv, OutInv, MovedNow
  <2>3. c_got[owner] = Beats
    BY <2>1, <2>2 DEF GotInv, Passed
  <2>4. ~Gets(owner) /\ ~Puts(owner)
    BY <2>2 DEF Gets, Puts, Arb!c_outen, Card!outen, Writes
  <2> QED BY <1>4, <1>6, <2>1, <2>3, <2>4
<1> QED BY <1>5, <1>8, <1>9, <1>10, <1>11 DEF GotInv

LEMMA AloneStarts == Init => AloneInv
<1> SUFFICES ASSUME Init, ClientsAlone PROVE ServeInv /\ GotInv
  BY DEF AloneInv
<1> USE DEF Init, Arb!Init, Card!CardInit, Rw!RwReady, Rw!RwStart
<1>1. AloneMcu /\ LevelsInv /\ RequestInv
  BY DEF AloneMcu, LevelsInv, RequestInv, Rests, Reads, WritesNow, Up
<1>2. LeaseInv
  <2>1. mix.sectors \subseteq Sector /\ mix.sectors # {}
    BY SdPathAssumption
  <2>2. (CHOOSE s \in mix.sectors : TRUE) \in Sector
    BY <2>1
  <2> QED BY <2>2 DEF LeaseInv
<1>3. GotInv
  BY DEF GotInv
<1> QED BY <1>1, <1>2, <1>3 DEF ServeInv

LEMMA AloneKept == ASSUME PathInv, AloneInv, Next PROVE AloneInv'
<1> SUFFICES ASSUME ClientsAlone' PROVE ServeInv' /\ GotInv'
  BY DEF AloneInv
<1>1. ClientsAlone /\ ServeInv /\ GotInv
  BY DEF Next, ClientsAlone, AloneInv
<1>2. ServeInv'
  BY <1>1, AloneMcuKept, LevelsKept, LeaseKept, RequestKept DEF ServeInv, PathInv
<1> QED BY <1>1, <1>2, GotKept

LEMMA AloneStutters == ASSUME AloneInv, UNCHANGED vars PROVE AloneInv'
<1> SUFFICES ASSUME ClientsAlone' PROVE ServeInv' /\ GotInv'
  BY DEF AloneInv
<1> USE DEF vars, arbVars, cardVars, rwVars, sysVars, clientVars, mcuVars
<1>1. ClientsAlone /\ ServeInv /\ GotInv
  BY DEF ClientsAlone, AloneInv
<1>2. AloneMcu' /\ LevelsInv'
  BY <1>1 DEF ServeInv, AloneMcu, LevelsInv, Up, Rests, Reads, WritesNow, Card!Ready, Card!Level
<1>3. LeaseInv' /\ RequestInv'
  BY <1>1 DEF ServeInv, LeaseInv, RequestInv, Waits, Up, Rests, Shown
<1>4. GotInv'
  BY <1>1 DEF GotInv, Arb!c_ack, MovedNow, Passed
<1> QED BY <1>2, <1>3, <1>4 DEF ServeInv

LEMMA AloneHolds == Spec => [](PathInv /\ AloneInv)
<1>1. PathInv /\ AloneInv /\ [Next]_vars => (PathInv /\ AloneInv)'
  BY PathKept, PathStutters, AloneKept, AloneStutters
<1> QED BY <1>1, PathStarts, AloneStarts, PTL DEF Spec

(* The request spi_task goes to serve, milliseconds after it read it, is   *)
(* the one the arbiter waits with.                                         *)
THEOREM ServesTheRequestHolds == Spec => []ServesTheRequest
<1>1. AloneInv => ServesTheRequest
  BY DEF AloneInv, ServeInv, RequestInv, Waits, ServesTheRequest
<1> QED BY <1>1, AloneHolds, PTL

(* A client that is told done has had every beat of its own sector.        *)
THEOREM ServedDoneHolds == Spec => []ServedDone
<1>1. AloneInv => ServedDone
  BY DEF AloneInv, GotInv, ServedDone, DoneIsServed
<1> QED BY <1>1, AloneHolds, PTL

(* No client is given a byte of a sector that is not its own.              *)
THEOREM OwnBytesOnlyHolds == Spec => []OwnBytesOnly
<1>1. PathInv /\ AloneInv => OwnBytesOnly
  <2> SUFFICES ASSUME AloneInv, ClientsAlone, NEW c \in Arb!c_outen(Card!outen(louten))
               PROVE  Outbyte.lba = <<c, c_sector[c]>>
    BY DEF OwnBytesOnly, OwnBytes
  <2>1. c = owner /\ arb_state = "S_XFER"
    BY DEF Arb!c_outen
  <2>2. Up /\ ~Rests /\ rsector = c_sector[owner]
    BY <2>1 DEF AloneInv, ServeInv, LevelsInv, LeaseInv
  <2>3. sectoraddr.lba = <<owner, rsector>>
    BY <2>2 DEF AloneInv, ServeInv, LevelsInv
  <2> QED BY <2>1, <2>2, <2>3 DEF Outbyte, Content
<1> QED BY <1>1, AloneHolds, PTL
-----------------------------------------------------------------------------
(* The firmware's own sectors, with the clients at work or not.  A byte    *)
(* that does no harm neither addresses a sector nor fills the buffer.      *)
Harmless(in) ==
  /\ ~Card!Addresses(in)
  /\ ~Card!IsByte(in, "MCU_WRITE", 0) /\ ~Card!IsLater(in, "MCU_WRITE")

LEMMA HarmlessBytes ==
  /\ Harmless(Card!NoByte)
  /\ \A c : Harmless(Card!Command(c))
  /\ command = "STATUS" => \A v : Harmless(Card!More(v))
  /\ command = "MCU_READ" /\ byte_cnt \in 0 .. 2 /\ byte_cnt > 0 => \A v : Harmless(Card!More(v))
<1>1. Harmless(Card!NoByte) /\ \A c : Harmless(Card!Command(c))
  BY DEF Harmless, Card!Addresses, Card!IsByte, Card!IsLater, Card!NoByte, Card!Command
<1>2. command = "STATUS" => \A v : Harmless(Card!More(v))
  BY DEF Harmless, Card!Addresses, Card!IsByte, Card!IsLater
<1>3. command = "MCU_READ" /\ byte_cnt \in 0 .. 2 /\ byte_cnt > 0 => \A v : Harmless(Card!More(v))
  BY DEF Harmless, Card!Addresses, Card!IsByte, Card!IsLater
<1> QED BY <1>1, <1>2, <1>3

LEMMA QuietStays ==
  ASSUME RwInv, Follows, NEW in, NEW ack, Fpga(in, ack), Quiet, Harmless(in)
  PROVE  Quiet'
<1>1. /\ Card!LevelClock(in, a_rstart # {}, a_wstart # {}, Rw!rdone)
      /\ Card!BufferClock(in, louten, outaddr, Outbyte)
  BY ClockParts
<1>2. dinb_we' = NoBeat
  BY <1>1 DEF Harmless, Card!BufferClock
<1>3. ~Up'
  BY <1>1 DEF Harmless, Quiet, Card!LevelClock, Card!LastBeatIn, Up
<1>4. Rests'
  BY DEF Quiet, Follows
<1> QED BY <1>2, <1>3, <1>4 DEF Quiet

(* At the end of a byte nothing is on its way to sd_rw.v, so what its      *)
(* answer says of sd_rw.v is all there is to say.                          *)
LEMMA RestMeansQuiet == ASSUME TimeInv, gap = 0, Rests PROVE Quiet
BY Numbers DEF TimeInv, Quiet

(* Who else moves while the OSD's task holds the file system.              *)
LEMMA OthersAreHarmless ==
  ASSUME McuInv, QuietClock \/ TaskStep, sdc_sem = "osd"
  PROVE  \E in, ack : Fpga(in, ack) /\ Harmless(in) /\ (OsdTalks => in = Card!NoByte)
<1>1. task.pc \notin {"core_rw", "address", "poll"}
  BY DEF McuInv, Holds
<1>2. OsdTalks => spi_sem = "osd"
  BY DEF McuInv, Holds
<1> USE DEF Begins, Keeps, Ends
<1>3. CASE QuietClock
  BY <1>3, HarmlessBytes DEF QuietClock, NoByte
<1>4. CASE TaskWakes \/ TaskLocks \/ TaskAcks \/ TaskReadsPending
  BY <1>4, HarmlessBytes DEF TaskWakes, TaskLocks, TaskAcks, TaskReadsPending, NoByte, AckByte, OtherByte
<1>5. CASE TaskStatus
  BY <1>2, <1>5, HarmlessBytes DEF TaskStatus, Byte
<1>6. CASE TaskFetchesMask \/ TaskReadsRequest \/ TaskReadsSector
  <2>1. command = "STATUS" /\ ~OsdTalks
    BY <1>2, <1>6 DEF TaskFetchesMask, TaskReadsRequest, TaskReadsSector, McuInv, Said
  <2>2. \E ack : Fpga(Card!More(Zero), ack)
    BY <1>6 DEF TaskFetchesMask, TaskReadsRequest, TaskReadsSector, Byte
  <2> QED BY <2>1, <2>2, HarmlessBytes
<1> QED BY <1>1, <1>3, <1>4, <1>5, <1>6 DEF TaskStep, TaskCoreRw, TaskAddress, TaskPolls

-----------------------------------------------------------------------------
(* The buffer holds the first n beats of a sector.                         *)
Filled(lba, n) == \A i \in 0 .. n - 1 : buffer[i] = Content(lba, i)

(* A beat of the card's goes where it belongs. *)
LEMMA BufferFills ==
  ASSUME RwInv, NEW in, NEW ack, Fpga(in, ack), Reads, state = "MCU_READ_SD", dinb_we = NoBeat,
         Filled(sectoraddr.lba, Passed)
  PROVE  \A i \in 0 .. Passed' - 1 : buffer'[i] = Content(sectoraddr.lba, i)
<1>1. Card!BufferClock(in, louten, outaddr, Outbyte) /\ Rw!DataClock
  BY ClockParts DEF Rw!RwClock
<1>2. /\ Passed' = IF louten THEN Passed + 1 ELSE Passed
      /\ Passed \in 0 .. Beats
      /\ louten => Passed < Beats
  BY <1>1, PassedMoves
<1>3. buffer' = [i \in 0 .. Beats - 1 |-> IF louten /\ i = outaddr THEN Outbyte ELSE buffer[i]]
  BY <1>1 DEF Card!BufferClock
<1>4. CASE louten
  <2>1. Passed = outaddr /\ Passed' = Passed + 1 /\ Passed \in 0 .. Beats - 1 /\ Beats \in Nat
    BY <1>2, <1>4, Numbers DEF Passed
  <2>2. ASSUME NEW i \in 0 .. Passed PROVE buffer'[i] = Content(sectoraddr.lba, i)
    <3>1. i \in 0 .. Beats - 1 /\ (i = Passed \/ i \in 0 .. Passed - 1)
      BY <2>1
    <3> QED BY <1>3, <1>4, <2>1, <3>1 DEF Outbyte, Filled
  <2>3. 0 .. Passed' - 1 = 0 .. Passed
    BY <2>1
  <2> QED BY <2>2, <2>3
<1>5. CASE ~louten
  <2>1. \A i \in 0 .. Passed - 1 : i \in 0 .. Beats - 1
    BY <1>2, Numbers
  <2> QED BY <1>2, <1>3, <1>5, <2>1 DEF Filled
<1> QED BY <1>4, <1>5

(* and stays there while the path is quiet. *)
LEMMA BufferStays ==
  ASSUME NEW in, NEW ack, Fpga(in, ack), ~louten, dinb_we = NoBeat, NEW i \in 0 .. Beats - 1
  PROVE  buffer'[i] = buffer[i]
<1>1. Card!BufferClock(in, louten, outaddr, Outbyte)
  BY ClockParts
<1> QED BY <1>1 DEF Card!BufferClock

(* A read of the OSD's task: its transfer is asked for and under way, or   *)
(* its sector is in the buffer, or spi bytes take it from there.           *)
Own == <<NClients, osd.sector>>

Fetching ==
  /\ state = "MCU_READ_SD" /\ data_out = Card!Level(TRUE)
  /\ rstart_int /\ lsector = Own
  /\ ~Rests => Reads /\ sectoraddr.lba = Own /\ Filled(Own, Passed)

Fetched ==
  /\ state = "MCU_READ_SD" /\ data_out = Card!Level(TRUE)
  /\ Quiet /\ Filled(Own, Beats)

Offered ==
  /\ state = "MCU_READ_TX" /\ data_out = Card!Level(FALSE)
  /\ Quiet /\ Filled(Own, Beats) /\ mcu_tx_cnt = 0

Taken ==
  /\ state = "MCU_READ_TX"
  /\ data_out = Card!BeatIs(Content(Own, osd.n))
  /\ Quiet /\ Filled(Own, Beats) /\ mcu_tx_cnt = (osd.n + 1) % Beats

ReadInv ==
  /\ osd.pc = "busy" /\ ~data_out.busy => Quiet
  /\ osd.op # "insert" /\ osd.pc \in {"command", "address"} => Quiet
  /\ osd.op = "read" =>
       /\ osd.pc = "address" => state = "MCU_READ_SD"
       /\ osd.pc = "poll" => dinb_we = NoBeat /\ (Fetching \/ Fetched \/ Offered)
       /\ osd.pc = "data" => Taken

LEMMA RestsOut == ASSUME RwInv, Rests PROVE ~louten /\ ~Rw!rdone
BY DEF RwInv, OutInv, Rests, Reads, Rw!rdone

(* A clock of each of the phases, in which nothing or a byte of the read   *)
(* command arrives (of the byte the phase's own lemma says what it does).  *)
LEMMA SilentState ==
  ASSUME NEW ack, Fpga(Card!NoByte, ack), dinb_we = NoBeat
  PROVE  state' = state /\ data_out' = data_out /\ mcu_tx_cnt' = mcu_tx_cnt /\ dinb_we' = NoBeat
<1>1. /\ Card!StateClock(Card!NoByte) /\ Card!BufferClock(Card!NoByte, louten, outaddr, Outbyte)
  BY ClockParts
<1>2. data_out' = data_out
  BY SilentAnswer
<1> QED BY <1>1, <1>2 DEF Card!StateClock, Card!BufferClock, Card!NoByte, Card!Starts, Card!IsLater,
           Card!IsByte, Card!Sends, Card!LastBeatIn

LEMMA ReadByte ==
  ASSUME NEW v, Byte(Card!More(v)), command = "MCU_READ", byte_cnt > 0, byte_cnt \in 0 .. 2,
         dinb_we = NoBeat
  PROVE  /\ rstart_int => state' = state
         /\ ~rstart_int => state' = "MCU_READ_TX"
         /\ state # "MCU_READ_TX" => data_out' = Card!Level(Up)
         /\ state # "MCU_READ_TX" /\ ~rstart_int => mcu_tx_cnt' = 0
         /\ state = "MCU_READ_TX" => /\ data_out' = Card!BeatIs(buffer[mcu_tx_cnt])
                                     /\ mcu_tx_cnt' = (mcu_tx_cnt + 1) % Beats
         /\ dinb_we' = NoBeat
<1>1. /\ Card!StateClock(Card!More(v)) /\ Card!BufferClock(Card!More(v), louten, outaddr, Outbyte)
      /\ Card!AnswerClock(Card!More(v), Shown, rsector, Rw!rbusy)
  BY ClockParts DEF Byte
<1>2. /\ Card!IsLater(Card!More(v), "MCU_READ")
      /\ ~Card!IsByte(Card!More(v), "MCU_WRITE", 0) /\ ~Card!IsLater(Card!More(v), "MCU_WRITE")
      /\ ~Card!IsByte(Card!More(v), "STATUS", 0) /\ ~Card!IsByte(Card!More(v), "STATUS", 1)
      /\ ~Card!Addresses(Card!More(v)) /\ ~Card!IsLater(Card!More(v), "CORE_RW")
      /\ ~Card!Starts(Card!More(v), "CORE_RW") /\ ~Card!Starts(Card!More(v), "MCU_READ")
      /\ Card!More(v).kind # "start" /\ ~Card!LastBeatIn
  BY DEF Card!IsLater, Card!IsByte, Card!More, Card!Addresses, Card!Starts, Card!LastBeatIn
<1>3. Card!Sends(Card!More(v)) <=> state = "MCU_READ_TX"
  BY <1>2 DEF Card!Sends
<1>4. /\ rstart_int => state' = state
      /\ ~rstart_int => state' = "MCU_READ_TX"
  BY <1>1, <1>2 DEF Card!StateClock
<1>5. /\ dinb_we' = NoBeat
      /\ state # "MCU_READ_TX" /\ ~rstart_int => mcu_tx_cnt' = 0
      /\ state = "MCU_READ_TX" => mcu_tx_cnt' = (mcu_tx_cnt + 1) % Beats
  BY <1>1, <1>2, <1>3 DEF Card!BufferClock
<1>6. /\ state # "MCU_READ_TX" => data_out' = Card!Level(Up)
      /\ state = "MCU_READ_TX" => data_out' = Card!BeatIs(buffer[mcu_tx_cnt])
  BY <1>1, <1>2, <1>3, command = "MCU_READ" DEF Card!AnswerClock, Up
<1> QED BY <1>4, <1>5, <1>6
LEMMA FetchMoves ==
  ASSUME RwInv, Follows, NEW in, NEW ack, Fpga(in, ack), Harmless(in), dinb_we = NoBeat,
         state = "MCU_READ_SD", rstart_int, lsector = Own,
         ~Rests => Reads /\ sectoraddr.lba = Own /\ Filled(Own, Passed)
  PROVE  \/ /\ rstart_int' /\ lsector' = Own
            /\ ~Rests' => /\ Reads' /\ sectoraddr'.lba = Own
                          /\ \A i \in 0 .. Passed' - 1 : buffer'[i] = Content(Own, i)
         \/ /\ ~Up' /\ Rests'
            /\ \A i \in 0 .. Beats - 1 : buffer'[i] = Content(Own, i)
<1>1. /\ Card!LevelClock(in, a_rstart # {}, a_wstart # {}, Rw!rdone)
      /\ Rw!DataClock
  BY ClockParts DEF Rw!RwClock
<1>2. /\ rstart_int' <=> rstart_int /\ ~Rw!rdone
      /\ wstart_int' <=> wstart_int /\ ~Rw!rdone
      /\ lsector' = lsector
  BY <1>1 DEF Harmless, Card!LevelClock, Card!LastBeatIn
<1>3. CASE Rests
  <2>1. rstart_int' /\ sdcmd_stat' = "CMD17" /\ sectoraddr'.lba = Own
    BY <1>2, <1>3, RestsOut DEF Follows, Up
  <2>2. Passed' = 0
    BY <1>1, <1>3, HeldMoves DEF Passed
  <2> QED BY <1>2, <2>1, <2>2 DEF Reads
<1>4. CASE ~Rests /\ ~Rw!rdone
  <2>1. Reads' /\ sectoraddr' = sectoraddr
    BY <1>4 DEF Follows, Reads
  <2>2. \A i \in 0 .. Passed' - 1 : buffer'[i] = Content(sectoraddr.lba, i)
    BY <1>4, BufferFills
  <2> QED BY <1>2, <1>4, <2>1, <2>2
<1>5. CASE ~Rests /\ Rw!rdone
  <2>1. Rests' /\ ~Up'
    BY <1>2, <1>5 DEF Follows, Up
  <2>2. Passed = Beats /\ ~louten
    BY <1>1, <1>5, PassedMoves DEF RwInv, OutInv, Rw!rdone
  <2>3. \A i \in 0 .. Beats - 1 : buffer'[i] = buffer[i]
    BY <2>2, BufferStays
  <2> QED BY <1>5, <2>1, <2>2, <2>3 DEF Filled
<1> QED BY <1>3, <1>4, <1>5

LEMMA QuietMoves ==
  ASSUME RwInv, Follows, NEW in, NEW ack, Fpga(in, ack), Harmless(in), Quiet
  PROVE  Quiet' /\ \A i \in 0 .. Beats - 1 : buffer'[i] = buffer[i]
<1>1. Quiet'
  BY QuietStays
<1>2. ~louten /\ dinb_we = NoBeat
  BY RestsOut DEF Quiet
<1> QED BY <1>1, <1>2, BufferStays

(* A clock in which the OSD's task does not move.                          *)
LEMMA ReadWaits ==
  ASSUME PathInv, Follows, ReadInv, QuietClock \/ TaskStep, UNCHANGED osd
  PROVE  ReadInv'
<1>1. CASE sdc_sem # "osd"
  <2>1. osd.pc \in {"idle", "lock"} \/ (osd.op = "insert" /\ osd.pc # "busy")
    BY <1>1 DEF PathInv, McuInv, McuTypes, Holds
  <2> QED BY <2>1 DEF ReadInv
<1>2. CASE sdc_sem = "osd"
  <2>1. PICK in, ack : Fpga(in, ack) /\ Harmless(in) /\ (OsdTalks => in = Card!NoByte)
    BY <1>2, OthersAreHarmless DEF PathInv
  <2>2. Quiet => Quiet' /\ \A i \in 0 .. Beats - 1 : buffer'[i] = buffer[i]
    BY <2>1, QuietMoves DEF PathInv
  <2>3. OsdTalks /\ dinb_we = NoBeat =>
          state' = state /\ data_out' = data_out /\ mcu_tx_cnt' = mcu_tx_cnt /\ dinb_we' = NoBeat
    BY <2>1, SilentState
  <2>4. osd' = osd
    OBVIOUS
  <2>5. (osd.pc = "busy" /\ ~data_out.busy => Quiet)'
    <3>1. osd.pc = "busy" => data_out' = data_out
      BY <2>1, SilentAnswer DEF OsdTalks
    <3> QED BY <2>2, <2>4, <3>1 DEF ReadInv
  <2>6. (osd.op # "insert" /\ osd.pc \in {"command", "address"} => Quiet)'
    BY <2>2, <2>4 DEF ReadInv
  <2>7. (osd.op = "read" /\ osd.pc = "address" => state = "MCU_READ_SD")'
    <3>1. osd.op = "read" /\ osd.pc = "address" => dinb_we = NoBeat /\ OsdTalks
      BY DEF ReadInv, Quiet, OsdTalks
    <3> QED BY <2>3, <2>4, <3>1 DEF ReadInv
  <2>8. ASSUME osd.op = "read", osd.pc = "poll"
        PROVE  (dinb_we = NoBeat /\ (Fetching \/ Fetched \/ Offered))'
    <3>1. /\ state' = state /\ data_out' = data_out /\ mcu_tx_cnt' = mcu_tx_cnt /\ dinb_we' = NoBeat
          /\ dinb_we = NoBeat /\ Own' = Own
      BY <2>3, <2>4, <2>8 DEF ReadInv, OsdTalks, Own
    <3>2. CASE Fetching
      BY <2>1, <3>1, <3>2, FetchMoves DEF Fetching, Fetched, Filled, Quiet, PathInv
    <3>3. CASE Fetched
      BY <2>2, <3>1, <3>3 DEF Fetched, Filled
    <3>4. CASE Offered
      BY <2>2, <3>1, <3>4 DEF Offered, Filled
    <3> QED BY <2>8, <3>1, <3>2, <3>3, <3>4 DEF ReadInv
  <2>9. ASSUME osd.op = "read", osd.pc = "data"
        PROVE  Taken'
    <3>1. Taken
      BY <2>9 DEF ReadInv
    <3>2. /\ state' = state /\ data_out' = data_out /\ mcu_tx_cnt' = mcu_tx_cnt /\ Own' = Own
      BY <2>3, <2>4, <2>9, <3>1 DEF Taken, Quiet, OsdTalks, Own
    <3> QED BY <2>2, <2>4, <3>1, <3>2 DEF Taken, Filled
  <2> QED BY <2>4, <2>5, <2>6, <2>7, <2>8, <2>9 DEF ReadInv
<1> QED BY <1>1, <1>2

LEMMA ReadSteps ==
  ASSUME PathInv, Follows, ReadInv, OsdStep
  PROVE  ReadInv'
<1>0. /\ osd = [pc |-> osd.pc, op |-> osd.op, sector |-> osd.sector, n |-> osd.n]
      /\ osd.op \in {"read", "write", "insert"} /\ byte_cnt \in 0 .. 2
      /\ osd.n \in 0 .. Beats - 1 /\ (osd.n = 0 \/ osd.pc = "data")
      /\ osd.op = "insert" => osd.pc \in {"idle", "command", "address", "size"}
  BY DEF PathInv, McuInv, McuTypes
<1> USE <1>0 DEF OsdGoes
<1>1. CASE OsdBegins
  <2>1. \/ osd'.pc = "lock"
        \/ osd'.pc = "command" /\ osd'.op = "insert"
    BY <1>1 DEF OsdBegins
  <2> QED BY <2>1 DEF ReadInv
<1>2. CASE OsdLocks
  BY <1>2 DEF OsdLocks, ReadInv
<1>3. CASE OsdStatus
  <2>1. Byte(Card!Command("STATUS")) /\ osd'.pc = "busy"
    BY <1>3 DEF OsdStatus
  <2>2. data_out' = Card!Level(~Rests)
    <3>1. Card!AnswerClock(Card!Command("STATUS"), Shown, rsector, Rw!rbusy)
      BY <2>1, ClockParts DEF Byte
    <3> QED BY <3>1 DEF Card!AnswerClock, Card!Command, Card!IsByte, Card!IsLater, Card!Addresses,
               Card!Sends, Rw!rbusy, Rests
  <2>3. data_out'.busy = ~Rests
    BY <2>2 DEF Card!Level
  <2>4. Rests => Quiet
    BY <2>1, RestMeansQuiet DEF Byte, PathInv
  <2>5. Quiet => Quiet'
    BY <2>1, QuietStays, HarmlessBytes DEF Byte, PathInv
  <2> QED BY <2>1, <2>3, <2>4, <2>5 DEF ReadInv
<1>4. CASE OsdReadsBusy
  <2>1. /\ Byte(Card!More(Zero)) /\ command = "STATUS"
        /\ osd'.pc = IF data_out.busy THEN "status" ELSE "command"
        /\ osd.pc = "busy"
    BY <1>4 DEF OsdReadsBusy, PathInv, McuInv, Said
  <2>2. Quiet => Quiet'
    BY <2>1, QuietStays, HarmlessBytes DEF Byte, PathInv
  <2> QED BY <2>1, <2>2 DEF ReadInv
<1>5. CASE OsdCommand
  <2>1. /\ osd'.pc = "address" /\ osd'.op = osd.op /\ osd.pc = "command"
        /\ \E c : Byte(Card!Command(c)) /\ (osd.op = "read" => c = "MCU_READ")
    BY <1>5 DEF OsdCommand
  <2>2. Quiet => Quiet'
    BY <2>1, QuietStays, HarmlessBytes DEF Byte, PathInv
  <2>3. osd.op = "read" => state' = "MCU_READ_SD"
    <3>1. osd.op = "read" => Card!StateClock(Card!Command("MCU_READ"))
      BY <2>1, ClockParts DEF Byte
    <3> QED BY <3>1 DEF Card!StateClock, Card!Command, Card!Starts, Card!IsLater, Card!IsByte
  <2> QED BY <2>1, <2>2, <2>3 DEF ReadInv
<1>6. CASE OsdAddress /\ osd.op = "read"
  <2>1. PICK s : /\ Byte(Card!More(<<NClients, s>>))
                 /\ osd' = [osd EXCEPT !.pc = "poll", !.sector = s, !.n = 0]
    BY <1>6 DEF OsdAddress
  <2>2. command = "MCU_READ" /\ byte_cnt = 0 /\ Quiet /\ state = "MCU_READ_SD"
    BY <1>6 DEF OsdAddress, PathInv, McuInv, Said, OsdCommandIs, ReadInv
  <2>3. /\ Card!LevelClock(Card!More(<<NClients, s>>), a_rstart # {}, a_wstart # {}, Rw!rdone)
        /\ Card!StateClock(Card!More(<<NClients, s>>))
        /\ Card!AnswerClock(Card!More(<<NClients, s>>), Shown, rsector, Rw!rbusy)
        /\ Card!BufferClock(Card!More(<<NClients, s>>), louten, outaddr, Outbyte)
    BY <2>1, ClockParts DEF Byte
  <2> USE DEF Card!More, Card!IsByte, Card!IsLater, Card!Addresses, Card!Starts, Card!Sends
  <2>4. rstart_int' /\ lsector' = <<NClients, s>>
    BY <2>2, <2>3 DEF Card!LevelClock
  <2>5. state' = "MCU_READ_SD"
    BY <2>2, <2>3 DEF Card!StateClock, Card!LastBeatIn, Quiet
  <2>6. data_out' = Card!Level(TRUE) /\ dinb_we' = NoBeat
    BY <2>2, <2>3 DEF Card!AnswerClock, Card!BufferClock
  <2>7. Rests'
    BY <2>2 DEF Quiet, Follows
  <2>8. osd'.pc = "poll" /\ Own' = <<NClients, s>>
    BY <2>1 DEF Own
  <2> QED BY <2>4, <2>5, <2>6, <2>7, <2>8 DEF ReadInv, Fetching
<1>7. CASE OsdAddress /\ osd.op # "read"
  BY <1>7 DEF OsdAddress, ReadInv
<1>8. CASE OsdPolls /\ osd.op # "read"
  <2>1. osd'.pc \in {"poll", "idle", "status"} /\ osd'.op = osd.op
    BY <1>8 DEF OsdPolls
  <2> QED BY <1>8, <2>1 DEF ReadInv
<1>9. CASE OsdPolls /\ osd.op = "read"
  <2>1. /\ Byte(Card!More(Zero)) /\ command = "MCU_READ" /\ byte_cnt > 0
        /\ osd.pc = "poll" /\ osd.n = 0 /\ Own' = Own
        /\ osd' = IF Card!Ready(data_out) THEN [osd EXCEPT !.pc = "data"] ELSE osd
    BY <1>9 DEF OsdPolls, PathInv, McuInv, Said, OsdCommandIs, Own
  <2>2. dinb_we = NoBeat /\ (Fetching \/ Fetched \/ Offered)
    BY <1>9, <2>1 DEF ReadInv
  <2>3. /\ rstart_int => state' = state
        /\ ~rstart_int => state' = "MCU_READ_TX"
        /\ state # "MCU_READ_TX" => data_out' = Card!Level(Up)
        /\ state # "MCU_READ_TX" /\ ~rstart_int => mcu_tx_cnt' = 0
        /\ state = "MCU_READ_TX" => /\ data_out' = Card!BeatIs(buffer[mcu_tx_cnt])
                                    /\ mcu_tx_cnt' = (mcu_tx_cnt + 1) % Beats
        /\ dinb_we' = NoBeat
    BY <2>1, <2>2, ReadByte
  <2>4. PICK in : Fpga(in, FALSE) /\ Harmless(in)
    BY <2>1, HarmlessBytes DEF Byte
  <2>5. Card!Ready(Card!Level(FALSE)) /\ ~Card!Ready(Card!Level(TRUE))
    BY DEF Card!Ready, Card!Level
  <2>6. CASE Fetching
    <3>1. osd' = osd
      BY <2>1, <2>5, <2>6 DEF Fetching
    <3>2. Up = TRUE
      BY <2>6 DEF Fetching, Up
    <3>3. state' = "MCU_READ_SD" /\ data_out' = Card!Level(TRUE)
      BY <2>3, <2>6, <3>2 DEF Fetching
    <3>4. Fetching' \/ Fetched'
      BY <2>1, <2>2, <2>3, <2>4, <2>6, <3>3, FetchMoves DEF Fetching, Fetched, Filled, Quiet, PathInv
    <3> QED BY <1>9, <2>1, <2>3, <3>1, <3>4 DEF ReadInv
  <2>7. CASE Fetched
    <3>1. osd' = osd
      BY <2>1, <2>5, <2>7 DEF Fetched
    <3>2. Up = FALSE /\ ~rstart_int /\ state # "MCU_READ_TX"
      BY <2>7 DEF Fetched, Quiet, Up
    <3>3. state' = "MCU_READ_TX" /\ data_out' = Card!Level(FALSE) /\ mcu_tx_cnt' = 0
      BY <2>3, <3>2
    <3>4. Quiet' /\ \A i \in 0 .. Beats - 1 : buffer'[i] = Content(Own, i)
      BY <2>4, <2>7, QuietMoves DEF Fetched, Filled, PathInv
    <3>5. Offered'
      BY <2>1, <3>3, <3>4 DEF Offered, Filled
    <3> QED BY <1>9, <2>1, <2>3, <3>1, <3>5 DEF ReadInv
  <2>8. CASE Offered
    <3>1. osd'.pc = "data" /\ osd'.n = 0
      BY <2>1, <2>5, <2>8 DEF Offered
    <3>2. ~rstart_int /\ state = "MCU_READ_TX" /\ mcu_tx_cnt = 0 /\ buffer[0] = Content(Own, 0)
      BY <2>8, Numbers DEF Offered, Quiet, Up, Filled
    <3>3. state' = "MCU_READ_TX" /\ data_out' = Card!BeatIs(Content(Own, 0)) /\ mcu_tx_cnt' = (0 + 1) % Beats
      BY <2>3, <3>2
    <3>4. Quiet' /\ \A i \in 0 .. Beats - 1 : buffer'[i] = Content(Own, i)
      BY <2>4, <2>8, QuietMoves DEF Offered, Filled, PathInv
    <3>5. Taken'
      BY <2>1, <3>1, <3>3, <3>4 DEF Taken, Filled
    <3> QED BY <1>9, <2>1, <3>1, <3>5 DEF ReadInv
  <2> QED BY <2>2, <2>6, <2>7, <2>8
<1>10. CASE OsdSends
  <2>1. osd'.pc \in {"poll", "data"} /\ osd'.op = "write"
    BY <1>10 DEF OsdSends
  <2> QED BY <2>1 DEF ReadInv
<1>11. CASE OsdReceives
  <2>1. /\ Byte(Card!More(Zero)) /\ command = "MCU_READ" /\ byte_cnt > 0 /\ Taken
        /\ osd.op = "read"
    BY <1>11 DEF OsdReceives, PathInv, McuInv, Said, OsdCommandIs, ReadInv
  <2>2. CASE osd.n < Beats - 1
    <3>1. osd'.pc = "data" /\ osd'.n = osd.n + 1 /\ Own' = Own
      BY <1>11, <2>2 DEF OsdReceives, Own
    <3>2. osd.n + 1 \in 0 .. Beats - 1 /\ mcu_tx_cnt = osd.n + 1
      BY <2>1, <2>2, Numbers DEF Taken
    <3>3. /\ state' = "MCU_READ_TX"
          /\ data_out' = Card!BeatIs(buffer[mcu_tx_cnt]) /\ mcu_tx_cnt' = (mcu_tx_cnt + 1) % Beats
      BY <2>1, ReadByte DEF Taken, Quiet, Up
    <3>4. buffer[mcu_tx_cnt] = Content(Own, osd.n + 1)
      BY <2>1, <3>2 DEF Taken, Filled
    <3>5. PICK in : Fpga(in, FALSE) /\ Harmless(in)
      BY <2>1, HarmlessBytes DEF Byte
    <3>6. Quiet' /\ \A i \in 0 .. Beats - 1 : buffer'[i] = Content(Own, i)
      BY <2>1, <3>5, QuietMoves DEF Taken, Filled, PathInv
    <3>7. Taken'
      BY <3>1, <3>2, <3>3, <3>4, <3>6 DEF Taken, Filled
    <3> QED BY <3>1, <3>7 DEF ReadInv
  <2>3. CASE ~(osd.n < Beats - 1)
    <3>1. osd'.pc \in {"idle", "status"}
      BY <1>11, <2>3 DEF OsdReceives
    <3> QED BY <3>1 DEF ReadInv
  <2> QED BY <2>2, <2>3
<1>12. CASE OsdSize
  BY <1>12 DEF OsdSize, ReadInv
<1> QED BY <1>1, <1>2, <1>3, <1>4, <1>5, <1>6, <1>7, <1>8, <1>9, <1>10, <1>11, <1>12 DEF OsdStep

LEMMA ReadKept == ASSUME PathInv, ReadInv, Next PROVE ReadInv'
<1>1. Follows
  BY ArbKept DEF PathInv, McuInv, McuTypes
<1> QED BY <1>1, ReadWaits, ReadSteps DEF Next, QuietClock

LEMMA ReadStutters == ASSUME ReadInv, UNCHANGED vars PROVE ReadInv'
BY DEF vars, arbVars, cardVars, rwVars, sysVars, clientVars, mcuVars, ReadInv, Quiet, Up, Rests, Reads,
   Own, Fetching, Fetched, Offered, Taken, Filled, Passed, MovedNow, Card!Level, Card!BeatIs, Content

(* The answers the firmware takes as the data of a sector it reads are     *)
(* that sector's beats in order, whatever the clients ask meanwhile.       *)
THEOREM McuReadsItsSectorHolds == Spec => []McuReadsItsSector
<1>1. Init => ReadInv
  BY DEF Init, ReadInv
<1>2. PathInv /\ ReadInv /\ [Next]_vars => ReadInv'
  BY ReadKept, ReadStutters
<1>3. ReadInv => McuReadsItsSector
  BY DEF ReadInv, Taken, Own, McuReadsItsSector
<1> QED BY <1>1, <1>2, <1>3, PathHolds, PTL DEF Spec
-----------------------------------------------------------------------------
(* The firmware alone.  Nothing is asked of the arbiter, so spi_task sleeps *)
(* and the OSD's task is the only one to speak.                            *)
NoClients == mix.clients = {}

SoleMcu ==
  /\ c_rd = {} /\ c_wr = {} /\ arb_state = "S_IDLE" /\ Shown = {}
  /\ ~irq /\ task.pc = "wait"
  /\ state # "CORE_IO"
  /\ osd.sector \in Sector

Sending == osd.op = "write" /\ osd.pc = "data"

(* The MCU's beats of a write on their way: n of them are in the buffer,   *)
(* or n - 1 and the last one is in front of it.                            *)
SendInv ==
  Sending =>
    /\ state = "MCU_WRITE_RX" /\ ~Up /\ Rests /\ lsector = Own
    /\ \/ dinb_we = NoBeat /\ mcu_tx_cnt = osd.n /\ Filled(Own, osd.n)
       \/ /\ dinb_we # NoBeat /\ dinb_we = Content(Own, osd.n - 1)
          /\ osd.n > 0 /\ mcu_tx_cnt = osd.n - 1 /\ Filled(Own, osd.n - 1)

(* The last beat on its way, the only one that starts the transfer.        *)
LastInv ==
  state = "MCU_WRITE_RX" /\ ~Sending =>
    /\ ~Up /\ Rests
    /\ dinb_we # NoBeat /\ dinb_we = Content(lsector, Beats - 1)
    /\ mcu_tx_cnt = Beats - 1 /\ Filled(lsector, Beats - 1)

(* The transfer, of a buffer that holds the sector it goes to.             *)
MovesInv ==
  /\ wstart_int => /\ state = "MCU_WRITE_SD" /\ dinb_we = NoBeat
                   /\ Filled(lsector, Beats)
  /\ WritesNow => wstart_int /\ sectoraddr.lba = lsector
  /\ dinb_we # NoBeat => state = "MCU_WRITE_RX"

SoleInv == NoClients => SoleMcu /\ SendInv /\ LastInv /\ MovesInv

(* The bytes of a step that neither opens a write nor sends a beat of one. *)
Elsewhere(in) ==
  /\ ~Card!Starts(in, "CORE_RW")
  /\ ~Card!IsByte(in, "MCU_WRITE", 0)
  /\ wstart_int => /\ ~Card!Starts(in, "MCU_READ") /\ ~Card!IsLater(in, "MCU_READ")
                   /\ ~Card!Addresses(in)
  /\ gap # 0 => in = Card!NoByte
  /\ IF Sending THEN in = Card!NoByte /\ osd' = osd ELSE ~Sending'

LEMMA SoleBytes ==
  ASSUME PathInv, ReadInv, NoClients, SoleMcu, MovesInv, Next
  PROVE  \/ OsdAddress /\ osd.op = "write"
         \/ OsdSends
         \/ \E in, ack : Fpga(in, ack) /\ Elsewhere(in)
<1>0. /\ osd = [pc |-> osd.pc, op |-> osd.op, sector |-> osd.sector, n |-> osd.n]
      /\ osd.op \in {"read", "write", "insert"} /\ byte_cnt \in 0 .. 2
  BY DEF PathInv, McuInv, McuTypes
<1>1. /\ wstart_int => state # "MCU_READ_SD" /\ state # "MCU_READ_TX" /\ ~Quiet
  BY DEF MovesInv, Quiet, Up
<1> USE <1>0 DEF OsdGoes, Elsewhere, Sending
<1>2. /\ \A c, d : Card!Starts(Card!Command(c), d) <=> c = d
      /\ \A v, d : ~Card!Starts(Card!More(v), d)
      /\ \A c, d : ~Card!IsByte(Card!Command(c), d, 0) /\ ~Card!IsLater(Card!Command(c), d)
      /\ \A c : ~Card!Addresses(Card!Command(c))
  BY DEF Card!Starts, Card!IsByte, Card!IsLater, Card!Addresses, Card!Command, Card!More
<1>3. ~Card!Starts(Card!NoByte, "CORE_RW") /\ ~Card!IsByte(Card!NoByte, "MCU_WRITE", 0)
      /\ ~Card!Starts(Card!NoByte, "MCU_READ") /\ ~Card!IsLater(Card!NoByte, "MCU_READ")
      /\ ~Card!Addresses(Card!NoByte)
  BY DEF Card!Starts, Card!IsByte, Card!IsLater, Card!Addresses, Card!NoByte
<1>4. CASE QuietClock
  BY <1>3, <1>4 DEF QuietClock, NoByte
<1>5. ~TaskStep
  BY DEF SoleMcu, TaskStep, TaskWakes, TaskAcks, TaskReadsPending, TaskStatus, TaskFetchesMask,
     TaskReadsRequest, TaskReadsSector, TaskLocks, TaskCoreRw, TaskAddress, TaskPolls
<1>6. CASE OsdBegins
  BY <1>3, <1>6 DEF OsdBegins, NoByte
<1>7. CASE OsdLocks
  BY <1>3, <1>7 DEF OsdLocks, NoByte
<1>8. CASE OsdStatus
  <2>1. Fpga(Card!Command("STATUS"), FALSE) /\ gap = 0 /\ ~Sending /\ ~Sending'
    BY <1>8 DEF OsdStatus, Byte
  <2> QED BY <1>2, <2>1
<1>9. CASE OsdReadsBusy
  <2>1. Fpga(Card!More(Zero), FALSE) /\ gap = 0 /\ ~Sending /\ ~Sending' /\ command = "STATUS"
    BY <1>9 DEF OsdReadsBusy, Byte, PathInv, McuInv, Said
  <2>2. /\ ~Card!IsByte(Card!More(Zero), "MCU_WRITE", 0) /\ ~Card!IsLater(Card!More(Zero), "MCU_READ")
        /\ ~Card!Addresses(Card!More(Zero))
    BY <2>1 DEF Card!IsByte, Card!IsLater, Card!Addresses
  <2> QED BY <1>2, <2>1, <2>2
<1>10. CASE OsdCommand
  <2>1. PICK c : /\ Fpga(Card!Command(c), FALSE) /\ gap = 0 /\ ~Sending /\ ~Sending'
                 /\ c \in {"MCU_READ", "MCU_WRITE", "INSERTED"}
                 /\ c = "MCU_READ" => osd.op = "read"
    <3>1. Byte(Card!Command(OsdCommandIs)) /\ osd'.pc = "address" /\ osd.pc = "command"
      BY <1>10 DEF OsdCommand, OsdCommandIs
    <3>2. OsdCommandIs \in {"MCU_READ", "MCU_WRITE", "INSERTED"}
          /\ (OsdCommandIs = "MCU_READ" => osd.op = "read")
      BY DEF OsdCommandIs
    <3> QED BY <3>1, <3>2 DEF Byte
  <2>2. wstart_int => c # "MCU_READ"
    BY <1>1, <1>10, <2>1 DEF OsdCommand, ReadInv
  <2> QED BY <1>2, <2>1, <2>2
<1>11. CASE OsdAddress /\ osd.op = "insert"
  BY <1>11 DEF OsdAddress, NoClients
<1>12. CASE OsdAddress /\ osd.op = "read"
  <2>1. PICK s : Fpga(Card!More(<<NClients, s>>), FALSE) /\ gap = 0 /\ ~Sending /\ ~Sending'
    BY <1>12 DEF OsdAddress, Byte
  <2>2. command = "MCU_READ" /\ ~wstart_int
    BY <1>1, <1>12 DEF OsdAddress, PathInv, McuInv, Said, OsdCommandIs, ReadInv
  <2>3. ~Card!IsByte(Card!More(<<NClients, s>>), "MCU_WRITE", 0)
    BY <2>2 DEF Card!IsByte
  <2> QED BY <1>2, <2>1, <2>2, <2>3
<1>13. CASE OsdPolls
  <2>1. Fpga(Card!More(Zero), FALSE) /\ gap = 0 /\ ~Sending /\ ~Sending' /\ osd.pc = "poll"
    BY <1>13 DEF OsdPolls, Byte
  <2>2. command = OsdCommandIs /\ byte_cnt > 0 /\ osd.op \in {"read", "write"}
    BY <2>1 DEF PathInv, McuInv, McuTypes, Said
  <2>3. wstart_int => osd.op # "read"
    BY <1>1, <2>1 DEF ReadInv, Fetching, Fetched, Offered
  <2>4. /\ ~Card!IsByte(Card!More(Zero), "MCU_WRITE", 0)
        /\ ~Card!Addresses(Card!More(Zero))
        /\ wstart_int => ~Card!IsLater(Card!More(Zero), "MCU_READ")
    BY <2>2, <2>3 DEF Card!IsByte, Card!IsLater, Card!Addresses, OsdCommandIs
  <2> QED BY <1>2, <2>1, <2>4
<1>14. CASE OsdReceives
  <2>1. /\ Fpga(Card!More(Zero), FALSE) /\ gap = 0 /\ ~Sending /\ ~Sending'
        /\ osd.pc = "data" /\ osd.op = "read"
    BY <1>14 DEF OsdReceives, Byte
  <2>2. command = "MCU_READ" /\ ~wstart_int
    BY <1>1, <2>1 DEF PathInv, McuInv, Said, OsdCommandIs, ReadInv, Taken
  <2>3. ~Card!IsByte(Card!More(Zero), "MCU_WRITE", 0)
    BY <2>2 DEF Card!IsByte
  <2> QED BY <1>2, <2>1, <2>2, <2>3
<1>15. CASE OsdSize
  <2>1. Fpga(Card!More(Zero), FALSE) /\ gap = 0 /\ ~Sending /\ ~Sending' /\ command = "INSERTED"
    BY <1>15 DEF OsdSize, Byte, PathInv, McuInv, McuTypes, Said, OsdCommandIs
  <2>2. /\ ~Card!IsByte(Card!More(Zero), "MCU_WRITE", 0) /\ ~Card!IsLater(Card!More(Zero), "MCU_READ")
        /\ ~Card!Addresses(Card!More(Zero))
    BY <2>1 DEF Card!IsByte, Card!IsLater, Card!Addresses
  <2> QED BY <1>2, <2>1, <2>2
<1> QED BY <1>4, <1>5, <1>6, <1>7, <1>8, <1>9, <1>10, <1>11, <1>12, <1>13, <1>14, <1>15 DEF Next, OsdStep

LEMMA SoleMcuKept ==
  ASSUME PathInv, ReadInv, NoClients, SoleMcu, MovesInv, Next
  PROVE  SoleMcu'
<1>1. PICK in, ack : Fpga(in, ack)
  BY StepIsClock
<1>2. /\ Arb!Clock(c_rd, c_wr, c_sector, Rw!rbusy, Rw!rdone) /\ ClientClock
      /\ Card!IrqClock(Shown # {}, int_ack) /\ ArbInv
  BY <1>1, ClockParts DEF PathInv
<1>3. c_rd' = {} /\ c_wr' = {}
  BY <1>2 DEF SoleMcu, NoClients, ClientClock, NobodyAsks
<1>4. arb_state' = "S_IDLE" /\ Shown' = {}
  BY <1>2 DEF SoleMcu, Arb!Clock, Arb!IdleClock, Arb!ReqClock, Arb!XferClock, Shown
<1>5. ~irq'
  BY <1>2 DEF SoleMcu, Card!IrqClock
<1>6. ~TaskStep
  BY DEF SoleMcu, TaskStep, TaskWakes, TaskAcks, TaskReadsPending, TaskStatus, TaskFetchesMask,
     TaskReadsRequest, TaskReadsSector, TaskLocks, TaskCoreRw, TaskAddress, TaskPolls
<1>7. task' = task
  BY <1>6 DEF Next, QuietClock
<1>8. state' # "CORE_IO"
  <2>1. \E i, a : Fpga(i, a) /\ ~Card!Starts(i, "CORE_RW")
    <3>1. CASE OsdAddress \/ OsdSends
      <4>1. \E v : Byte(Card!More(v))
        BY <3>1 DEF OsdAddress, OsdSends
      <4>2. \A v : ~Card!Starts(Card!More(v), "CORE_RW")
        BY DEF Card!Starts, Card!More
      <4> QED BY <4>1, <4>2 DEF Byte
    <3> QED BY <3>1, SoleBytes DEF Elsewhere
  <2>2. PICK i, a : Card!StateClock(i) /\ ~Card!Starts(i, "CORE_RW")
    BY <2>1, ClockParts
  <2> QED BY <2>2 DEF Card!StateClock, SoleMcu
<1>9. osd'.sector \in Sector
  <2>0. /\ osd = [pc |-> osd.pc, op |-> osd.op, sector |-> osd.sector, n |-> osd.n]
        /\ mix.sectors \subseteq Sector
    BY SdPathAssumption DEF PathInv, McuInv, McuTypes
  <2>1. CASE OsdAddress
    BY <2>0, <2>1 DEF OsdAddress, SoleMcu, OsdGoes
  <2>2. CASE ~OsdAddress
    BY <1>6, <2>0, <2>2 DEF Next, QuietClock, OsdStep, OsdBegins, OsdLocks, OsdStatus, OsdReadsBusy,
       OsdCommand, OsdPolls, OsdSends, OsdReceives, OsdSize, OsdGoes, SoleMcu
  <2> QED BY <2>1, <2>2
<1> QED BY <1>3, <1>4, <1>5, <1>7, <1>8, <1>9 DEF SoleMcu
LEMMA OpensWrite ==
  ASSUME PathInv, Follows, ReadInv, SoleMcu, MovesInv, SoleMcu', OsdAddress, osd.op = "write"
  PROVE  SendInv' /\ LastInv' /\ MovesInv'
<1>0. osd = [pc |-> osd.pc, op |-> osd.op, sector |-> osd.sector, n |-> osd.n]
  BY DEF PathInv, McuInv, McuTypes
<1>1. PICK s : /\ Byte(Card!More(<<NClients, s>>))
               /\ osd' = [osd EXCEPT !.pc = "data", !.sector = s, !.n = 0]
  BY DEF OsdAddress
<1>2. command = "MCU_WRITE" /\ byte_cnt = 0 /\ Quiet
  BY DEF OsdAddress, PathInv, McuInv, Said, OsdCommandIs, ReadInv
<1>3. /\ Card!LevelClock(Card!More(<<NClients, s>>), a_rstart # {}, a_wstart # {}, Rw!rdone)
      /\ Card!StateClock(Card!More(<<NClients, s>>))
      /\ Card!BufferClock(Card!More(<<NClients, s>>), louten, outaddr, Outbyte)
  BY <1>1, ClockParts DEF Byte
<1>4. /\ ~Card!LastBeatIn
      /\ Card!IsByte(Card!More(<<NClients, s>>), "MCU_WRITE", 0)
      /\ ~Card!IsLater(Card!More(<<NClients, s>>), "MCU_WRITE")
      /\ ~Card!IsLater(Card!More(<<NClients, s>>), "MCU_READ")
      /\ ~Card!Starts(Card!More(<<NClients, s>>), "CORE_RW")
      /\ ~Card!Starts(Card!More(<<NClients, s>>), "MCU_READ")
      /\ ~Card!Addresses(Card!More(<<NClients, s>>))
  BY <1>2 DEF Card!LastBeatIn, Quiet, Card!IsByte, Card!IsLater, Card!Starts, Card!Addresses, Card!More
<1>5. ~Up' /\ lsector' = <<NClients, s>>
  BY <1>2, <1>3, <1>4 DEF Card!LevelClock, Up, Quiet, Card!More
<1>6. state' = "MCU_WRITE_RX"
  BY <1>3, <1>4 DEF Card!StateClock
<1>7. dinb_we' = NoBeat /\ mcu_tx_cnt' = 0
  BY <1>3, <1>4 DEF Card!BufferClock, Card!Sends
<1>8. Rests'
  BY <1>2 DEF Follows, Quiet
<1>9. osd'.pc = "data" /\ osd'.op = "write" /\ osd'.n = 0 /\ Own' = <<NClients, s>>
  BY <1>0, <1>1 DEF Own
<1> QED BY <1>5, <1>6, <1>7, <1>8, <1>9 DEF SendInv, LastInv, MovesInv, Sending, Filled, Up, Rests,
       WritesNow

LEMMA SendsBeat ==
  ASSUME PathInv, Follows, SoleMcu, SendInv, OsdSends
  PROVE  SendInv' /\ LastInv' /\ MovesInv'
<1>0. /\ osd = [pc |-> osd.pc, op |-> osd.op, sector |-> osd.sector, n |-> osd.n]
      /\ osd.n \in 0 .. Beats - 1 /\ byte_cnt \in 0 .. 2
  BY DEF PathInv, McuInv, McuTypes
<1>1. /\ Byte(Card!More(Content(Own, osd.n))) /\ Sending
      /\ osd' = IF osd.n = Beats - 1 THEN [osd EXCEPT !.pc = "poll", !.n = 0]
                ELSE [osd EXCEPT !.n = osd.n + 1]
  BY DEF OsdSends, Own, Sending
<1>2. command = "MCU_WRITE" /\ byte_cnt > 0
  BY <1>1 DEF Sending, PathInv, McuInv, Said, OsdCommandIs
<1>3. dinb_we = NoBeat
  BY <1>1, Numbers DEF Byte, PathInv, TimeInv
<1>4. /\ state = "MCU_WRITE_RX" /\ ~Up /\ Rests /\ lsector = Own
      /\ mcu_tx_cnt = osd.n /\ Filled(Own, osd.n)
  BY <1>1, <1>3 DEF SendInv
<1>5. /\ Card!LevelClock(Card!More(Content(Own, osd.n)), a_rstart # {}, a_wstart # {}, Rw!rdone)
      /\ Card!StateClock(Card!More(Content(Own, osd.n)))
      /\ Card!BufferClock(Card!More(Content(Own, osd.n)), louten, outaddr, Outbyte)
  BY <1>1, ClockParts DEF Byte
<1>6. /\ ~Card!LastBeatIn
      /\ ~Card!IsByte(Card!More(Content(Own, osd.n)), "MCU_WRITE", 0)
      /\ Card!IsLater(Card!More(Content(Own, osd.n)), "MCU_WRITE")
      /\ ~Card!IsLater(Card!More(Content(Own, osd.n)), "MCU_READ")
      /\ ~Card!Starts(Card!More(Content(Own, osd.n)), "CORE_RW")
      /\ ~Card!Starts(Card!More(Content(Own, osd.n)), "MCU_READ")
      /\ ~Card!Addresses(Card!More(Content(Own, osd.n)))
  BY <1>0, <1>2, <1>3 DEF Card!LastBeatIn, Card!IsByte, Card!IsLater, Card!Starts, Card!Addresses, Card!More
<1>7. ~Up' /\ lsector' = Own
  BY <1>4, <1>5, <1>6 DEF Card!LevelClock, Up
<1>8. state' = "MCU_WRITE_RX"
  BY <1>4, <1>5, <1>6 DEF Card!StateClock
<1>9. dinb_we' = Content(Own, osd.n) /\ mcu_tx_cnt' = osd.n
  BY <1>3, <1>4, <1>5, <1>6 DEF Card!BufferClock, Card!Sends, Up, Card!More
<1>10. \A i \in 0 .. Beats - 1 : buffer'[i] = buffer[i]
  BY <1>3, <1>4, <1>5 DEF Card!BufferClock
<1>11. \A i \in 0 .. osd.n - 1 : buffer'[i] = Content(Own, i)
  <2>1. \A i \in 0 .. osd.n - 1 : i \in 0 .. Beats - 1
    BY <1>0, Numbers
  <2> QED BY <1>4, <1>10, <2>1 DEF Filled
<1>12. Rests'
  BY <1>4 DEF Follows
<1>13. Content(Own, osd.n) # NoBeat
  <2>1. Content(Own, osd.n) \in [lba : (0 .. NClients) \X Sector, ix : 0 .. Beats - 1]
    <3>1. NClients \in 0 .. NClients
      BY SdPathAssumption
    <3>2. Own \in (0 .. NClients) \X Sector
      BY <3>1 DEF SoleMcu, Own
    <3> QED BY <1>0, <3>2 DEF Content
  <2> QED BY <2>1, SdPathAssumption
<1>14. CASE osd.n = Beats - 1
  <2>1. osd'.pc = "poll" /\ Own' = Own
    BY <1>0, <1>1, <1>14 DEF Own
  <2> QED BY <1>7, <1>8, <1>9, <1>11, <1>12, <1>13, <1>14, <2>1
          DEF SendInv, LastInv, MovesInv, Sending, Filled, Up, Rests, WritesNow
<1>15. CASE osd.n # Beats - 1
  <2>1. osd'.pc = "data" /\ osd'.op = "write" /\ osd'.n = osd.n + 1 /\ Own' = Own
    BY <1>0, <1>1, <1>15 DEF Own, Sending
  <2>2. (osd.n + 1) - 1 = osd.n /\ osd.n + 1 > 0
    BY <1>0
  <2>3. osd'.n - 1 = osd.n /\ osd'.n > 0
    BY <2>1, <2>2
  <2>4. Sending'
    BY <2>1 DEF Sending
  <2>5. SendInv'
    BY <1>7, <1>8, <1>9, <1>11, <1>12, <1>13, <2>1, <2>3 DEF SendInv, Filled
  <2> QED BY <1>7, <1>8, <1>12, <2>4, <2>5 DEF LastInv, MovesInv, Up, Rests, WritesNow
<1> QED BY <1>14, <1>15

(* A silent clock puts the beat that is on its way into the buffer.        *)
LEMMA SilentBuffer ==
  ASSUME NEW ack, Fpga(Card!NoByte, ack), state # "MCU_READ_SD"
  PROVE  /\ dinb_we' = NoBeat
         /\ dinb_we = NoBeat => mcu_tx_cnt' = mcu_tx_cnt
         /\ dinb_we # NoBeat /\ mcu_tx_cnt # Beats - 1 => mcu_tx_cnt' = mcu_tx_cnt + 1
         /\ \A i \in 0 .. Beats - 1 :
              buffer'[i] = IF dinb_we # NoBeat /\ i = mcu_tx_cnt THEN dinb_we ELSE buffer[i]
         /\ state' = IF dinb_we # NoBeat /\ mcu_tx_cnt = Beats - 1 THEN "MCU_WRITE_SD" ELSE state
         /\ lsector' = lsector
         /\ rstart_int' => rstart_int
         /\ wstart_int' => wstart_int \/ (dinb_we # NoBeat /\ mcu_tx_cnt = Beats - 1)
<1>1. /\ Card!BufferClock(Card!NoByte, louten, outaddr, Outbyte) /\ Card!StateClock(Card!NoByte)
      /\ Card!LevelClock(Card!NoByte, a_rstart # {}, a_wstart # {}, Rw!rdone)
  BY ClockParts
<1>2. /\ ~Card!IsByte(Card!NoByte, "MCU_WRITE", 0)
      /\ ~Card!IsLater(Card!NoByte, "MCU_WRITE") /\ ~Card!IsLater(Card!NoByte, "MCU_READ")
      /\ ~Card!Starts(Card!NoByte, "CORE_RW") /\ ~Card!Starts(Card!NoByte, "MCU_READ")
      /\ ~Card!Addresses(Card!NoByte) /\ ~Card!Sends(Card!NoByte)
  BY DEF Card!IsByte, Card!IsLater, Card!Starts, Card!Addresses, Card!Sends, Card!NoByte
<1>3. /\ dinb_we' = NoBeat
      /\ dinb_we = NoBeat => mcu_tx_cnt' = mcu_tx_cnt
      /\ dinb_we # NoBeat /\ mcu_tx_cnt # Beats - 1 => mcu_tx_cnt' = mcu_tx_cnt + 1
      /\ \A i \in 0 .. Beats - 1 :
           buffer'[i] = IF dinb_we # NoBeat /\ i = mcu_tx_cnt THEN dinb_we ELSE buffer[i]
  BY <1>1, <1>2 DEF Card!BufferClock, Card!LastBeatIn
<1>4. state' = IF dinb_we # NoBeat /\ mcu_tx_cnt = Beats - 1 THEN "MCU_WRITE_SD" ELSE state
  BY <1>1, <1>2 DEF Card!StateClock, Card!LastBeatIn
<1>5. /\ lsector' = lsector
      /\ rstart_int' => rstart_int
      /\ wstart_int' => wstart_int \/ (dinb_we # NoBeat /\ mcu_tx_cnt = Beats - 1)
  BY <1>1, <1>2 DEF Card!LevelClock, Card!LastBeatIn
<1> QED BY <1>3, <1>4, <1>5

LEMMA SendWaits ==
  ASSUME PathInv, Follows, SoleMcu, SendInv, Sending, NEW ack, Fpga(Card!NoByte, ack), osd' = osd
  PROVE  SendInv' /\ LastInv' /\ MovesInv'
<1>0. osd.n \in 0 .. Beats - 1 /\ Own' = Own /\ Sending'
  BY DEF PathInv, McuInv, McuTypes, Own, Sending
<1>1. /\ state = "MCU_WRITE_RX" /\ ~Up /\ Rests /\ lsector = Own
      /\ \/ dinb_we = NoBeat /\ mcu_tx_cnt = osd.n /\ Filled(Own, osd.n)
         \/ /\ dinb_we # NoBeat /\ dinb_we = Content(Own, osd.n - 1)
            /\ osd.n > 0 /\ mcu_tx_cnt = osd.n - 1 /\ Filled(Own, osd.n - 1)
  BY DEF SendInv
<1>2. dinb_we # NoBeat => mcu_tx_cnt # Beats - 1
  BY <1>0, <1>1, Numbers
<1>3. /\ dinb_we' = NoBeat /\ state' = "MCU_WRITE_RX" /\ lsector' = Own /\ ~Up'
  BY <1>1, <1>2, SilentBuffer DEF Up
<1>4. Rests'
  BY <1>1 DEF Follows
<1>5. mcu_tx_cnt' = osd.n /\ \A i \in 0 .. osd.n - 1 : buffer'[i] = Content(Own, i)
  <2>1. /\ dinb_we = NoBeat => mcu_tx_cnt' = mcu_tx_cnt
        /\ dinb_we # NoBeat => mcu_tx_cnt' = mcu_tx_cnt + 1
        /\ \A i \in 0 .. Beats - 1 :
             buffer'[i] = IF dinb_we # NoBeat /\ i = mcu_tx_cnt THEN dinb_we ELSE buffer[i]
    BY <1>1, <1>2, SilentBuffer
  <2>2. \A i \in 0 .. osd.n - 1 : i \in 0 .. Beats - 1 /\ (i = osd.n - 1 \/ i \in 0 .. osd.n - 1 - 1)
    BY <1>0, Numbers
  <2>3. CASE dinb_we = NoBeat
    BY <1>1, <2>1, <2>2, <2>3 DEF Filled
  <2>4. CASE dinb_we # NoBeat
    <3>1. mcu_tx_cnt = osd.n - 1 /\ (osd.n - 1) + 1 = osd.n
      BY <1>0, <1>1, <2>4
    <3>2. mcu_tx_cnt' = osd.n
      BY <2>1, <2>4, <3>1
    <3>3. dinb_we = Content(Own, osd.n - 1) /\ \A i \in 0 .. osd.n - 1 - 1 : buffer[i] = Content(Own, i)
      BY <1>1, <2>4 DEF Filled
    <3> QED BY <2>1, <2>2, <2>4, <3>1, <3>2, <3>3
  <2> QED BY <2>3, <2>4
<1>6. SendInv'
  BY <1>0, <1>3, <1>4, <1>5 DEF SendInv, Filled
<1> QED BY <1>0, <1>3, <1>4, <1>6 DEF LastInv, MovesInv, Up, Rests, WritesNow

(* The last beat reaches the buffer, and the transfer is asked for.        *)
LEMMA LastArrives ==
  ASSUME PathInv, Follows, SoleMcu, LastInv, ~Sending, ~Sending', state = "MCU_WRITE_RX",
         NEW ack, Fpga(Card!NoByte, ack)
  PROVE  SendInv' /\ LastInv' /\ MovesInv'
<1>1. /\ ~Up /\ Rests
      /\ dinb_we # NoBeat /\ dinb_we = Content(lsector, Beats - 1)
      /\ mcu_tx_cnt = Beats - 1 /\ Filled(lsector, Beats - 1)
  BY DEF LastInv
<1>2. /\ dinb_we' = NoBeat /\ state' = "MCU_WRITE_SD" /\ lsector' = lsector
      /\ \A i \in 0 .. Beats - 1 :
           buffer'[i] = IF dinb_we # NoBeat /\ i = mcu_tx_cnt THEN dinb_we ELSE buffer[i]
  BY <1>1, SilentBuffer
<1>3. \A i \in 0 .. Beats - 1 : buffer'[i] = Content(lsector, i)
  <2>1. \A i \in 0 .. Beats - 1 : i = Beats - 1 \/ i \in 0 .. Beats - 1 - 1
    BY Numbers
  <2> QED BY <1>1, <1>2, <2>1 DEF Filled
<1>4. Rests'
  BY <1>1 DEF Follows
<1> QED BY <1>2, <1>3, <1>4 DEF SendInv, LastInv, MovesInv, Filled, Rests, WritesNow

(* The transfer of a write moves what the buffer holds.                    *)
LEMMA WriteMovesOn ==
  ASSUME PathInv, Follows, SoleMcu, MovesInv, ~Sending, ~Sending', wstart_int,
         NEW in, NEW ack, Fpga(in, ack), Elsewhere(in)
  PROVE  SendInv' /\ LastInv' /\ MovesInv'
<1>1. state = "MCU_WRITE_SD" /\ dinb_we = NoBeat /\ Filled(lsector, Beats)
  BY DEF MovesInv
<1>2. /\ Card!LevelClock(in, a_rstart # {}, a_wstart # {}, Rw!rdone)
      /\ Card!StateClock(in)
      /\ Card!BufferClock(in, louten, outaddr, Outbyte)
  BY ClockParts
<1>3. /\ lsector' = lsector
      /\ wstart_int' <=> ~Rw!rdone
  BY <1>1, <1>2 DEF Card!LevelClock, Card!LastBeatIn, Elsewhere
<1>4. state' = "MCU_WRITE_SD" /\ dinb_we' = NoBeat
  BY <1>1, <1>2 DEF Card!StateClock, Card!BufferClock, Card!LastBeatIn, Elsewhere
<1>5. \A i \in 0 .. Beats - 1 : buffer'[i] = Content(lsector, i)
  BY <1>1, <1>2 DEF Card!BufferClock, Filled
<1>6. WritesNow' => ~Rw!rdone /\ sectoraddr'.lba = lsector
  <2>1. CASE Rests
    BY <2>1, RestsOut DEF Follows, Up, PathInv
  <2>2. CASE Reads
    BY <2>2 DEF Follows, Reads, WritesNow, Rests, Rw!rdone
  <2>3. CASE WritesNow
    BY <2>3 DEF Follows, MovesInv, WritesNow, Rests
  <2> QED BY <2>1, <2>2, <2>3 DEF PathInv, RwInv, CmdInv
<1> QED BY <1>3, <1>4, <1>5, <1>6 DEF SendInv, LastInv, MovesInv, Filled

LEMMA NothingMoves ==
  ASSUME PathInv, Follows, SoleMcu, MovesInv, ~Sending, ~Sending', ~wstart_int,
         state # "MCU_WRITE_RX", NEW in, NEW ack, Fpga(in, ack), Elsewhere(in)
  PROVE  SendInv' /\ LastInv' /\ MovesInv'
<1>1. dinb_we = NoBeat /\ ~WritesNow /\ a_wstart = {}
  BY DEF MovesInv, SoleMcu, Shown
<1>2. /\ Card!LevelClock(in, a_rstart # {}, a_wstart # {}, Rw!rdone)
      /\ Card!StateClock(in)
      /\ Card!BufferClock(in, louten, outaddr, Outbyte)
  BY ClockParts
<1>3. ~wstart_int'
  BY <1>1, <1>2 DEF Card!LevelClock, Card!LastBeatIn
<1>4. state' # "MCU_WRITE_RX" /\ dinb_we' = NoBeat
  BY <1>1, <1>2 DEF Card!StateClock, Card!BufferClock, Card!LastBeatIn, Elsewhere
<1>5. ~WritesNow'
  BY <1>1 DEF Follows, PathInv, RwInv, CmdInv, Reads, WritesNow, Rests, Up, Rw!rdone
<1> QED BY <1>3, <1>4, <1>5 DEF SendInv, LastInv, MovesInv

LEMMA SoleKept == ASSUME PathInv, ReadInv, SoleInv, Next PROVE SoleInv'
<1> SUFFICES ASSUME NoClients' PROVE SoleMcu' /\ SendInv' /\ LastInv' /\ MovesInv'
  BY DEF SoleInv
<1>1. NoClients /\ SoleMcu /\ SendInv /\ LastInv /\ MovesInv
  BY DEF Next, NoClients, SoleInv
<1>2. Follows
  BY ArbKept DEF PathInv, McuInv, McuTypes
<1>3. SoleMcu'
  BY <1>1, SoleMcuKept
<1>4. CASE OsdAddress /\ osd.op = "write"
  BY <1>1, <1>2, <1>3, <1>4, OpensWrite
<1>5. CASE OsdSends
  BY <1>1, <1>2, <1>3, <1>5, SendsBeat
<1>6. ASSUME NEW in, NEW ack, Fpga(in, ack), Elsewhere(in) PROVE SoleMcu' /\ SendInv' /\ LastInv' /\ MovesInv'
  <2>1. CASE Sending
    BY <1>1, <1>2, <1>3, <1>6, <2>1, SendWaits DEF Elsewhere
  <2>2. CASE ~Sending /\ state = "MCU_WRITE_RX"
    <3>1. gap # 0
      BY <1>1, <2>2, Numbers DEF LastInv, PathInv, TimeInv
    <3> QED BY <1>1, <1>2, <1>3, <1>6, <2>2, <3>1, LastArrives DEF Elsewhere
  <2>3. CASE ~Sending /\ wstart_int
    BY <1>1, <1>2, <1>3, <1>6, <2>3, WriteMovesOn DEF Elsewhere
  <2>4. CASE ~Sending /\ state # "MCU_WRITE_RX" /\ ~wstart_int
    BY <1>1, <1>2, <1>3, <1>6, <2>4, NothingMoves DEF Elsewhere
  <2> QED BY <2>1, <2>2, <2>3, <2>4
<1> QED BY <1>1, <1>4, <1>5, <1>6, SoleBytes

LEMMA SoleStarts == Init => SoleInv
<1> SUFFICES ASSUME Init PROVE SoleMcu /\ SendInv /\ LastInv /\ MovesInv
  BY DEF SoleInv
<1>1. mix.sectors \subseteq Sector /\ mix.sectors # {}
  BY SdPathAssumption DEF Init
<1>2. (CHOOSE s \in mix.sectors : TRUE) \in Sector
  BY <1>1
<1> QED BY <1>2 DEF Init, Arb!Init, Card!CardInit, Rw!RwReady, Rw!RwStart, SoleMcu, SendInv, LastInv,
        MovesInv, Sending, Shown, WritesNow

LEMMA SoleStutters == ASSUME SoleInv, UNCHANGED vars PROVE SoleInv'
BY DEF vars, arbVars, cardVars, rwVars, sysVars, clientVars, mcuVars, SoleInv, NoClients, SoleMcu, SendInv,
   LastInv, MovesInv, Sending, Own, Filled, Up, Rests, Shown, WritesNow, Content

(* What goes on the data lines is the sector it goes to, beat for beat: a  *)
(* client's own while the clients are alone, and the one the firmware has  *)
(* put into the buffer while it is alone.                                  *)
THEOREM RightBytesWrittenHolds == Spec => []RightBytesWritten
<1>1. Init => ReadInv /\ SoleInv
  BY SoleStarts DEF Init, ReadInv
<1>2. PathInv /\ ReadInv /\ SoleInv /\ [Next]_vars => (ReadInv /\ SoleInv)'
  BY ReadKept, ReadStutters, SoleKept, SoleStutters
<1>3. PathInv /\ AloneInv /\ SoleInv => RightBytesWritten
  <2> SUFFICES ASSUME PathInv, AloneInv, SoleInv, sddat_stat = "WDATA",
                      ClientsAlone \/ mix.clients = {}
               PROVE  LineByte = Content(sectoraddr.lba, ridx)
    BY DEF RightBytesWritten
  <2>1. sdcmd_stat = "WRITING" /\ outaddr = ridx /\ ridx \in 0 .. Beats - 1
    BY DEF PathInv, RwInv, CmdInv, DataInv, Rests, Reads, WritesNow
  <2>2. CASE ClientsAlone
    <3>1. wstart_int /\ sectoraddr.lba = lsector
      BY <2>1, <2>2 DEF AloneInv, ServeInv, LevelsInv, WritesNow, Rests
    <3>2. arb_state # "S_IDLE" /\ lsector = <<owner, rsector>> /\ state = "CORE_IO"
      BY <2>2, <3>1 DEF AloneInv, ServeInv, LevelsInv, AloneMcu, Up
    <3>3. rsector = c_sector[owner]
      BY <2>2, <3>2 DEF AloneInv, ServeInv, LeaseInv
    <3> QED BY <2>1, <3>1, <3>2, <3>3 DEF LineByte, Inbyte
  <2>3. CASE mix.clients = {}
    <3>1. /\ wstart_int /\ sectoraddr.lba = lsector /\ state # "CORE_IO"
          /\ Filled(lsector, Beats)
      BY <2>1, <2>3 DEF SoleInv, NoClients, SoleMcu, MovesInv, WritesNow
    <3> QED BY <2>1, <3>1 DEF LineByte, Filled
  <2> QED BY <2>2, <2>3
<1> QED BY <1>1, <1>2, <1>3, AloneHolds, PTL DEF Spec
=============================================================================
