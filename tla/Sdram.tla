-------------------------------- MODULE Sdram --------------------------------
(***************************************************************************)
(* sdram.v: the SDRAM controller and its fixed timetable, clock by clock.  *)
(*                                                                         *)
(* A T-state is twelve clocks (tphase), two slots of six: phases 1 to 6    *)
(* are the video's and the refresh's, 7 to 11 and 0 the CPU's and the      *)
(* self-test's.  The chip is external: a row per bank that an ACTIVE opens *)
(* and an access with A10 set closes, and a word that is on the bus a      *)
(* clock after the read is taken, or two (the pads' delay is what the      *)
(* self-test finds out), or never.  The two lanes of a word and the        *)
(* settling time of the chip are abstracted: a byte has an address of its  *)
(* own, and Settle stands for 65535 clocks.                                *)
(***************************************************************************)
EXTENDS Naturals

CONSTANTS
  Bank, Row, Col,  \* an address is a bank, a row and a column
  Byte,            \* what a cell may hold
  NoByte,          \* the bus when nobody drives it
  Stored(_),       \* the bytes found in the cells that are never written
  Cells,           \* the cells that the runs write
  BistAdr,         \* the self-test's four addresses
  BistPat,         \* and its four bytes
  Settle,          \* clocks before the first command
  RefPeriod        \* clocks between two refreshes (234 in the code)

Adr == [bank : Bank, row : Row, col : Col]
NoRow == "none"

ASSUME SdramAssumption ==
  /\ NoRow \notin Row
  /\ NoByte \in Byte
  /\ Cells \subseteq Adr
  /\ \A a \in Adr : Stored(a) \in Byte
  /\ BistAdr \in [0 .. 3 -> Cells] /\ \A i, j \in 0 .. 3 : i # j => BistAdr[i] # BistAdr[j]
  /\ BistPat \in [0 .. 3 -> Byte] /\ \E i \in 0 .. 3 : BistPat[i] # NoByte
  /\ Settle \in Nat /\ RefPeriod \in Nat \ {0}

VARIABLES
  tphase,             \* the phase of the T-state (top.v)
  settle, started,    \* power-up
  istep,              \* steps of the initialisation left
  ref_cnt, ref_due,   \* refresh: clocks counted, refreshes due
  bist,               \* the self-test: run, rd, i, bad, done, fail
  cap_late,           \* reads are captured on slot clock 4, not 3
  act,                \* the access of this slot, or NoAct
  cmd,                \* the command the chip sees in this clock
  cpu_rdata, vid_rdata, vid_ack,
  (* the chip *)
  pads,               \* when a word it reads is on the bus
  open,               \* the open row of each bank
  dq,                 \* the byte that comes out of it in this clock, and in the last
  cells               \* what the written cells hold

memVars == <<tphase, settle, started, istep, ref_cnt, ref_due, bist, cap_late,
             act, cmd, cpu_rdata, vid_rdata, vid_ack, pads, open, dq, cells>>

(* Commands to the chip; close is A10, the auto-precharge. *)
Cmd(op)     == [op |-> op]
Active(a)   == [op |-> "ACTIVE", bank |-> a.bank, row |-> a.row]
ReadLeavesOpen(a) == [op |-> "READ", bank |-> a.bank, col |-> a.col, close |-> FALSE]
Read(a)     == [op |-> "READ", bank |-> a.bank, col |-> a.col, close |-> TRUE]
Write(a, d) == [op |-> "WRITE", bank |-> a.bank, col |-> a.col, close |-> TRUE, data |-> d]

Commands ==
  [op : {"INHIBIT", "NOP", "PRECHARGE", "AUTO_REFRESH", "LOAD_MODE"}]
  \cup [op : {"ACTIVE"}, bank : Bank, row : Row]
  \cup [op : {"READ"}, bank : Bank, col : Col, close : BOOLEAN]
  \cup [op : {"WRITE"}, bank : Bank, col : Col, close : BOOLEAN, data : Byte]

(* Accesses: by the CPU's port or the self-test (who = "cpu"), or the video. *)
NoAct == [who |-> "none"]
Fetch(who, a)    == [who |-> who, we |-> FALSE, adr |-> a]
Store(who, a, d) == [who |-> who, we |-> TRUE, adr |-> a, data |-> d]

Accesses ==
  {NoAct} \cup [who : {"cpu", "vid"}, we : {FALSE}, adr : Adr]
          \cup [who : {"cpu"}, we : {TRUE}, adr : Adr, data : Byte]

BistStates == [run : BOOLEAN, rd : BOOLEAN, i : 0 .. 3, bad : BOOLEAN,
               done : BOOLEAN, fail : BOOLEAN]

MemInit ==
  /\ tphase = 0
  /\ settle = 0 /\ started = FALSE
  /\ istep = 31
  /\ ref_cnt = 0 /\ ref_due = 0
  /\ bist = [run |-> FALSE, rd |-> FALSE, i |-> 0, bad |-> FALSE,
             done |-> FALSE, fail |-> FALSE]
  /\ cap_late = FALSE
  /\ act = NoAct
  /\ cmd = Cmd("INHIBIT")
  /\ cpu_rdata = NoByte /\ vid_rdata = NoByte /\ vid_ack = FALSE
  /\ pads \in {"on time", "late", "dead"}
  /\ open = [b \in Bank |-> NoRow]
  /\ dq = <<NoByte, NoByte>>
  /\ cells \in [Cells -> {NoByte}]

init == started /\ istep = 0

-----------------------------------------------------------------------------
(* The slots. *)
cpu_slot == tphase >= 7 \/ tphase = 0

sc == CASE tphase = 0 -> 5
        [] tphase >= 7 -> tphase - 7
        [] OTHER -> tphase - 1

(* The initialisation, a step in each video slot. *)
InitCmd(step) ==
  Cmd(IF step = 20 THEN "PRECHARGE"
      ELSE IF step \in {16, 12} THEN "AUTO_REFRESH"
      ELSE IF step = 8 THEN "LOAD_MODE"
      ELSE "NOP")

SettleClock ==
  /\ ~started
  /\ started' = (settle = Settle)
  /\ settle' = IF settle = Settle THEN settle ELSE settle + 1
  /\ istep' = 31
  /\ cmd' = Cmd("NOP")
  /\ vid_ack' = FALSE
  /\ UNCHANGED <<ref_cnt, ref_due, bist, cap_late, act, cpu_rdata, vid_rdata>>

InitClock ==
  /\ started /\ istep # 0
  /\ IF sc = 0 /\ ~cpu_slot
     THEN istep' = istep - 1 /\ cmd' = InitCmd(istep)
     ELSE UNCHANGED istep /\ cmd' = Cmd("NOP")
  /\ vid_ack' = FALSE
  /\ UNCHANGED <<settle, started, ref_cnt, ref_due, bist, cap_late, act,
                 cpu_rdata, vid_rdata>>

-----------------------------------------------------------------------------
(* The self-test: four writes, four reads, a T-state each; a mismatch moves *)
(* the capture, and a second one fails.                                     *)
Mismatch == cpu_rdata # BistPat[bist.i]

BistStaysBad ==
  IF tphase # 1 \/ (bist.done /\ ~bist.run) THEN UNCHANGED <<bist, cap_late>>
  ELSE IF ~bist.run
  THEN bist' = [bist EXCEPT !.run = TRUE] /\ UNCHANGED cap_late
  ELSE IF bist.i < 3 \/ ~bist.rd
  THEN /\ bist' = [bist EXCEPT !.i = (bist.i + 1) % 4,
                               !.rd = bist.rd \/ bist.i = 3,
                               !.bad = bist.bad \/ (bist.rd /\ Mismatch)]
       /\ UNCHANGED cap_late
  ELSE LET passed == ~bist.bad /\ ~Mismatch
           over == passed \/ cap_late
       IN  /\ bist' = [run |-> ~over, rd |-> FALSE, i |-> 0, bad |-> bist.bad,
                       done |-> over, fail |-> over /\ ~passed]
           /\ cap_late' = IF passed THEN cap_late ELSE ~cap_late

BistClock ==
  IF tphase # 1 \/ (bist.done /\ ~bist.run) THEN UNCHANGED <<bist, cap_late>>
  ELSE IF ~bist.run
  THEN bist' = [bist EXCEPT !.run = TRUE] /\ UNCHANGED cap_late
  ELSE IF bist.i < 3 \/ ~bist.rd
  THEN /\ bist' = [bist EXCEPT !.i = (bist.i + 1) % 4,
                               !.rd = bist.rd \/ bist.i = 3,
                               !.bad = bist.bad \/ (bist.rd /\ Mismatch)]
       /\ UNCHANGED cap_late
  ELSE LET passed == ~bist.bad /\ ~Mismatch
           over == passed \/ cap_late
       IN  /\ bist' = [run |-> ~over, rd |-> FALSE, i |-> 0, bad |-> FALSE,
                       done |-> over, fail |-> over /\ ~passed]
           /\ cap_late' = IF passed THEN cap_late ELSE ~cap_late

(* What a slot starts with on its first clock: the CPU's request, or the   *)
(* self-test's; the video's, or a refresh.                                 *)
BistAccess ==
  IF bist.rd THEN Fetch("cpu", BistAdr[bist.i])
  ELSE Store("cpu", BistAdr[bist.i], BistPat[bist.i])

CpuWantedWhenIdle(cpu_req) ==
  IF cpu_req # NoAct /\ act = NoAct THEN cpu_req
  ELSE IF bist.run THEN BistAccess
  ELSE NoAct

CpuWanted(cpu_req) ==
  IF cpu_req # NoAct THEN cpu_req
  ELSE IF bist.run THEN BistAccess
  ELSE NoAct

Wanted(cpu_req, vid_req) == IF cpu_slot THEN CpuWanted(cpu_req) ELSE vid_req

Refreshes(vid_req) == sc = 0 /\ ~cpu_slot /\ vid_req = NoAct /\ ref_due # 0

(* A refresh issued in the clock in which another falls due: the later     *)
(* assignment wins, and the one that fell due is not counted.              *)
RefreshClock(vid_req) ==
  /\ ref_cnt' = (ref_cnt + 1) % RefPeriod
  /\ ref_due' = CASE Refreshes(vid_req) -> ref_due - 1
                  [] ref_cnt = RefPeriod - 1 /\ ref_due # 7 /\ ~Refreshes(vid_req)
                     -> ref_due + 1
                  [] OTHER -> ref_due

(* The byte on the bus in this clock. *)
Bus == CASE pads = "on time" -> dq[1]
         [] pads = "late"    -> dq[2]
         [] pads = "dead"    -> NoByte

Captures(who) ==
  /\ act # NoAct
  /\ act.who = who /\ ~act.we
  /\ sc = IF cap_late THEN 4 ELSE 3

Column(a) == IF a.we THEN Write(a.adr, a.data) ELSE Read(a.adr)

SlotClock(cpu_req, vid_req) ==
  /\ act' = IF sc = 0 THEN Wanted(cpu_req, vid_req) ELSE act
  /\ cmd' = IF sc = 0 /\ act' # NoAct THEN Active(act'.adr)
            ELSE IF Refreshes(vid_req) THEN Cmd("AUTO_REFRESH")
            ELSE IF sc = 1 /\ act # NoAct THEN Column(act)
            ELSE Cmd("NOP")
  /\ cpu_rdata' = IF Captures("cpu") THEN Bus ELSE cpu_rdata
  /\ vid_rdata' = IF Captures("vid") THEN Bus ELSE vid_rdata
  /\ vid_ack' = Captures("vid")

RunClock(cpu_req, vid_req) ==
  /\ init
  /\ BistClock
  /\ RefreshClock(vid_req)
  /\ SlotClock(cpu_req, vid_req)
  /\ UNCHANGED <<settle, started, istep>>

-----------------------------------------------------------------------------
(* The chip takes the command of this clock.  An ACTIVE on an open row is   *)
(* refused, as the simulation's model of it does.                           *)
At(a) == IF a \in Cells THEN cells[a] ELSE Stored(a)

Cell(c) == [bank |-> c.bank, row |-> open[c.bank], col |-> c.col]

Opens(b)  == cmd.op = "ACTIVE" /\ cmd.bank = b /\ open[b] = NoRow

Closes(b) ==
  \/ cmd.op = "PRECHARGE"
  \/ cmd.op \in {"READ", "WRITE"} /\ cmd.bank = b /\ cmd.close

ChipClock ==
  /\ open' = [b \in Bank |-> IF Opens(b) THEN cmd.row
                             ELSE IF Closes(b) THEN NoRow
                             ELSE open[b]]
  /\ dq' = <<IF cmd.op = "READ" /\ open[cmd.bank] # NoRow THEN At(Cell(cmd)) ELSE NoByte,
             dq[1]>>
  /\ cells' = IF cmd.op = "WRITE" /\ Cell(cmd) \in Cells
              THEN [cells EXCEPT ![Cell(cmd)] = cmd.data] ELSE cells
  /\ UNCHANGED pads

MemClockWaitsForInit(cpu_req, vid_req) ==
  /\ SettleClock \/ InitClock \/ RunClock(cpu_req, vid_req)
  /\ ChipClock
  /\ tphase' = IF init THEN (tphase + 1) % 12 ELSE tphase

MemClock(cpu_req, vid_req) ==
  /\ SettleClock \/ InitClock \/ RunClock(cpu_req, vid_req)
  /\ ChipClock
  /\ tphase' = (tphase + 1) % 12

MemNext ==
  \E c \in Accesses, v \in Accesses :
    /\ c = NoAct \/ c.who = "cpu"
    /\ v = NoAct \/ v.who = "vid"
    /\ MemClock(c, v)

MemSpec == MemInit /\ [][MemNext]_memVars

-----------------------------------------------------------------------------
(* The rule the first board broke: no row is opened in a bank that has one *)
(* open, no refresh and no mode load meets an open row, and an access      *)
(* finds the row of its own address open.                                  *)
RowRule ==
  /\ cmd.op = "ACTIVE" => open[cmd.bank] = NoRow
  /\ cmd.op \in {"AUTO_REFRESH", "LOAD_MODE"} => \A b \in Bank : open[b] = NoRow
  /\ cmd.op \in {"READ", "WRITE"} =>
       act # NoAct /\ cmd.bank = act.adr.bank /\ open[cmd.bank] = act.adr.row
=============================================================================
