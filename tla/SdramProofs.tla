---------------------------- MODULE SdramProofs ----------------------------
(***************************************************************************)
(* The memory and the picture, for any geometry of the chip and the line,  *)
(* any self-test, any requests of the CPU and any refresh period.          *)
(*                                                                         *)
(* Nothing in sdram.v or video.v asks whether a row is open, a byte there  *)
(* or a slot free: counters that never meet are right together.  Each of   *)
(* the four parts below says at which clock what is where: the rows in a   *)
(* slot (RowInv), a byte on the bus and the cells (MemoryInv), the fetch   *)
(* and the display in a line (LineInv), the refresh that is due            *)
(* (RefreshInv).                                                           *)
(***************************************************************************)
EXTENDS Screen, Integers, TLAPS

AllClosed == open = [b \in Bank |-> NoRow]

OnlyOpen(a) == open = [b \in Bank |-> IF b = a.bank THEN a.row ELSE NoRow]

(* What the chip makes of an access: its address names a row of a bank. *)
IsAdr(a) ==
  /\ a = [bank |-> a.bank, row |-> a.row, col |-> a.col]
  /\ a.bank \in Bank /\ a.row \in Row

IsAccess(x) == x # NoAct => IsAdr(x.adr) /\ x.we \in BOOLEAN /\ (x.we => x.who = "cpu")

(* No access before the initialisation is over. *)
QuietBeforeInit == init \/ act = NoAct

(* The first clock of an access after it is taken: its ACTIVE is out. *)
Opening == sc = 1 /\ act # NoAct

(* The second: its row is open, and the command that closes it is out. *)
Accessing == sc = 2 /\ act # NoAct

RowInv ==
  /\ tphase \in 0 .. 11
  /\ IsAccess(act)
  /\ bist \in BistStates
  /\ QuietBeforeInit
  /\ Opening => AllClosed /\ cmd = Active(act.adr)
  /\ Accessing => OnlyOpen(act.adr) /\ cmd = Column(act)
  /\ ~Opening /\ ~Accessing => AllClosed /\ cmd.op \notin {"ACTIVE", "READ", "WRITE"}

-----------------------------------------------------------------------------
(* The phase counter steps through the clocks of a slot. *)
LEMMA SlotSteps ==
  ASSUME tphase \in 0 .. 11, tphase' = (tphase + 1) % 12
  PROVE  /\ tphase' \in 0 .. 11
         /\ sc \in 0 .. 5
         /\ sc' = IF sc = 5 THEN 0 ELSE sc + 1
BY DEF sc

(* Accesses to the chip's addresses, and the fetches of them. *)
LEMMA AddressesAreAdr == ASSUME NEW a \in Adr PROVE IsAdr(a)
BY DEF Adr, IsAdr

LEMMA FetchIsAccess == ASSUME NEW who, NEW a, IsAdr(a) PROVE IsAccess(Fetch(who, a))
BY DEF IsAccess, Fetch

LEMMA StoreIsAccess == ASSUME NEW a, NEW d, IsAdr(a) PROVE IsAccess(Store("cpu", a, d))
BY DEF IsAccess, Store

LEMMA AccessesAreAccess == ASSUME NEW x \in Accesses PROVE IsAccess(x)
<1>1. CASE x = NoAct
  BY <1>1 DEF IsAccess
<1>2. CASE x \in [who : {"cpu", "vid"}, we : {FALSE}, adr : Adr]
  BY <1>2, AddressesAreAdr DEF IsAccess
<1>3. CASE x \in [who : {"cpu"}, we : {TRUE}, adr : Adr, data : Byte]
  BY <1>3, AddressesAreAdr DEF IsAccess
<1> QED BY <1>1, <1>2, <1>3 DEF Accesses

(* The commands by their kind. *)
LEMMA CommandKinds ==
  /\ \A op : Cmd(op).op = op
  /\ \A a : Active(a).op = "ACTIVE" /\ Active(a).bank = a.bank /\ Active(a).row = a.row
  /\ \A a : Read(a).op = "READ" /\ Read(a).bank = a.bank /\ Read(a).close
  /\ \A a, d : Write(a, d).op = "WRITE" /\ Write(a, d).bank = a.bank /\ Write(a, d).close
BY DEF Cmd, Active, Read, Write

LEMMA ColumnKinds ==
  ASSUME NEW x, x.we \in BOOLEAN
  PROVE  /\ Column(x).op = IF x.we THEN "WRITE" ELSE "READ"
         /\ Column(x).bank = x.adr.bank /\ Column(x).col = x.adr.col /\ Column(x).close
         /\ x.we => Column(x).data = x.data
BY DEF Column, Read, Write

(* What the chip does with its rows, by the state it is in. *)
LEMMA ChipOpens ==
  ASSUME RowInv, ChipClock, Opening
  PROVE  open' = [b \in Bank |-> IF b = act.adr.bank THEN act.adr.row ELSE NoRow]
<1>1. cmd.op = "ACTIVE" /\ cmd.bank = act.adr.bank /\ cmd.row = act.adr.row
  BY CommandKinds DEF RowInv
<1>2. open = [b \in Bank |-> NoRow]
  BY DEF RowInv, AllClosed
<1>3. \A b \in Bank : ~Closes(b) /\ (Opens(b) <=> b = act.adr.bank)
  BY <1>1, <1>2 DEF Opens, Closes
<1>4. open' = [b \in Bank |-> IF Opens(b) THEN cmd.row
                              ELSE IF Closes(b) THEN NoRow ELSE open[b]]
  BY DEF ChipClock
<1> QED
  BY <1>1, <1>2, <1>3, <1>4

LEMMA ChipCloses ==
  ASSUME RowInv, ChipClock, ~Opening
  PROVE  open' = [b \in Bank |-> NoRow]
<1>1. open' = [b \in Bank |-> IF Opens(b) THEN cmd.row
                              ELSE IF Closes(b) THEN NoRow ELSE open[b]]
  BY DEF ChipClock
<1>2. CASE Accessing
  <2>1. open = [b \in Bank |-> IF b = act.adr.bank THEN act.adr.row ELSE NoRow]
    BY <1>2 DEF RowInv, OnlyOpen
  <2>2. /\ cmd.op \in {"READ", "WRITE"}
        /\ cmd.bank = act.adr.bank /\ cmd.close
    BY <1>2, ColumnKinds DEF RowInv, IsAccess, Accessing
  <2>3. \A b \in Bank : ~Opens(b) /\ (Closes(b) <=> b = act.adr.bank)
    BY <2>2 DEF Opens, Closes
  <2> QED
    BY <1>1, <2>1, <2>3
<1>3. CASE ~Accessing
  <2>1. open = [b \in Bank |-> NoRow] /\ cmd.op # "ACTIVE"
    BY <1>3 DEF RowInv, AllClosed
  <2> QED
    BY <1>1, <2>1 DEF Opens
<1> QED
  BY <1>2, <1>3

(* What a slot may start with is an access of the chip. *)
LEMMA WantedIsAccess ==
  ASSUME RowInv, NEW c, IsAccess(c), NEW v, IsAccess(v)
  PROVE  IsAccess(Wanted(c, v))
<1>1. IsAccess(NoAct)
  BY DEF IsAccess
<1>2. IsAccess(BistAccess)
  <2>1. bist.i \in 0 .. 3
    BY DEF RowInv, BistStates
  <2>2. IsAdr(BistAdr[bist.i])
    BY <2>1, SdramAssumption, AddressesAreAdr
  <2> QED
    BY <2>2, FetchIsAccess, StoreIsAccess DEF BistAccess
<1> QED
  BY <1>1, <1>2 DEF Wanted, CpuWanted

-----------------------------------------------------------------------------
(* The initialisation asks for nothing. *)
LEMMA BootKeepsRowInv ==
  ASSUME RowInv, SettleClock \/ InitClock, ChipClock, tphase' = (tphase + 1) % 12
  PROVE  RowInv'
<1>1. act = NoAct /\ act' = NoAct /\ bist' = bist
  BY DEF RowInv, QuietBeforeInit, SettleClock, InitClock, init
<1>2. AllClosed'
  BY <1>1, ChipCloses DEF Opening, AllClosed
<1>3. cmd'.op \notin {"ACTIVE", "READ", "WRITE"}
  BY CommandKinds DEF SettleClock, InitClock, InitCmd
<1>4. tphase' \in 0 .. 11
  BY SlotSteps DEF RowInv
<1> QED
  BY <1>1, <1>2, <1>3, <1>4 DEF RowInv, Opening, Accessing, QuietBeforeInit

(* The self-test stays in its four bytes. *)
LEMMA BistKeepsType ==
  ASSUME RowInv, BistClock
  PROVE  bist' \in BistStates
<1>1. /\ bist \in BistStates
      /\ (bist.i + 1) % 4 \in 0 .. 3
  BY DEF RowInv, BistStates
<1>2. CASE bist' = bist
  BY <1>1, <1>2
<1>3. CASE bist' = [bist EXCEPT !.run = TRUE]
  BY <1>1, <1>3 DEF BistStates
<1>4. CASE bist' = [bist EXCEPT !.i = (bist.i + 1) % 4,
                                !.rd = bist.rd \/ bist.i = 3,
                                !.bad = bist.bad \/ (bist.rd /\ Mismatch)]
  <2>1. (bist.rd \/ bist.i = 3) \in BOOLEAN /\ (bist.bad \/ (bist.rd /\ Mismatch)) \in BOOLEAN
    OBVIOUS
  <2> QED
    BY <1>1, <1>4, <2>1 DEF BistStates
<1>5. ASSUME NEW passed \in BOOLEAN, NEW over \in BOOLEAN,
             bist' = [run |-> ~over, rd |-> FALSE, i |-> 0, bad |-> FALSE,
                      done |-> over, fail |-> over /\ ~passed]
      PROVE  bist' \in BistStates
  <2>1. (~over) \in BOOLEAN /\ (over /\ ~passed) \in BOOLEAN
    OBVIOUS
  <2> QED
    BY <1>5, <2>1 DEF BistStates
<1> QED
  BY <1>2, <1>3, <1>4, <1>5 DEF BistClock

(* A clock of the running controller, by the clock of the slot. *)
LEMMA RunKeepsRowInv ==
  ASSUME RowInv, ChipClock, tphase' = (tphase + 1) % 12,
         NEW c, IsAccess(c), NEW v, IsAccess(v), RunClock(c, v)
  PROVE  RowInv'
<1>1. init'
  BY DEF RunClock, init
<1>2. /\ tphase' \in 0 .. 11
      /\ sc \in 0 .. 5
      /\ sc' = IF sc = 5 THEN 0 ELSE sc + 1
  BY SlotSteps DEF RowInv
<1>3. act' = IF sc = 0 THEN Wanted(c, v) ELSE act
  BY DEF RunClock, SlotClock
<1>4. IsAccess(act')
  BY <1>3, WantedIsAccess DEF RowInv
<1>5. bist' \in BistStates
  BY BistKeepsType DEF RunClock
<1>6. cmd' = IF sc = 0 /\ act' # NoAct THEN Active(act'.adr)
             ELSE IF Refreshes(v) THEN Cmd("AUTO_REFRESH")
             ELSE IF sc = 1 /\ act # NoAct THEN Column(act)
             ELSE Cmd("NOP")
  BY DEF RunClock, SlotClock
<1>7. Refreshes(v) => sc = 0
  BY DEF Refreshes
<1>8. CASE Opening
  <2>1. sc' = 2 /\ act' = act /\ act # NoAct
    BY <1>2, <1>3, <1>8 DEF Opening
  <2>2. cmd' = Column(act)
    BY <1>6, <1>7, <1>8 DEF Opening
  <2>4. OnlyOpen(act.adr)'
    BY <1>8, <2>1, ChipOpens DEF OnlyOpen
  <2> QED
    BY <1>1, <1>2, <1>4, <1>5, <2>1, <2>2, <2>4
    DEF RowInv, QuietBeforeInit, Opening, Accessing, IsAccess, Column
<1>9. CASE ~Opening
  <2>1. AllClosed'
    BY <1>9, ChipCloses DEF AllClosed
  <2>2. ~Accessing'
    BY <1>2, <1>3, <1>9 DEF Opening, Accessing
  <2>3. CASE sc = 0 /\ act' # NoAct
    <3>1. cmd' = Active(act'.adr) /\ sc' = 1
      BY <1>2, <1>6, <2>3
    <3> QED
      BY <1>1, <1>2, <1>4, <1>5, <2>1, <2>2, <2>3, <3>1
      DEF RowInv, QuietBeforeInit, Opening
  <2>4. CASE ~(sc = 0 /\ act' # NoAct)
    <3>1. cmd'.op \notin {"ACTIVE", "READ", "WRITE"}
      BY <1>6, <1>9, <2>4, CommandKinds DEF Opening
    <3>2. ~Opening'
      BY <1>2, <2>4 DEF Opening
    <3> QED
      BY <1>1, <1>2, <1>4, <1>5, <2>1, <2>2, <3>1, <3>2
      DEF RowInv, QuietBeforeInit
  <2> QED
    BY <2>3, <2>4
<1> QED
  BY <1>8, <1>9

LEMMA ClockKeepsRowInv ==
  ASSUME RowInv, NEW c, IsAccess(c), NEW v, IsAccess(v), MemClock(c, v)
  PROVE  RowInv'
<1>1. CASE SettleClock \/ InitClock
  BY <1>1, BootKeepsRowInv DEF MemClock
<1>2. CASE RunClock(c, v)
  BY <1>2, RunKeepsRowInv DEF MemClock
<1> QED
  BY <1>1, <1>2 DEF MemClock

-----------------------------------------------------------------------------
(* The invariant holds from power-up. *)
LEMMA InitRowInv == ASSUME MemInit PROVE RowInv
<1>1. act = NoAct /\ tphase = 0 /\ AllClosed
  BY DEF MemInit, AllClosed
<1>2. bist \in BistStates
  <2>1. bist = [run |-> FALSE, rd |-> FALSE, i |-> 0, bad |-> FALSE,
                done |-> FALSE, fail |-> FALSE]
    BY DEF MemInit
  <2> QED
    BY <2>1 DEF BistStates
<1>3. cmd.op = "INHIBIT"
  BY CommandKinds DEF MemInit
<1> QED
  BY <1>1, <1>2, <1>3 DEF RowInv, QuietBeforeInit, Opening, Accessing, IsAccess

LEMMA RowInvHolds == MemSpec => []RowInv
<1>1. RowInv /\ [MemNext]_memVars => RowInv'
  <2> SUFFICES ASSUME RowInv, [MemNext]_memVars PROVE RowInv'
    OBVIOUS
  <2>1. CASE MemNext
    <3>1. PICK c \in Accesses, v \in Accesses : MemClock(c, v)
      BY <2>1 DEF MemNext
    <3> QED
      BY <3>1, AccessesAreAccess, ClockKeepsRowInv
  <2>2. CASE UNCHANGED memVars
    BY <2>2 DEF memVars, RowInv, QuietBeforeInit, Opening, Accessing, AllClosed,
                OnlyOpen, init, sc, IsAccess, IsAdr, Column
  <2> QED
    BY <2>1, <2>2
<1> QED
  BY InitRowInv, <1>1, PTL DEF MemSpec

LEMMA RowInvGivesRule == ASSUME RowInv PROVE RowRule
<1>1. CASE Opening
  <2>1. act.adr.bank \in Bank
    BY <1>1 DEF RowInv, Opening, IsAccess, IsAdr
  <2>2. /\ cmd.op = "ACTIVE" /\ cmd.bank = act.adr.bank
        /\ open = [b \in Bank |-> NoRow]
    BY <1>1, CommandKinds DEF RowInv, AllClosed
  <2> QED
    BY <2>1, <2>2 DEF RowRule
<1>2. CASE Accessing
  <2>1. act.adr.bank \in Bank
    BY <1>2 DEF RowInv, Accessing, IsAccess, IsAdr
  <2>2. /\ cmd.op \in {"READ", "WRITE"} /\ cmd.bank = act.adr.bank
        /\ act # NoAct
        /\ open = [b \in Bank |-> IF b = act.adr.bank THEN act.adr.row ELSE NoRow]
    BY <1>2, ColumnKinds DEF RowInv, Accessing, OnlyOpen, IsAccess
  <2> QED
    BY <2>1, <2>2 DEF RowRule
<1>3. CASE ~Opening /\ ~Accessing
  BY <1>3 DEF RowInv, AllClosed, RowRule
<1> QED
  BY <1>1, <1>2, <1>3

(* sdram.v:287-297, the rule the first board broke: every ACTIVE finds its *)
(* bank closed, every refresh and mode load finds all of them closed, and  *)
(* an access has its own row open, whatever the CPU, the video and the     *)
(* self-test ask for.                                                      *)
THEOREM RowRuleHolds == MemSpec => []RowRule
<1>1. RowInv => RowRule
  BY RowInvGivesRule
<1> QED
  BY <1>1, RowInvHolds, PTL

-----------------------------------------------------------------------------
(* What comes of a fetch: the byte, or nothing on the bus. *)
Right == (pads = "on time" /\ ~cap_late) \/ (pads = "late" /\ cap_late)
Got(a) == IF Right THEN At(a) ELSE NoByte

(* A fetch: its byte is on the bus on clock 3 of the slot and in the       *)
(* register of its port from clock 4 or 5 on; the CPU's slot ends at       *)
(* phase 0, and the self-test looks at phase 1.                            *)
BusInv ==
  /\ pads \in {"on time", "late", "dead"}
  /\ tphase \in 2 .. 6 /\ act # NoAct => ~act.we
  /\ Accessing => dq[1] = NoByte
  /\ act # NoAct /\ ~act.we =>
       /\ sc = 3 => dq[1] = At(act.adr) /\ dq[2] = NoByte
       /\ sc = 4 => dq[1] = NoByte /\ dq[2] = At(act.adr)
       /\ act.who = "cpu" =>
            /\ tphase = 11 /\ ~cap_late => cpu_rdata = Got(act.adr)
            /\ tphase \in {0, 1} => cpu_rdata = Got(act.adr)

(* The self-test: where it is. *)
Tested(n) == \A j \in 0 .. n - 1 : cells[BistAdr[j]] = BistPat[j]
SoFar == IF bist.rd THEN 4 ELSE bist.i
SlotEnds == tphase \in {8, 9, 10, 11, 0, 1}
TestInv ==
  /\ cap_late \in BOOLEAN
  /\ DOMAIN cells = Cells
  /\ bist.run => init /\ ~bist.done
  /\ ~bist.run /\ ~bist.done => bist.i = 0 /\ ~bist.rd /\ ~bist.bad /\ ~cap_late
  /\ cap_late => pads # "on time"
  /\ bist.run =>
       /\ SlotEnds => act = BistAccess
       /\ Tested(SoFar)
       /\ SlotEnds /\ tphase \notin {8, 9} /\ ~bist.rd => Tested(bist.i + 1)
       /\ ~bist.rd \/ Right => ~bist.bad
       /\ bist.rd /\ ~Right => bist.bad \/ \A j \in 0 .. bist.i - 1 : BistPat[j] = NoByte

(* The verdict, once it is there. *)
VerdictInv == bist.done => /\ ~bist.run
                           /\ bist.fail <=> pads = "dead"
                           /\ cap_late <=> pads = "late"

(* The CPU's port is memory: what it asked for is in the slot, and what it *)
(* wrote is in the cells, but for a byte whose slot is not there yet.      *)
InFlight == tphase \in {8, 9} /\ act # NoAct /\ act.we
PortInv ==
  /\ bist.done => init
  /\ ~bist.done => asked = NoAct /\ written = cells
  /\ bist.done =>
       /\ tphase \in {8, 9, 10, 11, 0} => asked = act /\ (act # NoAct => act.adr \in Cells /\ act.who = "cpu")
       /\ written = IF InFlight THEN [cells EXCEPT ![act.adr] = act.data] ELSE cells

VidReqInv == ftst \in 0 .. 3 /\ (vid_req = NoReq \/ vid_req.want \in {"name", "pattern", "colour"})

-----------------------------------------------------------------------------
(* What the two ports ask for. *)
LEMMA VidReqKept ==
  ASSUME VidReqInv, NEW r, NEW t, NEW ack, NEW data, VidClock(r, t, ack, data)
  PROVE  VidReqInv'
<1>1. FetchClock(r, t, ack, data)
  BY DEF VidClock
<1>2. ftst' \in 0 .. 3
  BY <1>1 DEF FetchClock, VidReqInv
<1>3. vid_req' = NoReq \/ vid_req' = Request
  BY <1>1 DEF FetchClock
<1>4. Request = NoReq \/ Request.want \in {"name", "pattern", "colour"}
  BY DEF VidReqInv, Request, NameAt, PatternOf, ColourOf
<1> QED BY <1>2, <1>3, <1>4 DEF VidReqInv

LEMMA VidReads ==
  ASSUME VidReqInv
  PROVE  IsAccess(VidAccess) /\ (VidAccess # NoAct => VidAccess.who = "vid" /\ VidAccess.we = FALSE)
<1>1. CASE vid_req = NoReq
  BY <1>1 DEF VidAccess, IsAccess
<1>2. CASE vid_req # NoReq
  <2>1. VidAccess = Fetch("vid", Where(vid_req)) /\ vid_req.want \in Row
    BY <1>2, ScreenAssumption DEF VidAccess, VidReqInv, Tables
  <2>2. IsAdr(Where(vid_req))
    BY <2>1, ScreenAssumption DEF Where, IsAdr
  <2> QED BY <2>1, <2>2, FetchIsAccess DEF Fetch
<1> QED BY <1>1, <1>2

(* The CPU's: no request, or one in phase 7 with the self-test over. *)
CpuAsks(c) == c = NoAct \/ (Runs /\ c \in CpuAccesses)

LEMMA CpuRequests ==
  ASSUME NEW c, CpuAsks(c)
  PROVE  /\ IsAccess(c)
         /\ c # NoAct => tphase = 7 /\ bist.done /\ c.who = "cpu" /\ c.adr \in Cells
<1>1. CASE c = NoAct
  BY <1>1 DEF IsAccess
<1>2. CASE c # NoAct
  <2>1. Runs /\ c \in CpuAccesses
    BY <1>2 DEF CpuAsks
  <2>2. \A a \in CpuCells : a \in Cells /\ IsAdr(a)
    BY ScreenAssumption, SdramAssumption, AddressesAreAdr
  <2>3. CASE \E a \in CpuCells : c = Fetch("cpu", a)
    BY <2>1, <2>2, <2>3, FetchIsAccess DEF Fetch, Runs
  <2>4. CASE \E a \in CpuCells, d \in CpuByte : c = Store("cpu", a, d)
    BY <2>1, <2>2, <2>4, StoreIsAccess DEF Store, Runs
  <2> QED BY <2>1, <2>3, <2>4 DEF CpuAccesses
<1> QED BY <1>1, <1>2

-----------------------------------------------------------------------------
(* What the chip does with the bus and the cells, by the clock of the slot. *)
LEMMA ChipMoves ==
  ASSUME RowInv, ChipClock
  PROVE  /\ pads' = pads /\ dq'[2] = dq[1]
         /\ dq'[1] = IF Accessing /\ ~act.we THEN At(act.adr) ELSE NoByte
         /\ cells' = IF Accessing /\ act.we /\ act.adr \in Cells
                      THEN [cells EXCEPT ![act.adr] = act.data] ELSE cells
<1>1. /\ pads' = pads
      /\ dq' = <<IF cmd.op = "READ" /\ open[cmd.bank] # NoRow THEN At(Cell(cmd)) ELSE NoByte, dq[1]>>
      /\ cells' = IF cmd.op = "WRITE" /\ Cell(cmd) \in Cells
                   THEN [cells EXCEPT ![Cell(cmd)] = cmd.data] ELSE cells
  BY DEF ChipClock
<1>2. CASE Accessing
  <2>1. /\ IsAdr(act.adr) /\ act.we \in BOOLEAN /\ cmd = Column(act)
        /\ open = [b \in Bank |-> IF b = act.adr.bank THEN act.adr.row ELSE NoRow]
    BY <1>2 DEF RowInv, Accessing, OnlyOpen, IsAccess
  <2>2. /\ cmd.op = IF act.we THEN "WRITE" ELSE "READ"
        /\ cmd.bank = act.adr.bank /\ cmd.col = act.adr.col
        /\ act.we => cmd.data = act.data
    BY <2>1, ColumnKinds
  <2>3. open[cmd.bank] = act.adr.row /\ act.adr.row # NoRow
    BY <2>1, <2>2, SdramAssumption DEF IsAdr
  <2>4. Cell(cmd) = act.adr
    BY <2>1, <2>2, <2>3 DEF Cell, IsAdr
  <2> QED BY <1>1, <1>2, <2>1, <2>2, <2>3, <2>4
<1>3. CASE ~Accessing
  <2>1. cmd.op \notin {"READ", "WRITE"}
    <3>1. CASE Opening
      BY <3>1, CommandKinds DEF RowInv
    <3>2. CASE ~Opening
      BY <1>3, <3>2 DEF RowInv
    <3> QED BY <3>1, <3>2
  <2> QED BY <1>1, <1>3, <2>1
<1> QED BY <1>2, <1>3

LEMMA BusKept ==
  ASSUME RowInv, BusInv, NEW c, NEW v, v # NoAct => v.we = FALSE, MemClock(c, v)
  PROVE  BusInv'
<1>1. /\ pads' = pads /\ dq'[2] = dq[1]
      /\ dq'[1] = IF Accessing /\ ~act.we THEN At(act.adr) ELSE NoByte
      /\ cells' = IF Accessing /\ act.we /\ act.adr \in Cells
                   THEN [cells EXCEPT ![act.adr] = act.data] ELSE cells
  BY ChipMoves DEF MemClock
<1>2. /\ tphase' = (tphase + 1) % 12 /\ tphase' \in 0 .. 11 /\ tphase \in 0 .. 11
      /\ sc \in 0 .. 5
      /\ sc' = IF sc = 5 THEN 0 ELSE sc + 1
  BY SlotSteps DEF MemClock, RowInv
<1>3. CASE SettleClock \/ InitClock
  <2>1. act' = NoAct
    BY <1>3 DEF RowInv, QuietBeforeInit, SettleClock, InitClock, init
  <2> QED BY <1>1, <2>1 DEF BusInv, Accessing
<1>4. CASE RunClock(c, v)
  <2>1. /\ act' = IF sc = 0 THEN Wanted(c, v) ELSE act
        /\ cpu_rdata' = IF Captures("cpu") THEN Bus ELSE cpu_rdata
        /\ BistClock
    BY <1>4 DEF RunClock, SlotClock
  <2>2. tphase # 1 => cap_late' = cap_late
    BY <2>1 DEF BistClock
  <2>3. tphase' \in 2 .. 6 /\ act' # NoAct => ~act'.we
    <3>1. CASE tphase = 1
      <4>1. act' = v
        BY <2>1, <3>1 DEF sc, Wanted, cpu_slot
      <4> QED BY <4>1
    <3>2. CASE tphase # 1
      <4>1. tphase' \in 2 .. 6 => tphase \in 2 .. 6 /\ sc # 0
        BY <1>2, <3>2 DEF sc
      <4> QED BY <2>1, <4>1 DEF BusInv
    <3> QED BY <3>1, <3>2
  <2>4. Accessing' => dq'[1] = NoByte
    BY <1>1, <1>2 DEF Accessing
  <2>5. ASSUME act' # NoAct, ~act'.we, sc' = 3 PROVE dq'[1] = At(act.adr)' /\ dq'[2] = NoByte
    <3>1. sc = 2 /\ act' = act
      BY <1>2, <2>1, <2>5
    <3>2. Accessing /\ ~act.we
      BY <2>5, <3>1 DEF Accessing
    <3> QED BY <1>1, <3>1, <3>2 DEF BusInv, At
  <2>6. ASSUME act' # NoAct, ~act'.we, sc' = 4 PROVE dq'[1] = NoByte /\ dq'[2] = At(act.adr)'
    <3>1. sc = 3 /\ act' = act
      BY <1>2, <2>1, <2>6
    <3>2. ~Accessing
      BY <3>1 DEF Accessing
    <3> QED BY <1>1, <2>6, <3>1, <3>2 DEF BusInv, At
  <2>7. ASSUME act' # NoAct, ~act'.we, act'.who = "cpu"
        PROVE  /\ tphase' = 11 /\ ~cap_late' => cpu_rdata' = Got(act.adr)'
               /\ tphase' \in {0, 1} => cpu_rdata' = Got(act.adr)'
    <3>1. ASSUME tphase \in {10, 11, 0}
          PROVE  act' = act /\ cap_late' = cap_late /\ Got(act.adr)' = Got(act.adr)
      <4>1. sc # 0 /\ sc # 2
        BY <3>1 DEF sc
      <4>2. act' = act /\ cap_late' = cap_late /\ cells' = cells
        BY <1>1, <2>1, <2>2, <3>1, <4>1 DEF Accessing
      <4> QED BY <1>1, <4>2 DEF Got, Right, At
    <3>2. CASE tphase = 10
      <4>1. sc = 3 /\ tphase' = 11
        BY <1>2, <3>2 DEF sc
      <4>2. dq[1] = At(act.adr) /\ dq[2] = NoByte
        BY <2>7, <3>1, <3>2, <4>1 DEF BusInv
      <4>3. ~cap_late => cpu_rdata' = Bus
        BY <2>1, <2>7, <3>1, <3>2, <4>1 DEF Captures
      <4>4. ~cap_late => Bus = Got(act.adr)
        BY <4>2 DEF BusInv, Bus, Got, Right
      <4> QED BY <3>1, <3>2, <4>1, <4>3, <4>4
    <3>3. CASE tphase = 11
      <4>1. sc = 4 /\ tphase' = 0
        BY <1>2, <3>3 DEF sc
      <4>2. dq[1] = NoByte /\ dq[2] = At(act.adr)
        BY <2>7, <3>1, <3>3, <4>1 DEF BusInv
      <4>3. cap_late => cpu_rdata' = Bus
        BY <2>1, <2>7, <3>1, <3>3, <4>1 DEF Captures
      <4>4. cap_late => Bus = Got(act.adr)
        BY <4>2 DEF BusInv, Bus, Got, Right
      <4>5. ASSUME ~cap_late PROVE cpu_rdata' = cpu_rdata /\ cpu_rdata = Got(act.adr)
        <5>1. ~Captures("cpu")
          BY <4>1, <4>5 DEF Captures
        <5>2. act # NoAct /\ ~act.we /\ act.who = "cpu"
          BY <2>7, <3>1, <3>3
        <5> QED BY <2>1, <3>3, <4>5, <5>1, <5>2 DEF BusInv
      <4> QED BY <3>1, <3>3, <4>1, <4>3, <4>4, <4>5
    <3>4. CASE tphase = 0
      <4>1. sc = 5 /\ tphase' = 1
        BY <1>2, <3>4 DEF sc
      <4>2. ~Captures("cpu")
        BY <4>1 DEF Captures
      <4>3. act # NoAct /\ ~act.we /\ act.who = "cpu"
        BY <2>7, <3>1, <3>4
      <4>4. cpu_rdata' = cpu_rdata /\ cpu_rdata = Got(act.adr)
        BY <2>1, <3>4, <4>2, <4>3 DEF BusInv
      <4> QED BY <3>1, <3>4, <4>1, <4>4
    <3>5. tphase \notin {10, 11, 0} => tphase' \notin {11, 0, 1}
      BY <1>2
    <3> QED BY <3>2, <3>3, <3>4, <3>5
  <2> QED BY <1>1, <2>3, <2>4, <2>5, <2>6, <2>7 DEF BusInv
<1> QED BY <1>3, <1>4 DEF MemClock

-----------------------------------------------------------------------------
(* The self-test. *)
LEMMA TestFacts ==
  /\ \A i \in 0 .. 3 : BistAdr[i] \in Cells /\ BistAdr[i] \in Adr
  /\ \A i, j \in 0 .. 3 : i # j => BistAdr[i] # BistAdr[j]
  /\ \E i \in 0 .. 3 : BistPat[i] # NoByte
BY SdramAssumption

LEMMA BistAccessFacts ==
  /\ BistAccess # NoAct /\ BistAccess.who = "cpu" /\ BistAccess.adr = BistAdr[bist.i]
  /\ BistAccess.we = ~bist.rd
  /\ ~bist.rd => BistAccess.data = BistPat[bist.i]
BY DEF BistAccess, Fetch, Store, NoAct

(* In phase 1 it finds a byte wrong just if the capture is. *)
LEMMA Looks ==
  ASSUME RowInv, BusInv, TestInv, tphase = 1, bist.run, bist.rd
  PROVE  Mismatch <=> ~Right /\ BistPat[bist.i] # NoByte
<1>1. act = BistAccess /\ bist.i \in 0 .. 3
  BY DEF TestInv, SlotEnds, RowInv, BistStates
<1>2. cpu_rdata = Got(BistAdr[bist.i])
  BY <1>1, BistAccessFacts DEF BusInv
<1>3. At(BistAdr[bist.i]) = BistPat[bist.i]
  <2>1. Tested(4) /\ BistAdr[bist.i] \in Cells
    BY <1>1, TestFacts DEF TestInv, SoFar
  <2>2. bist.i \in 0 .. 4 - 1
    BY <1>1
  <2> QED BY <2>1, <2>2 DEF Tested, At
<1> QED BY <1>2, <1>3 DEF Mismatch, Got

(* A clock but phase 1: what is written is the byte at hand. *)
LEMMA TestMoves ==
  ASSUME RowInv, BusInv, TestInv, PortInv, NEW c, c # NoAct => bist.done, NEW v, MemClock(c, v),
         UNCHANGED <<bist, cap_late>>, init, init', tphase # 1
  PROVE  TestInv'
<1>1. /\ pads' = pads
      /\ cells' = IF Accessing /\ act.we /\ act.adr \in Cells
                   THEN [cells EXCEPT ![act.adr] = act.data] ELSE cells
  BY ChipMoves DEF MemClock
<1>2. DOMAIN cells' = Cells
  BY <1>1 DEF TestInv
<1>3. /\ tphase' = (tphase + 1) % 12 /\ tphase' \in 0 .. 11 /\ tphase \in 0 .. 11
      /\ bist \in BistStates
  BY SlotSteps DEF MemClock, RowInv
<1>6. sc = 2 => tphase \in {3, 9}
  BY <1>3 DEF sc
<1>4. Right' = Right
  BY <1>1 DEF Right
<1>5. ASSUME bist.run
      PROVE  /\ SlotEnds' => act' = BistAccess
             /\ Tested(SoFar)'
             /\ SlotEnds' /\ tphase' \notin {8, 9} /\ ~bist.rd => Tested(bist.i + 1)'
  <2>1. act' = IF sc = 0 THEN Wanted(c, v) ELSE act
    <3>1. RunClock(c, v)
      BY DEF MemClock, SettleClock, InitClock, init
    <3> QED BY <3>1 DEF RunClock, SlotClock
  <2>2. c = NoAct /\ ~bist.done
    BY <1>5 DEF TestInv
  <2>3. SlotEnds' => act' = BistAccess
    <3>1. CASE tphase = 7
      BY <1>5, <2>1, <2>2, <3>1 DEF sc, Wanted, cpu_slot, CpuWanted
    <3>2. CASE tphase # 7
      <4>1. SlotEnds' => SlotEnds /\ sc # 0
        BY <1>3, <3>2 DEF SlotEnds, sc
      <4> QED BY <1>5, <2>1, <4>1 DEF TestInv
    <3> QED BY <3>1, <3>2
  <2>4. CASE Accessing /\ act.we
    <3>1. tphase = 9
      <4>1. tphase \in {3, 9}
        BY <1>6, <2>4 DEF Accessing
      <4>2. tphase \notin 2 .. 6
        BY <2>4, Zenon DEF Accessing, BusInv
      <4> QED BY <4>1, <4>2
    <3>2. act = BistAccess /\ ~bist.rd
      BY <1>5, <2>4, <3>1, BistAccessFacts DEF TestInv, SlotEnds
    <3>3. bist.i \in 0 .. 3
      BY <1>3 DEF BistStates
    <3>4. cells' = [cells EXCEPT ![BistAdr[bist.i]] = BistPat[bist.i]]
      BY <1>1, <2>4, <3>2, <3>3, BistAccessFacts, TestFacts
    <3>5. \A j \in 0 .. 3 : cells'[BistAdr[j]] = IF j = bist.i THEN BistPat[j] ELSE cells[BistAdr[j]]
      BY <3>3, <3>4, TestFacts DEF TestInv
    <3>6. Tested(bist.i)
      BY <1>5, <3>2 DEF TestInv, SoFar
    <3>7. Tested(bist.i)' /\ Tested(bist.i + 1)'
      BY <3>3, <3>5, <3>6 DEF Tested
    <3>8. SoFar' = bist.i
      BY <3>2 DEF SoFar
    <3> QED BY <2>3, <3>2, <3>7, <3>8 DEF Tested
  <2>5. CASE ~(Accessing /\ act.we)
    <3>1. cells' = cells
      BY <1>1, <2>5
    <3>2. Tested(SoFar)'
      BY <1>5, <3>1 DEF TestInv, Tested, SoFar
    <3>3. ASSUME SlotEnds', tphase' \notin {8, 9}, ~bist.rd PROVE Tested(bist.i + 1)
      <4>1. tphase \in {9, 10, 11, 0}
        BY <1>3, <3>3 DEF SlotEnds
      <4>2. tphase # 9
        <5>1. tphase = 9 => SlotEnds /\ sc = 2
          BY DEF SlotEnds, sc
        <5>2. SlotEnds => act = BistAccess
          BY <1>5, Zenon DEF TestInv
        <5>3. BistAccess # NoAct /\ BistAccess.we
          BY <3>3, BistAccessFacts
        <5> QED BY <2>5, <5>1, <5>2, <5>3, Zenon DEF Accessing
      <4>3. SlotEnds /\ tphase \notin {8, 9}
        BY <4>1, <4>2 DEF SlotEnds
      <4> QED BY <1>5, <3>3, <4>3 DEF TestInv
    <3>4. Tested(bist.i + 1)' = Tested(bist.i + 1)
      BY <3>1 DEF Tested
    <3> QED BY <2>3, <3>2, <3>3, <3>4
  <2> QED BY <2>4, <2>5
<1>7. BistAccess' = BistAccess
  BY DEF BistAccess
<1> QED BY <1>1, <1>2, <1>4, <1>5, <1>7 DEF TestInv

(* Phase 1, in which the self-test goes on: the verdict is that of the     *)
(* capture, and a capture that is wrong misses one of the bytes.           *)
LEMMA TestGoesOn ==
  ASSUME RowInv, BusInv, TestInv, VerdictInv, NEW c, NEW v, MemClock(c, v), RunClock(c, v), tphase = 1
  PROVE  TestInv' /\ VerdictInv'
<1>1. pads' = pads /\ cells' = cells
  BY ChipMoves DEF MemClock, Accessing, sc
<1>2. /\ DOMAIN cells' = Cells /\ ~SlotEnds' /\ init'
      /\ pads \in {"on time", "late", "dead"}
  <2>1. tphase' = 2
    BY DEF MemClock
  <2>2. init'
    BY DEF RunClock, init
  <2>3. ~SlotEnds'
    BY <2>1 DEF SlotEnds
  <2>4. DOMAIN cells' = Cells /\ pads \in {"on time", "late", "dead"}
    BY <1>1 DEF TestInv, BusInv
  <2> QED BY <2>2, <2>3, <2>4
<1>3. bist \in BistStates
  BY DEF RowInv
<1>4. CASE UNCHANGED <<bist, cap_late>> /\ ~bist.run
  BY <1>1, <1>2, <1>3, <1>4 DEF TestInv, VerdictInv
<1>5. CASE ~bist.run /\ ~bist.done
  <2>1. bist' = [bist EXCEPT !.run = TRUE] /\ cap_late' = cap_late
    BY <1>5 DEF RunClock, BistClock
  <2>2. /\ bist'.run /\ ~bist'.done /\ bist'.i = 0 /\ ~bist'.rd /\ ~bist'.bad /\ ~cap_late'
    BY <1>3, <1>5, <2>1 DEF TestInv, BistStates
  <2>3. Tested(SoFar)'
    BY <2>2 DEF Tested, SoFar
  <2>4. cap_late' \in BOOLEAN
    BY <2>1 DEF TestInv
  <2> QED BY <1>2, <2>2, <2>3, <2>4 DEF TestInv, VerdictInv
<1>6. CASE bist.run /\ (bist.i < 3 \/ ~bist.rd)
  <2>1. /\ bist' = [bist EXCEPT !.i = (bist.i + 1) % 4, !.rd = bist.rd \/ bist.i = 3,
                                 !.bad = bist.bad \/ (bist.rd /\ Mismatch)]
        /\ cap_late' = cap_late
    BY <1>6 DEF RunClock, BistClock
  <2>2. /\ bist'.run = bist.run /\ bist'.done = bist.done /\ bist'.fail = bist.fail
        /\ bist'.i = (bist.i + 1) % 4 /\ bist'.rd = (bist.rd \/ bist.i = 3)
        /\ bist'.bad = (bist.bad \/ (bist.rd /\ Mismatch))
    BY <1>3, <2>1 DEF BistStates
  <2>3. bist.run /\ ~bist.done /\ bist.i \in 0 .. 3 /\ SlotEnds
    BY <1>3, <1>6, tphase = 1 DEF TestInv, BistStates, SlotEnds
  <2>4. Tested(SoFar)'
    <3>1. CASE bist.rd
      <4>1. Tested(4) /\ SoFar' = 4
        BY <2>2, <2>3, <3>1 DEF TestInv, SoFar
      <4> QED BY <1>1, <4>1 DEF Tested
    <3>2. CASE ~bist.rd
      <4>1. Tested(bist.i + 1)
        <5>1. tphase \notin {8, 9}
          BY tphase = 1
        <5> QED BY <2>3, <3>2, <5>1, Zenon DEF TestInv
      <4>2. SoFar' = bist.i + 1
        <5>1. CASE bist.i = 3
          <6>1. bist'.rd
            BY <2>2, <5>1
          <6> QED BY <5>1, <6>1 DEF SoFar
        <5>2. CASE bist.i # 3
          <6>1. (bist.i + 1) % 4 = bist.i + 1
            BY <2>3, <5>2
          <6>2. ~bist'.rd
            BY <2>2, <3>2, <5>2
          <6> QED BY <2>2, <6>1, <6>2 DEF SoFar
        <5> QED BY <5>1, <5>2
      <4> QED BY <1>1, <4>1, <4>2 DEF Tested
    <3> QED BY <3>1, <3>2
  <2>5. Right' = Right
    BY <1>1, <2>1 DEF Right
  <2>6. ASSUME ~bist'.rd \/ Right PROVE ~bist'.bad
    <3>1. ~bist.bad
      BY <2>2, <2>3, <2>6, Zenon DEF TestInv
    <3>2. ~(bist.rd /\ Mismatch)
      BY <2>2, <2>3, <2>6, Looks, Zenon
    <3> QED BY <2>2, <3>1, <3>2
  <2>7. ASSUME bist'.rd, ~Right PROVE bist'.bad \/ \A j \in 0 .. bist'.i - 1 : BistPat[j] = NoByte
    <3>1. CASE ~bist.rd
      <4>1. bist'.i = 0
        <5>1. bist.i = 3
          BY <2>2, <2>7, <3>1
        <5> QED BY <2>2, <5>1
      <4> QED BY <4>1
    <3>2. CASE bist.rd
      <4>1. bist.bad \/ \A j \in 0 .. bist.i - 1 : BistPat[j] = NoByte
        BY <2>3, <2>7, <3>2, Zenon DEF TestInv
      <4>2. Mismatch <=> BistPat[bist.i] # NoByte
        BY <2>3, <2>7, <3>2, Looks, Zenon
      <4>3. bist'.i = bist.i + 1
        BY <1>6, <2>2, <2>3, <3>2
      <4>4. CASE bist.bad \/ Mismatch
        BY <2>2, <3>2, <4>4
      <4>5. CASE ~bist.bad /\ ~Mismatch
        BY <2>3, <4>1, <4>2, <4>3, <4>5
      <4> QED BY <4>4, <4>5
    <3> QED BY <3>1, <3>2
  <2>8. bist'.run /\ ~bist'.done /\ (cap_late' => pads' # "on time") /\ cap_late' \in BOOLEAN
    <3>1. (cap_late => pads # "on time") /\ cap_late \in BOOLEAN
      BY DEF TestInv
    <3> QED BY <1>1, <2>1, <2>2, <2>3, <3>1
  <2> QED BY <1>2, <2>4, <2>5, <2>6, <2>7, <2>8 DEF TestInv, VerdictInv
<1>7. CASE bist.run /\ ~(bist.i < 3 \/ ~bist.rd)
  <2> DEFINE passed == ~bist.bad /\ ~Mismatch
             over == passed \/ cap_late
  <2>1. /\ bist' = [run |-> ~over, rd |-> FALSE, i |-> 0, bad |-> FALSE,
                     done |-> over, fail |-> over /\ ~passed]
        /\ cap_late' = IF passed THEN cap_late ELSE ~cap_late
    BY <1>7 DEF RunClock, BistClock
  <2>2. bist.i = 3 /\ bist.rd /\ bist.run
    BY <1>3, <1>7 DEF BistStates
  <2>3. Mismatch <=> ~Right /\ BistPat[3] # NoByte
    BY <2>2, Looks
  <2>4. passed <=> Right
    <3>1. CASE Right
      BY <2>2, <2>3, <3>1, Zenon DEF TestInv
    <3>2. CASE ~Right
      <4>1. bist.bad \/ \A j \in 0 .. 3 - 1 : BistPat[j] = NoByte
        BY <2>2, <3>2 DEF TestInv
      <4>2. PICK k \in 0 .. 3 : BistPat[k] # NoByte
        BY TestFacts
      <4>3. CASE k = 3
        BY <2>3, <3>2, <4>2, <4>3
      <4>4. CASE k # 3
        <5>1. k \in 0 .. 3 - 1
          BY <4>2, <4>4
        <5> QED BY <3>2, <4>1, <4>2, <5>1
      <4> QED BY <4>3, <4>4
    <3> QED BY <3>1, <3>2
  <2>5. (cap_late => pads # "on time") /\ cap_late \in BOOLEAN
    BY DEF TestInv
  <2> HIDE DEF passed
  <2>6. /\ bist'.run = ~over /\ bist'.done = over /\ bist'.fail = (over /\ ~passed)
        /\ bist'.i = 0 /\ ~bist'.rd /\ ~bist'.bad
    BY <2>1
  <2>7. Tested(SoFar)'
    BY <2>6 DEF Tested, SoFar
  <2>8. CASE Right
    <3>1. passed /\ cap_late' = cap_late /\ ~bist'.run /\ bist'.done /\ ~bist'.fail
      BY <2>1, <2>4, <2>6, <2>8
    <3>2. pads' # "dead" /\ (cap_late' <=> pads' = "late")
      BY <1>1, <2>8, <3>1, <2>5 DEF Right
    <3> QED BY <1>1, <1>2, <2>5, <3>1, <3>2 DEF TestInv, VerdictInv
  <2>9. CASE ~Right /\ cap_late
    <3>1. ~passed /\ cap_late' = FALSE /\ ~bist'.run /\ bist'.done /\ bist'.fail
      BY <2>1, <2>4, <2>6, <2>9
    <3>2. pads' = "dead"
      BY <1>1, <1>2, <2>5, <2>9 DEF Right
    <3> QED BY <1>1, <1>2, <3>1, <3>2 DEF TestInv, VerdictInv
  <2>10. CASE ~Right /\ ~cap_late
    <3>1. ~passed /\ cap_late' = TRUE /\ bist'.run /\ ~bist'.done
      BY <2>1, <2>4, <2>5, <2>6, <2>10
    <3>2. pads' # "on time"
      BY <1>1, <2>10 DEF Right
    <3> QED BY <1>2, <1>3, <2>6, <2>7, <3>1, <3>2 DEF TestInv, VerdictInv
  <2> QED BY <2>8, <2>9, <2>10
<1>8. CASE ~bist.run /\ bist.done
  <2>1. UNCHANGED <<bist, cap_late>>
    BY <1>8 DEF RunClock, BistClock
  <2> QED BY <1>4, <1>8, <2>1
<1> QED BY <1>5, <1>6, <1>7, <1>8

LEMMA TestKept ==
  ASSUME RowInv, BusInv, TestInv, VerdictInv, PortInv, NEW c, c # NoAct => bist.done, NEW v, MemClock(c, v)
  PROVE  TestInv' /\ VerdictInv'
<1>1. pads' = pads
  BY ChipMoves DEF MemClock
<1>2. CASE SettleClock \/ InitClock
  <2>1. UNCHANGED <<bist, cap_late>> /\ act = NoAct /\ ~bist.run /\ ~bist.done
    BY <1>2 DEF SettleClock, InitClock, RowInv, QuietBeforeInit, init, TestInv, PortInv
  <2>2. cells' = cells
    BY <2>1, ChipMoves DEF MemClock, Accessing
  <2> QED BY <1>1, <2>1, <2>2 DEF TestInv, VerdictInv
<1>3. CASE RunClock(c, v) /\ tphase = 1
  BY <1>3, TestGoesOn
<1>4. CASE RunClock(c, v) /\ tphase # 1
  <2>1. UNCHANGED <<bist, cap_late>> /\ init /\ init'
    BY <1>4 DEF RunClock, BistClock, init
  <2> QED BY <1>1, <1>4, <2>1, TestMoves DEF VerdictInv
<1> QED BY <1>2, <1>3, <1>4 DEF MemClock

-----------------------------------------------------------------------------
(* The CPU's port. *)
LEMMA PortKept ==
  ASSUME RowInv, BusInv, TestInv, VerdictInv, PortInv, NEW c, CpuAsks(c), NEW v, NEW m,
         MemClock(c, v), Clock(c, m)
  PROVE  PortInv'
<1>1. /\ IsAccess(c)
      /\ c # NoAct => tphase = 7 /\ bist.done /\ c.adr \in Cells /\ c.who = "cpu"
  BY CpuRequests
<1>2. /\ asked' = IF tphase \in {7, 0} THEN c ELSE asked
      /\ written' = IF ~bist.done THEN cells'
                    ELSE IF c # NoAct /\ c.we THEN [written EXCEPT ![c.adr] = c.data] ELSE written
  BY DEF Clock
<1>3. cells' = IF Accessing /\ act.we /\ act.adr \in Cells
               THEN [cells EXCEPT ![act.adr] = act.data] ELSE cells
  BY ChipMoves DEF MemClock
<1>4. tphase' = (tphase + 1) % 12 /\ tphase \in 0 .. 11
  BY DEF MemClock, RowInv
<1>5. CASE ~bist.done
  <2>1. c = NoAct /\ asked' = NoAct /\ written' = cells'
    BY <1>1, <1>2, <1>5 DEF PortInv
  <2>2. ASSUME bist'.done PROVE tphase = 1 /\ init'
    <3>1. bist' # bist
      BY <1>5, <2>2
    <3>2. RunClock(c, v)
      BY <3>1 DEF MemClock, SettleClock, InitClock
    <3>3. tphase = 1
      BY <3>1, <3>2 DEF RunClock, BistClock
    <3> QED BY <3>2, <3>3 DEF RunClock, init
  <2>3. bist'.done => tphase' = 2
    BY <1>4, <2>2
  <2> QED BY <2>1, <2>2, <2>3 DEF PortInv, InFlight
<1>6. CASE bist.done
  <2>1. init /\ RunClock(c, v) /\ ~bist.run
    BY <1>6 DEF PortInv, VerdictInv, MemClock, SettleClock, InitClock, init
  <2>2. /\ bist' = bist /\ init'
        /\ act' = IF sc = 0 THEN Wanted(c, v) ELSE act
    BY <1>6, <2>1 DEF RunClock, BistClock, SlotClock, init
  <2>3. /\ tphase \in {8, 9, 10, 11, 0} => asked = act /\ (act # NoAct => act.adr \in Cells /\ act.who = "cpu")
        /\ written = IF InFlight THEN [cells EXCEPT ![act.adr] = act.data] ELSE cells
    BY <1>6, Zenon DEF PortInv
  <2>4. CASE tphase = 7
    <3>1. act' = c /\ asked' = c /\ tphase' = 8
      BY <1>2, <1>4, <2>1, <2>2, <2>4 DEF sc, Wanted, cpu_slot, CpuWanted
    <3>2. cells' = cells /\ written = cells
      BY <1>3, <2>3, <2>4 DEF Accessing, sc, InFlight
    <3>3. written' = IF c # NoAct /\ c.we THEN [cells EXCEPT ![c.adr] = c.data] ELSE cells
      BY <1>2, <1>6, <3>2
    <3>4. InFlight' <=> c # NoAct /\ c.we
      BY <3>1 DEF InFlight
    <3> QED BY <1>1, <1>6, <2>2, <3>1, <3>2, <3>3, <3>4 DEF PortInv
  <2>5. CASE tphase # 7
    <3>1. c = NoAct /\ written' = written
      BY <1>1, <1>2, <1>6, <2>5
    <3>2. ASSUME tphase' \in {8, 9, 10, 11, 0}
          PROVE  asked' = act' /\ (act' # NoAct => act'.adr \in Cells /\ act'.who = "cpu")
      <4>1. tphase \in {8, 9, 10, 11} /\ sc # 0
        BY <1>4, <2>5, <3>2 DEF sc
      <4> QED BY <1>2, <2>2, <2>3, <4>1
    <3>3. written' = IF InFlight' THEN [cells' EXCEPT ![act'.adr] = act'.data] ELSE cells'
      <4>1. CASE tphase = 8
        <5>1. act' = act /\ cells' = cells /\ tphase' = 9
          BY <1>3, <1>4, <2>2, <4>1 DEF sc, Accessing
        <5>2. InFlight' <=> InFlight
          BY <4>1, <5>1 DEF InFlight
        <5> QED BY <2>3, <3>1, <5>1, <5>2
      <4>2. CASE tphase = 9
        <5>1. tphase' = 10 /\ sc = 2
          BY <1>4, <4>2 DEF sc
        <5>2. ~InFlight'
          BY <5>1 DEF InFlight
        <5>3. act # NoAct => act.adr \in Cells
          BY <2>3, <4>2
        <5>4. Accessing /\ act.we <=> InFlight
          BY <4>2, <5>1 DEF InFlight, Accessing
        <5>5. cells' = IF InFlight THEN [cells EXCEPT ![act.adr] = act.data] ELSE cells
          BY <1>3, <5>3, <5>4 DEF InFlight
        <5> QED BY <2>3, <3>1, <5>2, <5>5
      <4>3. CASE tphase \notin {8, 9}
        <5>1. ~InFlight /\ ~InFlight'
          BY <1>4, <2>5, <4>3 DEF InFlight
        <5>2. ~(Accessing /\ act.we)
          <6>1. Accessing => tphase = 3
            BY <1>4, <4>3 DEF Accessing, sc
          <6>2. tphase \in 2 .. 6 /\ act # NoAct => ~act.we
            BY DEF BusInv
          <6>3. tphase = 3 => tphase \in 2 .. 6
            OBVIOUS
          <6> QED BY <6>1, <6>2, <6>3, Zenon DEF Accessing
        <5> QED BY <1>3, <2>3, <3>1, <5>1, <5>2
      <4> QED BY <4>1, <4>2, <4>3
    <3> QED BY <1>6, <2>2, <3>2, <3>3 DEF PortInv
  <2> QED BY <2>4, <2>5
<1> QED BY <1>5, <1>6

-----------------------------------------------------------------------------
(* The whole. *)
MemoryInv == RowInv /\ BusInv /\ TestInv /\ VerdictInv /\ PortInv /\ VidReqInv

LEMMA MemoryInvHolds == Spec => []MemoryInv
<1>1. Init => MemoryInv
  <2> SUFFICES ASSUME Init PROVE MemoryInv
    OBVIOUS
  <2>1. MemInit /\ VidInit /\ asked = NoAct /\ written = cells
    BY DEF Init
  <2>2. RowInv
    BY <2>1, InitRowInv
  <2>3. act = NoAct /\ tphase = 0 /\ cap_late = FALSE
        /\ bist = [run |-> FALSE, rd |-> FALSE, i |-> 0, bad |-> FALSE, done |-> FALSE, fail |-> FALSE]
    BY <2>1 DEF MemInit
  <2>4. BusInv
    BY <2>1, <2>3 DEF BusInv, MemInit, Accessing
  <2>5. TestInv /\ VerdictInv
    <3>1. DOMAIN cells = Cells
      BY <2>1 DEF MemInit
    <3>2. ~bist.run /\ ~bist.done /\ bist.i = 0 /\ ~bist.rd /\ ~bist.bad
      BY <2>3
    <3> QED BY <2>3, <3>1, <3>2 DEF TestInv, VerdictInv
  <2>6. PortInv
    BY <2>1, <2>3 DEF PortInv
  <2>7. VidReqInv
    BY <2>1 DEF VidReqInv, VidInit
  <2> QED BY <2>2, <2>4, <2>5, <2>6, <2>7 DEF MemoryInv
<1>2. MemoryInv /\ [Next]_vars => MemoryInv'
  <2> SUFFICES ASSUME MemoryInv, [Next]_vars PROVE MemoryInv'
    OBVIOUS
  <2>1. CASE Next
    <3>1. PICK c, m : CpuAsks(c) /\ Clock(c, m)
      <4>1. CASE NoCycle
        BY <4>1 DEF NoCycle, CpuAsks
      <4>2. CASE MemCycle
        BY <4>2 DEF MemCycle, CpuAsks
      <4>3. CASE ModeCycle
        BY <4>3 DEF ModeCycle, CpuAsks
      <4> QED BY <2>1, <4>1, <4>2, <4>3 DEF Next
    <3>2. MemClock(c, VidAccess) /\ VidClock(~init, tphase, vid_ack, vid_rdata)
      BY <3>1 DEF Clock
    <3>3. /\ IsAccess(c) /\ (c # NoAct => bist.done)
          /\ IsAccess(VidAccess) /\ (VidAccess # NoAct => VidAccess.we = FALSE)
      BY <3>1, CpuRequests, VidReads DEF MemoryInv
    <3>4. RowInv' /\ BusInv' /\ VidReqInv'
      BY <3>2, <3>3, ClockKeepsRowInv, BusKept, VidReqKept DEF MemoryInv
    <3>5. TestInv' /\ VerdictInv'
      BY <3>2, <3>3, TestKept DEF MemoryInv
    <3>6. PortInv'
      BY <3>1, <3>2, PortKept DEF MemoryInv
    <3> QED BY <3>4, <3>5, <3>6 DEF MemoryInv
  <2>2. CASE UNCHANGED vars
    <3>1. /\ UNCHANGED <<tphase, settle, started, istep, ref_cnt, ref_due, bist, cap_late, act, cmd,
                         cpu_rdata, vid_rdata, vid_ack, pads, open, dq, cells>>
          /\ UNCHANGED <<ftst, vid_req, asked, written>>
      BY <2>2 DEF vars, memVars, vidVars
    <3>2. RowInv'
      BY <3>1 DEF MemoryInv, RowInv, QuietBeforeInit, Opening, Accessing, AllClosed, OnlyOpen, init, sc,
                  IsAccess, IsAdr, Column
    <3>3. BusInv'
      BY <3>1 DEF MemoryInv, BusInv, Accessing, sc, Got, Right, At
    <3>4. TestInv' /\ VerdictInv'
      BY <3>1 DEF MemoryInv, TestInv, VerdictInv, init, SlotEnds, BistAccess, Tested, SoFar, Right
    <3>5. PortInv' /\ VidReqInv'
      BY <3>1 DEF MemoryInv, PortInv, VidReqInv, init, InFlight
    <3> QED BY <3>2, <3>3, <3>4, <3>5 DEF MemoryInv
  <2> QED BY <2>1, <2>2
<1> QED BY <1>1, <1>2, PTL DEF Spec

(* The picture's requests and the CPU's are such that the rule of the rows *)
(* holds of the whole, too.                                                *)
THEOREM RowRuleInScreen == Spec => []RowRule
<1>1. MemoryInv => RowRule
  BY RowInvGivesRule DEF MemoryInv
<1> QED BY <1>1, MemoryInvHolds, PTL

(* The self-test passes with the capture where the words are, or fails,    *)
(* for any four bytes that are not all the idle bus, and any four cells.   *)
THEOREM BistVerdictHolds == Spec => []BistVerdict
<1>1. MemoryInv => BistVerdict
  <2> SUFFICES ASSUME MemoryInv, bist.done
               PROVE  bist.fail = (pads = "dead") /\ cap_late = (pads = "late")
    BY DEF BistVerdict
  <2>1. bist.fail \in BOOLEAN /\ cap_late \in BOOLEAN
    BY DEF MemoryInv, RowInv, TestInv, BistStates
  <2>2. (bist.fail <=> pads = "dead") /\ (cap_late <=> pads = "late")
    BY DEF MemoryInv, VerdictInv
  <2> QED BY <2>1, <2>2
<1> QED BY <1>1, MemoryInvHolds, PTL

(* The CPU reads back what it wrote, in time, for any cells and bytes, any *)
(* picture and any refresh.                                                *)
THEOREM CpuReadsBackHolds == Spec => []CpuReadsBack
<1>1. MemoryInv => CpuReadsBack
  <2> SUFFICES ASSUME MemoryInv, tphase = 0, ~bist.fail, asked # NoAct, ~asked.we
               PROVE  cpu_rdata = written[asked.adr]
    BY DEF CpuReadsBack
  <2>1. bist.done
    BY DEF MemoryInv, PortInv
  <2>2. asked = act /\ act.adr \in Cells /\ written = cells
    BY <2>1 DEF MemoryInv, PortInv, InFlight
  <2>3. Right
    BY <2>1 DEF MemoryInv, VerdictInv, BusInv, Right
  <2>4. act.who = "cpu"
    BY <2>1, <2>2 DEF MemoryInv, PortInv
  <2>5. cpu_rdata = Got(act.adr)
    BY <2>2, <2>4 DEF MemoryInv, BusInv
  <2> QED BY <2>2, <2>3, <2>5 DEF Got, At
<1> QED BY <1>1, MemoryInvHolds, PTL

-----------------------------------------------------------------------------
(* The picture: where the fetch is in the line.  Tile t of the fetch takes *)
(* the T-states 0 to LastState, of twelve clocks each; after the last tile *)
(* the display goes on for a tile.                                         *)
LastState == IF wide THEN 2 ELSE 3
Pos(t, k, f) == x0 - w6 + t * w6 + 12 * k + f

(* A byte is acknowledged on this phase, or on none. *)
AckPhase == IF cap_late THEN 6 ELSE 5

(* What T-state k of tile t has to ask for. *)
Wants(t, k) ==
  CASE k = 0 -> NameAt(row, t)
    [] k = 1 -> PatternOf(NameAt(row, t), lrow)
    [] k = 2 /\ mode = 2 -> ColourOf(NameAt(row, t), lrow)
    [] OTHER -> NoReq

(* The counters of the fetch; its request on its way through the slot; the *)
(* bytes it has; the tile handed over; the tile and the pixel shown.       *)
CountsAt(t, k, f) ==
  /\ t < Tiles /\ ~(t = 0 /\ k = 0 /\ f = 0) => ftst = k /\ ftile = t
  /\ t = Tiles => ftst = 0

AsksAt(t, k, f) ==
  t \in 1 .. Tiles - 1 /\ Wants(t, k) # NoReq =>
    /\ f = 1 => vid_req = Wants(t, k)
    /\ f \in 2 .. 6 => act = Fetch("vid", Where(Wants(t, k)))
    /\ f = AckPhase => vid_ack /\ vid_rdata = Wants(t, k)

HasAt(t, k, f) ==
  t \in 1 .. Tiles - 1 =>
    /\ k > 0 \/ (k = 0 /\ f > AckPhase) => f_name = Wants(t, 0)
    /\ k > 1 \/ (k = 1 /\ f > AckPhase) => f_pat = Wants(t, 1)
    /\ mode = 2 /\ (k > 2 \/ (k = 2 /\ f > AckPhase)) => f_col = Wants(t, 2)

NextAt(t, k, f) ==
  LET n == IF k = LastState /\ f = 11 /\ t < Tiles THEN t ELSE t - 1
  IN  n >= 1 => n_tile = Shown(n)

Turned(k, f) == k = LastState /\ f >= 7

ShowsAt(t, k, f) ==
  t >= 1 =>
    LET n == IF Turned(k, f) THEN t - 1 ELSE t - 2
    IN  /\ n >= 1 => d_tile = Shown(n)
        /\ d_px = IF Turned(k, f) THEN 0
                  ELSE 2 * k + (IF f = 0 THEN 0 ELSE IF f <= 6 THEN 1 ELSE 2)

Stage(t, k, f) ==
  CountsAt(t, k, f) /\ AsksAt(t, k, f) /\ HasAt(t, k, f) /\ NextAt(t, k, f) /\ ShowsAt(t, k, f)

ClockInv ==
  /\ hcnt \in 0 .. HTotal - 1 /\ vcnt \in Nat
  /\ mode \in 0 .. 3
  /\ tphase = hcnt % 12
  /\ hcnt > 0 => px6 = (hcnt - 1) % 6

AckInv == bist.done /\ vid_ack => tphase = AckPhase

Lined == steady /\ pads # "dead" /\ v_active /\ mode # 3

LineInv ==
  /\ steady => bist.done
  /\ Lined => \A t \in 0 .. Tiles, k \in 0 .. LastState, f \in 0 .. 11 :
       hcnt = Pos(t, k, f) => Stage(t, k, f)

-----------------------------------------------------------------------------
(* The places of a line. *)
LEMMA Geometry ==
  ASSUME mode \in 0 .. 2, NEW t \in 0 .. Tiles, NEW k \in 0 .. LastState, NEW f \in 0 .. 11
  PROVE  /\ LastState \in 2 .. 3 /\ w6 = 12 * (LastState + 1) /\ (mode = 2 => LastState = 3)
         /\ \E q \in Nat : Pos(t, k, f) = 12 * q + f
         /\ Pos(t, k, f) \in 0 .. HTotal - 1
         /\ Pos(t, k, f) >= x0 - w6 /\ Pos(t, k, f) < x1 - w6 <=> t < Tiles
         /\ Pos(t, k, f) >= x0 /\ Pos(t, k, f) < x1 <=> t >= 1
         /\ Pos(t, k, f) = x0 - w6 <=> t = 0 /\ k = 0 /\ f = 0
         /\ Pos(t, k, f) + 1 = x0 <=> t = 0 /\ k = LastState /\ f = 11
<1>1. /\ X0Wide \in Nat /\ X0Wide % 12 = 0 /\ X0Wide >= 36
      /\ X0Narrow \in Nat /\ X0Narrow % 12 = 0 /\ X0Narrow >= 48
      /\ X0Wide + 36 * Tiles < HTotal /\ X0Narrow + 48 * Tiles < HTotal
      /\ Tiles \in Nat /\ HTotal \in Nat
  BY VideoAssumption
<1>2. CASE wide
  <2>1. LastState = 2 /\ w6 = 36 /\ x0 = X0Wide /\ x1 = X0Wide + Tiles * 36 /\ mode # 2
    BY <1>2 DEF LastState, w6, x0, x1, wide
  <2>2. Pos(t, k, f) = X0Wide - 36 + t * 36 + 12 * k + f /\ k \in 0 .. 2
    BY <2>1 DEF Pos
  <2>3. PICK x \in Nat : X0Wide = 12 * x
    <3>1. X0Wide = 12 * (X0Wide \div 12) /\ X0Wide \div 12 \in Nat
      BY <1>1
    <3> QED BY <3>1
  <2>4. x - 3 + 3 * t + k \in Nat /\ Pos(t, k, f) = 12 * (x - 3 + 3 * t + k) + f
    BY <1>1, <2>2, <2>3
  <2>5. /\ t <= Tiles /\ (t < Tiles => t + 1 <= Tiles)
        /\ 12 * k + f < 36 /\ Pos(t, k, f) = X0Wide - 36 + t * 36 + (12 * k + f)
    BY <1>1, <2>2
  <2>6. Pos(t, k, f) \in 0 .. HTotal - 1
    BY <1>1, <2>5
  <2>7. Pos(t, k, f) >= x0 - w6 /\ Pos(t, k, f) < x1 - w6 <=> t < Tiles
    BY <1>1, <2>1, <2>5
  <2>8. Pos(t, k, f) >= x0 /\ Pos(t, k, f) < x1 <=> t >= 1
    BY <1>1, <2>1, <2>5
  <2>9. Pos(t, k, f) = x0 - w6 <=> t = 0 /\ k = 0 /\ f = 0
    BY <1>1, <2>1, <2>2
  <2>10. Pos(t, k, f) + 1 = x0 <=> t = 0 /\ k = LastState /\ f = 11
    BY <1>1, <2>1, <2>2
  <2>11. \E q \in Nat : Pos(t, k, f) = 12 * q + f
    BY <2>4
  <2>12. LastState \in 2 .. 3 /\ w6 = 12 * (LastState + 1) /\ (mode = 2 => LastState = 3)
    BY <2>1
  <2> QED BY <2>6, <2>7, <2>8, <2>9, <2>10, <2>11, <2>12, Zenon
<1>3. CASE ~wide
  <2>1. LastState = 3 /\ w6 = 48 /\ x0 = X0Narrow /\ x1 = X0Narrow + Tiles * 48
    BY <1>3 DEF LastState, w6, x0, x1
  <2>2. Pos(t, k, f) = X0Narrow - 48 + t * 48 + 12 * k + f /\ k \in 0 .. 3
    BY <2>1 DEF Pos
  <2>3. PICK x \in Nat : X0Narrow = 12 * x
    <3>1. X0Narrow = 12 * (X0Narrow \div 12) /\ X0Narrow \div 12 \in Nat
      BY <1>1
    <3> QED BY <3>1
  <2>4. x - 4 + 4 * t + k \in Nat /\ Pos(t, k, f) = 12 * (x - 4 + 4 * t + k) + f
    BY <1>1, <2>2, <2>3
  <2>5. /\ t <= Tiles /\ (t < Tiles => t + 1 <= Tiles)
        /\ 12 * k + f < 48 /\ Pos(t, k, f) = X0Narrow - 48 + t * 48 + (12 * k + f)
    BY <1>1, <2>2
  <2>6. Pos(t, k, f) \in 0 .. HTotal - 1
    BY <1>1, <2>5
  <2>7. Pos(t, k, f) >= x0 - w6 /\ Pos(t, k, f) < x1 - w6 <=> t < Tiles
    BY <1>1, <2>1, <2>5
  <2>8. Pos(t, k, f) >= x0 /\ Pos(t, k, f) < x1 <=> t >= 1
    BY <1>1, <2>1, <2>5
  <2>9. Pos(t, k, f) = x0 - w6 <=> t = 0 /\ k = 0 /\ f = 0
    BY <1>1, <2>1, <2>2
  <2>10. Pos(t, k, f) + 1 = x0 <=> t = 0 /\ k = LastState /\ f = 11
    BY <1>1, <2>1, <2>2
  <2>11. \E q \in Nat : Pos(t, k, f) = 12 * q + f
    BY <2>4
  <2>12. LastState \in 2 .. 3 /\ w6 = 12 * (LastState + 1) /\ (mode = 2 => LastState = 3)
    BY <2>1
  <2> QED BY <2>6, <2>7, <2>8, <2>9, <2>10, <2>11, <2>12, Zenon
<1> QED BY <1>2, <1>3

(* The phase and the pixel's clock at a place. *)
LEMMA PhaseAt ==
  ASSUME ClockInv, mode \in 0 .. 2, NEW t \in 0 .. Tiles, NEW k \in 0 .. LastState, NEW f \in 0 .. 11,
         hcnt = Pos(t, k, f)
  PROVE  /\ tphase = f
         /\ t >= 1 => (px6 = 5 <=> f \in {0, 6})
<1>1. PICK q \in Nat : hcnt = 12 * q + f
  BY Geometry
<1>2. tphase = f
  BY <1>1 DEF ClockInv
<1>3. ASSUME t >= 1 PROVE px6 = 5 <=> f \in {0, 6}
  <2>1. hcnt > 0
    <3>1. hcnt >= x0 /\ x0 > 0
      BY <1>3, Geometry, VideoAssumption DEF x0
    <3>2. x0 \in Nat /\ hcnt \in Nat
      BY VideoAssumption DEF x0, ClockInv
    <3> QED BY <3>1, <3>2
  <2>2. px6 = (12 * q + f - 1) % 6
    BY <1>1, <2>1 DEF ClockInv
  <2>3. 12 * q + f - 1 \in Nat
    BY <1>1, <2>1
  <2> QED BY <2>2, <2>3
<1> QED BY <1>2, <1>3

(* The place before a place. *)
LEMMA Before ==
  ASSUME ClockInv, mode \in 0 .. 2, Raster, NEW t \in 0 .. Tiles, NEW k \in 0 .. LastState,
         NEW f \in 0 .. 11, hcnt' = Pos(t, k, f), ~(t = 0 /\ k = 0 /\ f = 0)
  PROVE  /\ hcnt # HTotal - 1 /\ vcnt' = vcnt
         /\ f > 0 => hcnt = Pos(t, k, f - 1)
         /\ f = 0 /\ k > 0 => hcnt = Pos(t, k - 1, 11)
         /\ f = 0 /\ k = 0 => t > 0 /\ hcnt = Pos(t - 1, LastState, 11)
<1>1. hcnt' > 0
  <2>1. Pos(t, k, f) >= x0 - w6 /\ Pos(t, k, f) # x0 - w6
    <3>1. Pos(t, k, f) # x0 - w6
      BY Geometry
    <3>2. Pos(t, k, f) >= x0 - w6
      <4>1. x0 \in Nat /\ t * w6 \in Nat
        BY VideoAssumption DEF x0, w6
      <4>2. 12 * k + f \in Nat /\ w6 \in Nat
        BY Geometry DEF LastState, w6
      <4> QED BY <4>1, <4>2 DEF Pos
    <3> QED BY <3>1, <3>2
  <2>2. x0 - w6 >= 0 /\ x0 - w6 \in Int /\ Pos(t, k, f) \in Int
    BY VideoAssumption, Geometry DEF x0, w6
  <2> QED BY <2>1, <2>2
<1>2. hcnt # HTotal - 1 /\ hcnt' = hcnt + 1 /\ vcnt' = vcnt /\ hcnt \in Nat
  <2>1. hcnt' = (hcnt + 1) % HTotal /\ hcnt \in 0 .. HTotal - 1 /\ HTotal \in Nat
    BY VideoAssumption DEF Raster, ClockInv
  <2>2. hcnt # HTotal - 1
    BY <1>1, <2>1
  <2>3. hcnt' = hcnt + 1
    BY <2>1, <2>2
  <2> QED BY <2>1, <2>2, <2>3 DEF Raster
<1>3. x0 \in Nat /\ w6 \in Nat /\ w6 = 12 * (LastState + 1) /\ LastState \in Nat /\ t * w6 \in Nat
      /\ (t - 1) * w6 = t * w6 - w6
  <2>1. LastState \in 2 .. 3 /\ w6 = 12 * (LastState + 1)
    BY Geometry
  <2>2. x0 \in Nat /\ w6 \in {36, 48} /\ t \in Nat
    BY VideoAssumption DEF x0, w6
  <2> QED BY <2>1, <2>2
<1>4. hcnt = x0 - w6 + t * w6 + 12 * k + f - 1
  BY <1>2, <1>3 DEF Pos
<1>5. f = 0 /\ k = 0 => t > 0
  OBVIOUS
<1> QED BY <1>2, <1>3, <1>4, <1>5 DEF Pos

-----------------------------------------------------------------------------
(* A clock within a line of the picture. *)
InLine(c) ==
  /\ v_active /\ mode \in 0 .. 2 /\ pads # "dead" /\ bist.done /\ init
  /\ UNCHANGED <<mode, vcnt, cap_late>>
  /\ FetchClock(~init, tphase, vid_ack, vid_rdata)
  /\ HandOver(tphase)
  /\ ShowClock
  /\ SlotClock(c, VidAccess)

LEMMA PlaceFacts ==
  ASSUME ClockInv, mode \in 0 .. 2, NEW t \in 0 .. Tiles, NEW k \in 0 .. LastState, NEW f \in 0 .. 11,
         hcnt = Pos(t, k, f)
  PROVE  /\ tphase = f
         /\ fetch_win <=> t < Tiles
         /\ h_active <=> t >= 1
         /\ f_first <=> t = 0 /\ k = 0 /\ f = 0
         /\ hcnt + 1 = x0 <=> t = 0 /\ k = LastState /\ f = 11
         /\ t >= 1 => (px6 = 5 <=> f \in {0, 6})
<1>1. tphase = f /\ (t >= 1 => (px6 = 5 <=> f \in {0, 6}))
  BY PhaseAt
<1>2. /\ hcnt >= x0 - w6 /\ hcnt < x1 - w6 <=> t < Tiles
      /\ hcnt >= x0 /\ hcnt < x1 <=> t >= 1
      /\ hcnt = x0 - w6 <=> t = 0 /\ k = 0 /\ f = 0
      /\ hcnt + 1 = x0 <=> t = 0 /\ k = LastState /\ f = 11
  BY Geometry
<1> QED BY <1>1, <1>2 DEF fetch_win, h_active, f_first

LEMMA LineFacts ==
  ASSUME mode \in 0 .. 2
  PROVE  /\ LastState \in 2 .. 3 /\ (mode = 2 => LastState = 3) /\ Tiles \in 1 .. 64
         /\ tile_last <=> ftst = LastState
         /\ d_last <=> d_px = 2 * LastState + 1
BY VideoAssumption DEF LastState, wide, tile_last, d_last

(* The names of the line stay. *)
LEMMA SameLine ==
  ASSUME mode' = mode, vcnt' = vcnt, cap_late' = cap_late
  PROVE  /\ LastState' = LastState /\ AckPhase' = AckPhase
         /\ v_active' = v_active
         /\ \A t, k : Wants(t, k)' = Wants(t, k)
         /\ \A n : Shown(n)' = Shown(n)
         /\ \A t, k, f : Pos(t, k, f)' = Pos(t, k, f)
BY DEF LastState, AckPhase, v_active, Wants, Shown, Pos, x0, w6, wide, row, lrow, line

(* The counters. *)
LEMMA CountsKept ==
  ASSUME NEW c, InLine(c), ClockInv, NEW t \in 0 .. Tiles, NEW k \in 0 .. LastState
  PROVE  /\ \A f \in 1 .. 11 : hcnt = Pos(t, k, f - 1) /\ CountsAt(t, k, f - 1) => CountsAt(t, k, f)'
         /\ k > 0 /\ hcnt = Pos(t, k - 1, 11) /\ CountsAt(t, k - 1, 11) => CountsAt(t, k, 0)'
         /\ t > 0 /\ hcnt = Pos(t - 1, LastState, 11) /\ CountsAt(t - 1, LastState, 11)
            => CountsAt(t, 0, 0)'
<1>1. /\ LastState' = LastState /\ LastState \in 2 .. 3 /\ Tiles \in 1 .. 64
      /\ tile_last <=> ftst = LastState
  BY SameLine, LineFacts DEF InLine
<1>2. IF f_first THEN ftst' = 0 /\ ftile' = 0
      ELSE IF fetch_win /\ tphase = 11
      THEN /\ ftst' = IF tile_last THEN 0 ELSE (ftst + 1) % 4
           /\ ftile' = IF tile_last THEN (ftile + 1) % 64 ELSE ftile
      ELSE UNCHANGED <<ftst, ftile>>
  <2>1. v_active /\ mode # 3 /\ init
    BY DEF InLine
  <2> QED BY <2>1 DEF InLine, FetchClock
<1>3. mode \in 0 .. 2
  BY DEF InLine
<1>4. ASSUME NEW f \in 1 .. 11, hcnt = Pos(t, k, f - 1), CountsAt(t, k, f - 1)
      PROVE  CountsAt(t, k, f)'
  <2>1. tphase = f - 1 /\ f - 1 \in 0 .. 10 /\ (f_first <=> t = 0 /\ k = 0 /\ f - 1 = 0)
    <3>1. f - 1 \in 0 .. 11 /\ f - 1 \in 0 .. 10
      OBVIOUS
    <3> QED BY <1>3, <1>4, <3>1, PlaceFacts
  <2>2. CASE f_first
    BY <1>1, <1>2, <2>1, <2>2 DEF CountsAt
  <2>3. CASE ~f_first
    BY <1>1, <1>2, <1>4, <2>1, <2>3 DEF CountsAt
  <2> QED BY <2>2, <2>3
<1>5. ASSUME k > 0, hcnt = Pos(t, k - 1, 11), CountsAt(t, k - 1, 11) PROVE CountsAt(t, k, 0)'
  <2>1. tphase = 11 /\ ~f_first /\ (fetch_win <=> t < Tiles) /\ k - 1 \in 0 .. LastState
    <3>1. k - 1 \in 0 .. LastState
      BY <1>1, <1>5
    <3> QED BY <1>3, <1>5, <3>1, PlaceFacts
  <2>2. t < Tiles => ftst = k - 1 /\ ftile = t
    BY <1>5 DEF CountsAt
  <2> QED BY <1>1, <1>2, <1>5, <2>1, <2>2 DEF CountsAt
<1>6. ASSUME t > 0, hcnt = Pos(t - 1, LastState, 11), CountsAt(t - 1, LastState, 11)
      PROVE  CountsAt(t, 0, 0)'
  <2>1. tphase = 11 /\ ~f_first /\ fetch_win /\ t - 1 \in 0 .. Tiles - 1
    <3>1. t - 1 \in 0 .. Tiles /\ t - 1 < Tiles /\ LastState \in 0 .. LastState
      BY <1>1, <1>6
    <3> QED BY <1>1, <1>3, <1>6, <3>1, PlaceFacts
  <2>2. ftst = LastState /\ ftile = t - 1
    BY <1>1, <1>6, <2>1 DEF CountsAt
  <2> QED BY <1>1, <1>2, <1>6, <2>1, <2>2 DEF CountsAt
<1> QED BY <1>4, <1>5, <1>6

(* A request goes through its slot: the chip answers on the clock that the *)
(* capture is set to, with the byte of the table that was asked for.       *)
LEMMA TableBytes ==
  ASSUME v_active, mode \in 0 .. 2, NEW t \in 1 .. Tiles - 1, NEW k, Wants(t, k) # NoReq
  PROVE  At(Where(Wants(t, k))) = Wants(t, k)
<1> DEFINE y == vcnt - VFirst
           name == NameAt(y \div TileLines, t)
           w == Wants(t, k)
<1>1. y \in 0 .. VLast - VFirst /\ t \in 0 .. Tiles - 1
  BY VideoAssumption DEF v_active
<1>2. {name, PatternOf(name, y % TileLines), ColourOf(name, y % TileLines)} \subseteq Col
  BY <1>1, ScreenAssumption
<1>3. w \in {name, PatternOf(name, y % TileLines), ColourOf(name, y % TileLines)}
  BY DEF Wants, row, lrow, line
<1>4. w \in Col /\ w.want \in Tables
  BY <1>2, <1>3 DEF NameAt, PatternOf, ColourOf, Tables
<1> HIDE DEF w
<1>5. Where(w) \in Adr /\ Where(w).row = w.want /\ Where(w).col = w
  BY <1>4, ScreenAssumption DEF Where, Adr
<1>6. Where(w) \notin Cells /\ Stored(Where(w)) = w
  BY <1>4, <1>5, ScreenAssumption
<1> QED BY <1>6 DEF At, w

LEMMA AsksKept ==
  ASSUME NEW c, InLine(c), ClockInv, BusInv, VerdictInv, NEW t \in 0 .. Tiles, NEW k \in 0 .. LastState,
         NEW f \in 1 .. 11, hcnt = Pos(t, k, f - 1),
         CountsAt(t, k, f - 1), AsksAt(t, k, f - 1), HasAt(t, k, f - 1)
  PROVE  AsksAt(t, k, f)'
<1> SUFFICES ASSUME t \in 1 .. Tiles - 1, Wants(t, k) # NoReq
             PROVE  /\ f = 1 => vid_req' = Wants(t, k)
                    /\ f \in 2 .. 6 => act' = Fetch("vid", Where(Wants(t, k)))
                    /\ f = AckPhase => vid_ack' /\ vid_rdata' = Wants(t, k)
  <2>1. Tiles' = Tiles /\ AckPhase' = AckPhase /\ Wants(t, k)' = Wants(t, k)
    BY SameLine DEF InLine
  <2>2. Where(Wants(t, k))' = Where(Wants(t, k))
    BY <2>1 DEF Where
  <2> QED BY <2>1, <2>2 DEF AsksAt
<1>1. mode \in 0 .. 2 /\ v_active /\ init /\ f - 1 \in 0 .. 11
  BY DEF InLine
<1>2. /\ tphase = f - 1 /\ fetch_win /\ ~f_first
      /\ ftst = k /\ ftile = t /\ LastState \in 2 .. 3 /\ (mode = 2 => LastState = 3)
  <2>1. t \in 0 .. Tiles /\ t < Tiles /\ t # 0
    BY VideoAssumption
  <2>2. ftst = k /\ ftile = t
    BY <2>1 DEF CountsAt
  <2>3. tphase = f - 1 /\ fetch_win /\ ~f_first
    BY <1>1, <2>1, PlaceFacts
  <2> QED BY <1>1, <2>2, <2>3, LineFacts
<1>3. AckPhase \in {5, 6} /\ (AckPhase = 6 <=> cap_late)
  BY DEF AckPhase
<1>4. ASSUME f = 1 PROVE vid_req' = Wants(t, k)
  <2>1. Fetching /\ tphase = 0
    BY <1>1, <1>2, <1>4 DEF Fetching
  <2>2. vid_req' = Request
    BY <1>1, <2>1 DEF InLine, FetchClock
  <2>3. /\ k > 0 => f_name = Wants(t, 0)
        /\ Wants(t, 0) = NameAt(row, t)
    BY DEF HasAt, Wants
  <2>4. k \in 0 .. 3
    BY <1>2
  <2>5. CASE k = 0
    BY <1>2, <2>2, <2>5 DEF Request, Wants
  <2>6. CASE k = 1
    BY <1>2, <2>2, <2>3, <2>6 DEF Request, Wants
  <2>7. CASE k = 2
    BY <1>2, <2>2, <2>3, <2>7 DEF Request, Wants
  <2>8. CASE k = 3
    BY <1>2, <2>8 DEF Wants
  <2> QED BY <2>4, <2>5, <2>6, <2>7, <2>8
<1>5. act' = IF sc = 0 THEN Wanted(c, VidAccess) ELSE act
  BY DEF InLine, SlotClock
<1>6. ASSUME f \in 2 .. 6 PROVE act' = Fetch("vid", Where(Wants(t, k)))
  <2>1. CASE f = 2
    <3>1. sc = 0 /\ ~cpu_slot
      BY <1>2, <2>1 DEF sc, cpu_slot
    <3>2. vid_req = Wants(t, k)
      BY <2>1 DEF AsksAt
    <3> QED BY <1>5, <3>1, <3>2 DEF Wanted, VidAccess
  <2>2. CASE f \in 3 .. 6
    <3>1. sc # 0 /\ f - 1 \in 2 .. 6
      BY <1>2, <2>2 DEF sc
    <3>2. act = Fetch("vid", Where(Wants(t, k)))
      BY <3>1 DEF AsksAt
    <3> QED BY <1>5, <3>1, <3>2
  <2> QED BY <1>6, <2>1, <2>2
<1>7. ASSUME f = AckPhase PROVE vid_ack' /\ vid_rdata' = Wants(t, k)
  <2>1. f - 1 \in 2 .. 6 /\ tphase \in {4, 5} /\ (tphase = 5 <=> cap_late)
    BY <1>2, <1>3, <1>7
  <2>2. act = Fetch("vid", Where(Wants(t, k)))
    BY <2>1 DEF AsksAt
  <2>3. act # NoAct /\ act.who = "vid" /\ ~act.we /\ act.adr = Where(Wants(t, k))
    BY <2>2 DEF Fetch, NoAct
  <2>4. sc = IF cap_late THEN 4 ELSE 3
    BY <2>1 DEF sc
  <2>5. vid_ack' /\ vid_rdata' = Bus
    BY <2>3, <2>4 DEF InLine, SlotClock, Captures
  <2>6. /\ sc = 3 => dq[1] = At(act.adr)
        /\ sc = 4 => dq[2] = At(act.adr)
        /\ pads \in {"on time", "late", "dead"}
    BY <2>3 DEF BusInv
  <2>7. pads # "dead" /\ (cap_late <=> pads = "late")
    BY DEF InLine, VerdictInv
  <2>8. Bus = At(act.adr)
    BY <2>4, <2>6, <2>7 DEF Bus
  <2> QED BY <1>1, <2>3, <2>5, <2>8, TableBytes
<1> QED BY <1>4, <1>6, <1>7

(* A byte is latched in its own T-state, on the clock of the answer. *)
LEMMA Latches ==
  ASSUME NEW c, InLine(c), ClockInv, AckInv, NEW t \in 1 .. Tiles - 1, NEW k \in 0 .. LastState,
         NEW j \in 0 .. 2, Wants(t, j) # NoReq,
         NEW had, NEW has, has = IF Acked(vid_ack, j) THEN vid_rdata ELSE had
  PROVE  /\ \A f \in 1 .. 11 :
              /\ hcnt = Pos(t, k, f - 1) /\ CountsAt(t, k, f - 1) /\ AsksAt(t, k, f - 1)
              /\ k > j \/ (k = j /\ f - 1 > AckPhase) => had = Wants(t, j)
              => (k > j \/ (k = j /\ f > AckPhase) => has = Wants(t, j))
         /\ k > 0 /\ hcnt = Pos(t, k - 1, 11) /\ had = Wants(t, j) => has = Wants(t, j)
<1>1. mode \in 0 .. 2 /\ v_active /\ LastState \in 2 .. 3 /\ t \in 0 .. Tiles /\ t < Tiles /\ t # 0
  BY LineFacts, VideoAssumption DEF InLine
<1>2. AckPhase \in {5, 6} /\ (vid_ack => tphase = AckPhase)
  BY DEF AckPhase, AckInv, InLine
<1>3. ASSUME NEW f \in 1 .. 11, hcnt = Pos(t, k, f - 1), CountsAt(t, k, f - 1), AsksAt(t, k, f - 1),
             k > j \/ (k = j /\ f - 1 > AckPhase) => had = Wants(t, j),
             k > j \/ (k = j /\ f > AckPhase)
      PROVE  has = Wants(t, j)
  <2>1. f - 1 \in 0 .. 11
    OBVIOUS
  <2>2. tphase = f - 1 /\ fetch_win /\ ~f_first
    BY <1>1, <1>3, <2>1, PlaceFacts
  <2>3. ftst = k
    BY <1>1, <1>3 DEF CountsAt
  <2>4. CASE k = j /\ f - 1 = AckPhase
    <3>1. vid_ack /\ vid_rdata = Wants(t, j)
      BY <1>3, <2>4 DEF AsksAt
    <3>2. Acked(vid_ack, j)
      BY <1>1, <2>2, <2>3, <2>4, <3>1 DEF Acked, Fetching
    <3> QED BY <3>1, <3>2
  <2>5. CASE ~(k = j /\ f - 1 = AckPhase)
    <3>1. had = Wants(t, j)
      BY <1>2, <1>3, <2>5
    <3>2. ~Acked(vid_ack, j)
      BY <1>2, <2>2, <2>3, <2>5 DEF Acked
    <3> QED BY <3>1, <3>2
  <2> QED BY <2>4, <2>5
<1>4. ASSUME k > 0, hcnt = Pos(t, k - 1, 11) PROVE has = had
  <2>1. k - 1 \in 0 .. LastState
    BY <1>1, <1>4
  <2>2. tphase = 11
    BY <1>1, <1>4, <2>1, PlaceFacts
  <2> QED BY <1>2, <2>2 DEF Acked
<1> QED BY <1>3, <1>4

LEMMA HasKept ==
  ASSUME NEW c, InLine(c), ClockInv, AckInv, NEW t \in 0 .. Tiles, NEW k \in 0 .. LastState
  PROVE  /\ \A f \in 1 .. 11 :
              /\ hcnt = Pos(t, k, f - 1) /\ CountsAt(t, k, f - 1) /\ AsksAt(t, k, f - 1)
              /\ HasAt(t, k, f - 1)
              => HasAt(t, k, f)'
         /\ k > 0 /\ hcnt = Pos(t, k - 1, 11) /\ HasAt(t, k - 1, 11) => HasAt(t, k, 0)'
         /\ HasAt(t, 0, 0)'
<1>1. /\ f_name' = IF Acked(vid_ack, 0) THEN vid_rdata ELSE f_name
      /\ f_pat' = IF Acked(vid_ack, 1) THEN vid_rdata ELSE f_pat
      /\ f_col' = IF Acked(vid_ack, 2) THEN vid_rdata ELSE f_col
  <2>1. init
    BY DEF InLine
  <2> QED BY <2>1 DEF InLine, FetchClock
<1>2. /\ Wants(t, 0) # NoReq /\ Wants(t, 1) # NoReq
      /\ mode = 2 => Wants(t, 2) # NoReq
  BY DEF Wants, NameAt, PatternOf, ColourOf, NoReq
<1>3. /\ mode' = mode /\ AckPhase' = AckPhase /\ Tiles' = Tiles /\ AckPhase \in {5, 6}
      /\ Wants(t, 0)' = Wants(t, 0) /\ Wants(t, 1)' = Wants(t, 1) /\ Wants(t, 2)' = Wants(t, 2)
  BY SameLine DEF InLine, AckPhase
<1>4. ASSUME NEW f \in 1 .. 11, hcnt = Pos(t, k, f - 1), CountsAt(t, k, f - 1), AsksAt(t, k, f - 1),
             HasAt(t, k, f - 1)
      PROVE  HasAt(t, k, f)'
  <2> SUFFICES ASSUME t \in 1 .. Tiles - 1
               PROVE  /\ k > 0 \/ (k = 0 /\ f > AckPhase) => f_name' = Wants(t, 0)
                      /\ k > 1 \/ (k = 1 /\ f > AckPhase) => f_pat' = Wants(t, 1)
                      /\ mode = 2 /\ (k > 2 \/ (k = 2 /\ f > AckPhase)) => f_col' = Wants(t, 2)
    BY <1>3 DEF HasAt
  <2>1. /\ k > 0 \/ (k = 0 /\ f - 1 > AckPhase) => f_name = Wants(t, 0)
        /\ k > 1 \/ (k = 1 /\ f - 1 > AckPhase) => f_pat = Wants(t, 1)
        /\ mode = 2 => (k > 2 \/ (k = 2 /\ f - 1 > AckPhase) => f_col = Wants(t, 2))
    BY <1>4 DEF HasAt
  <2>2. k > 0 \/ (k = 0 /\ f > AckPhase) => f_name' = Wants(t, 0)
    BY <1>1, <1>2, <1>4, <2>1, Latches
  <2>3. k > 1 \/ (k = 1 /\ f > AckPhase) => f_pat' = Wants(t, 1)
    BY <1>1, <1>2, <1>4, <2>1, Latches
  <2>4. ASSUME mode = 2 PROVE k > 2 \/ (k = 2 /\ f > AckPhase) => f_col' = Wants(t, 2)
    BY <1>1, <1>2, <1>4, <2>1, <2>4, Latches
  <2> QED BY <2>2, <2>3, <2>4
<1>5. ASSUME k > 0, hcnt = Pos(t, k - 1, 11), HasAt(t, k - 1, 11) PROVE HasAt(t, k, 0)'
  <2> SUFFICES ASSUME t \in 1 .. Tiles - 1
               PROVE  /\ f_name' = Wants(t, 0)
                      /\ k > 1 => f_pat' = Wants(t, 1)
                      /\ mode = 2 /\ k > 2 => f_col' = Wants(t, 2)
    BY <1>3, <1>5 DEF HasAt
  <2>1. LastState \in 2 .. 3
    BY LineFacts DEF InLine
  <2>2. /\ f_name = Wants(t, 0)
        /\ k > 1 => f_pat = Wants(t, 1)
        /\ mode = 2 /\ k > 2 => f_col = Wants(t, 2)
    BY <1>3, <1>5, <2>1 DEF HasAt
  <2>3. f_name' = Wants(t, 0)
    BY <1>1, <1>2, <1>5, <2>2, Latches
  <2>4. k > 1 => f_pat' = Wants(t, 1)
    BY <1>1, <1>2, <1>5, <2>2, Latches
  <2>5. mode = 2 /\ k > 2 => f_col' = Wants(t, 2)
    BY <1>1, <1>2, <1>5, <2>2, Latches
  <2> QED BY <2>3, <2>4, <2>5
<1>6. HasAt(t, 0, 0)'
  BY <1>3 DEF HasAt
<1> QED BY <1>4, <1>5, <1>6

(* The hand-over, at the end of the last T-state of a tile. *)
LEMMA NextKept ==
  ASSUME NEW c, InLine(c), ClockInv, NEW t \in 0 .. Tiles, NEW k \in 0 .. LastState
  PROVE  /\ \A f \in 1 .. 11 :
              /\ hcnt = Pos(t, k, f - 1) /\ CountsAt(t, k, f - 1) /\ HasAt(t, k, f - 1)
              /\ NextAt(t, k, f - 1)
              => NextAt(t, k, f)'
         /\ k > 0 /\ hcnt = Pos(t, k - 1, 11) /\ NextAt(t, k - 1, 11) => NextAt(t, k, 0)'
         /\ t > 0 /\ hcnt = Pos(t - 1, LastState, 11) /\ NextAt(t - 1, LastState, 11)
            => NextAt(t, 0, 0)'
<1>1. /\ mode \in 0 .. 2 /\ LastState \in 2 .. 3 /\ (mode = 2 => LastState = 3)
      /\ Tiles \in 1 .. 64 /\ (tile_last <=> ftst = LastState)
  BY LineFacts DEF InLine
<1>2. LastState' = LastState /\ Tiles' = Tiles /\ \A n : Shown(n)' = Shown(n)
  BY SameLine DEF InLine
<1>3. AckPhase < 10
  BY DEF AckPhase
<1>4. ASSUME NEW f \in 1 .. 11, hcnt = Pos(t, k, f - 1), CountsAt(t, k, f - 1), HasAt(t, k, f - 1),
             NextAt(t, k, f - 1)
      PROVE  NextAt(t, k, f)'
  <2>1. tphase = f - 1 /\ f - 1 \in 0 .. 10
    <3>1. f - 1 \in 0 .. 11 /\ f - 1 \in 0 .. 10
      OBVIOUS
    <3> QED BY <1>1, <1>4, <3>1, PlaceFacts
  <2>2. t >= 2 => n_tile = Shown(t - 1)
    BY <1>4, <2>1 DEF NextAt
  <2>3. CASE k = LastState /\ f = 11 /\ t < Tiles
    <3>1. SUFFICES ASSUME t >= 1 PROVE n_tile' = Shown(t)
      BY <1>2, <2>3 DEF NextAt
    <3>2. t \in 1 .. Tiles - 1 /\ ftst = LastState /\ tphase = 10
      BY <1>1, <1>4, <2>1, <2>3, <3>1 DEF CountsAt
    <3>3. n_tile' = [pat |-> f_pat, col |-> CASE mode = 1 -> ColourRam(f_name)
                                              [] mode = 2 -> f_col
                                              [] OTHER -> NoData]
      BY <1>1, <3>2 DEF InLine, HandOver
    <3>4. f_name = Wants(t, 0) /\ f_pat = Wants(t, 1) /\ (mode = 2 => f_col = Wants(t, 2))
      BY <1>1, <1>3, <1>4, <2>3, <3>2 DEF HasAt
    <3>5. /\ Wants(t, 0) = NameAt(row, t) /\ Wants(t, 1) = PatternOf(NameAt(row, t), lrow)
          /\ mode = 2 => Wants(t, 2) = ColourOf(NameAt(row, t), lrow)
      BY DEF Wants
    <3>6. mode = 0 \/ mode = 1 \/ mode = 2
      BY <1>1
    <3> QED BY <3>3, <3>4, <3>5, <3>6 DEF Shown
  <2>4. CASE ~(k = LastState /\ f = 11 /\ t < Tiles)
    <3>1. n_tile' = n_tile \/ t = 0
      <4>1. CASE t = Tiles
        <5>1. ~tile_last
          BY <1>1, <1>4, <4>1 DEF CountsAt
        <5> QED BY <5>1 DEF InLine, HandOver
      <4>2. CASE t # Tiles /\ t # 0
        <5>1. ~(tile_last /\ tphase = 10)
          BY <1>1, <1>4, <2>1, <2>4, <4>2 DEF CountsAt
        <5> QED BY <5>1 DEF InLine, HandOver
      <4> QED BY <4>1, <4>2
    <3> QED BY <1>2, <2>2, <2>4, <3>1 DEF NextAt
  <2> QED BY <2>3, <2>4
<1>5. ASSUME k > 0, hcnt = Pos(t, k - 1, 11), NextAt(t, k - 1, 11) PROVE NextAt(t, k, 0)'
  <2>1. k - 1 \in 0 .. LastState /\ k - 1 # LastState
    BY <1>1, <1>5
  <2>2. tphase = 11
    BY <1>1, <1>5, <2>1, PlaceFacts
  <2>3. n_tile' = n_tile
    BY <2>2 DEF InLine, HandOver
  <2> QED BY <1>2, <1>5, <2>1, <2>3 DEF NextAt
<1>6. ASSUME t > 0, hcnt = Pos(t - 1, LastState, 11), NextAt(t - 1, LastState, 11)
      PROVE  NextAt(t, 0, 0)'
  <2>1. t - 1 \in 0 .. Tiles /\ t - 1 < Tiles /\ LastState \in 0 .. LastState
    BY <1>1, <1>6
  <2>2. tphase = 11
    BY <1>1, <1>6, <2>1, PlaceFacts
  <2>3. n_tile' = n_tile
    BY <2>2 DEF InLine, HandOver
  <2> QED BY <1>2, <1>6, <2>1, <2>3 DEF NextAt
<1> QED BY <1>4, <1>5, <1>6

(* The display: its tile turns a slot early, its pixels are counted right. *)
LEMMA ShowsKept ==
  ASSUME NEW c, InLine(c), ClockInv, NEW t \in 0 .. Tiles, NEW k \in 0 .. LastState
  PROVE  /\ \A f \in 1 .. 11 :
              hcnt = Pos(t, k, f - 1) /\ NextAt(t, k, f - 1) /\ ShowsAt(t, k, f - 1)
              => ShowsAt(t, k, f)'
         /\ k > 0 /\ hcnt = Pos(t, k - 1, 11) /\ ShowsAt(t, k - 1, 11) => ShowsAt(t, k, 0)'
         /\ t > 0 /\ hcnt = Pos(t - 1, LastState, 11) /\ ShowsAt(t - 1, LastState, 11)
            => ShowsAt(t, 0, 0)'
<1>1. /\ mode \in 0 .. 2 /\ LastState \in 2 .. 3 /\ Tiles \in 1 .. 64
      /\ d_last <=> d_px = 2 * LastState + 1
  BY LineFacts DEF InLine
<1>2. LastState' = LastState /\ \A n : Shown(n)' = Shown(n)
  BY SameLine DEF InLine
<1>3. IF hcnt + 1 = x0 \/ (h_active /\ px6 = 5 /\ d_last)
      THEN d_tile' = n_tile /\ d_px' = 0
      ELSE IF h_active /\ px6 = 5
      THEN d_px' = (d_px + 1) % 8 /\ UNCHANGED d_tile
      ELSE UNCHANGED <<d_tile, d_px>>
  BY DEF InLine, ShowClock
<1>4. ASSUME NEW f \in 1 .. 11, hcnt = Pos(t, k, f - 1), NextAt(t, k, f - 1), ShowsAt(t, k, f - 1)
      PROVE  ShowsAt(t, k, f)'
  <2> SUFFICES ASSUME t >= 1 PROVE ShowsAt(t, k, f)'
    BY DEF ShowsAt
  <2>1. hcnt + 1 # x0 /\ h_active /\ (px6 = 5 <=> f \in {1, 7}) /\ f - 1 \in 0 .. 10
    <3>1. f - 1 \in 0 .. 11 /\ f - 1 \in 0 .. 10 /\ t # 0
      OBVIOUS
    <3>2. hcnt + 1 # x0 /\ h_active /\ (px6 = 5 <=> f - 1 \in {0, 6})
      BY <1>1, <1>4, <3>1, PlaceFacts
    <3> QED BY <3>1, <3>2
  <2>2. CASE f = 1
    <3>1. ~Turned(k, f - 1) /\ ~Turned(k, f)'
      BY <2>2 DEF Turned
    <3>2. d_px = 2 * k /\ (t - 2 >= 1 => d_tile = Shown(t - 2))
      BY <1>4, <2>2, <3>1 DEF ShowsAt
    <3>3. d_px' = 2 * k + 1 /\ d_tile' = d_tile
      BY <1>1, <1>3, <2>1, <2>2, <3>2
    <3> QED BY <1>2, <2>2, <3>1, <3>2, <3>3 DEF ShowsAt
  <2>3. CASE f = 7 /\ k = LastState
    <3>1. ~Turned(k, f - 1) /\ Turned(k, f)'
      BY <1>2, <2>3 DEF Turned
    <3>2. d_px = 2 * k + 1
      BY <1>4, <2>3, <3>1 DEF ShowsAt
    <3>3. d_px' = 0 /\ d_tile' = n_tile
      BY <1>1, <1>3, <2>1, <2>3, <3>2
    <3>4. t - 1 >= 1 => n_tile = Shown(t - 1)
      BY <1>4, <2>3 DEF NextAt
    <3> QED BY <1>2, <3>1, <3>3, <3>4 DEF ShowsAt
  <2>4. CASE f = 7 /\ k # LastState
    <3>1. ~Turned(k, f - 1) /\ ~Turned(k, f)'
      BY <1>2, <2>4 DEF Turned
    <3>2. d_px = 2 * k + 1 /\ (t - 2 >= 1 => d_tile = Shown(t - 2))
      BY <1>4, <2>4, <3>1 DEF ShowsAt
    <3>3. d_px' = 2 * k + 2 /\ d_tile' = d_tile
      BY <1>1, <1>3, <2>1, <2>4, <3>2
    <3> QED BY <1>2, <2>4, <3>1, <3>2, <3>3 DEF ShowsAt
  <2>5. CASE f \notin {1, 7}
    <3>1. d_px' = d_px /\ d_tile' = d_tile
      BY <1>3, <2>1, <2>5
    <3>2. (Turned(k, f)' <=> Turned(k, f - 1)) /\ (f - 1 <= 6 <=> f <= 6) /\ f - 1 # 0 /\ f # 0
      BY <1>2, <2>5 DEF Turned
    <3> QED BY <1>2, <1>4, <3>1, <3>2 DEF ShowsAt
  <2> QED BY <2>2, <2>3, <2>4, <2>5
<1>5. ASSUME k > 0, hcnt = Pos(t, k - 1, 11), ShowsAt(t, k - 1, 11) PROVE ShowsAt(t, k, 0)'
  <2> SUFFICES ASSUME t >= 1 PROVE ShowsAt(t, k, 0)'
    BY DEF ShowsAt
  <2>1. k - 1 \in 0 .. LastState /\ k - 1 # LastState /\ t # 0
    BY <1>1, <1>5
  <2>2. hcnt + 1 # x0 /\ px6 # 5
    BY <1>1, <1>5, <2>1, PlaceFacts
  <2>3. d_px' = d_px /\ d_tile' = d_tile
    BY <1>3, <2>2
  <2>4. ~Turned(k - 1, 11) /\ ~Turned(k, 0)'
    BY <2>1 DEF Turned
  <2>5. d_px = 2 * (k - 1) + 2 /\ (t - 2 >= 1 => d_tile = Shown(t - 2))
    BY <1>5, <2>4 DEF ShowsAt
  <2> QED BY <1>1, <1>2, <2>3, <2>4, <2>5 DEF ShowsAt
<1>6. ASSUME t > 0, hcnt = Pos(t - 1, LastState, 11), ShowsAt(t - 1, LastState, 11)
      PROVE  ShowsAt(t, 0, 0)'
  <2>1. t - 1 \in 0 .. Tiles /\ LastState \in 0 .. LastState
    BY <1>1, <1>6
  <2>2. (hcnt + 1 = x0 <=> t - 1 = 0) /\ (t - 1 >= 1 => px6 # 5)
    BY <1>1, <1>6, <2>1, PlaceFacts
  <2>3. ~Turned(0, 0)'
    BY DEF Turned
  <2>4. CASE t = 1
    <3>1. d_px' = 0
      BY <1>3, <2>2, <2>4
    <3> QED BY <2>3, <2>4, <3>1 DEF ShowsAt
  <2>5. CASE t # 1
    <3>1. d_px' = d_px /\ d_tile' = d_tile
      BY <1>3, <1>6, <2>2, <2>5
    <3>2. Turned(LastState, 11) /\ t - 1 >= 1
      BY <1>6, <2>5 DEF Turned
    <3>3. d_px = 0 /\ (t - 1 - 1 >= 1 => d_tile = Shown(t - 1 - 1))
      BY <1>6, <3>2 DEF ShowsAt
    <3>4. t - 1 - 1 = t - 2
      OBVIOUS
    <3> QED BY <1>2, <2>3, <3>1, <3>3, <3>4 DEF ShowsAt
  <2> QED BY <2>4, <2>5
<1> QED BY <1>4, <1>5, <1>6

LEMMA StageKept ==
  ASSUME NEW c, InLine(c), ClockInv, AckInv, BusInv, VerdictInv, Raster, LineInv, Lined,
         NEW t \in 0 .. Tiles, NEW k \in 0 .. LastState, NEW f \in 0 .. 11, hcnt' = Pos(t, k, f)
  PROVE  Stage(t, k, f)'
<1>1. mode \in 0 .. 2 /\ LastState \in 2 .. 3
  BY LineFacts DEF InLine
<1>2. CASE f > 0
  <2>1. f \in 1 .. 11 /\ f - 1 \in 0 .. 11 /\ hcnt = Pos(t, k, f - 1)
    BY <1>1, <1>2, Before
  <2>2. Stage(t, k, f - 1)
    BY <2>1 DEF LineInv
  <2> QED BY <2>1, <2>2, CountsKept, AsksKept, HasKept, NextKept, ShowsKept DEF Stage
<1>3. CASE f = 0 /\ k > 0
  <2>1. k - 1 \in 0 .. LastState /\ hcnt = Pos(t, k - 1, 11)
    BY <1>1, <1>3, Before
  <2>2. Stage(t, k - 1, 11)
    BY <2>1 DEF LineInv
  <2>3. AsksAt(t, k, 0)'
    BY DEF AsksAt, AckPhase
  <2> QED BY <1>3, <2>1, <2>2, <2>3, CountsKept, HasKept, NextKept, ShowsKept DEF Stage
<1>4. CASE f = 0 /\ k = 0 /\ t > 0
  <2>1. t - 1 \in 0 .. Tiles /\ LastState \in 0 .. LastState /\ hcnt = Pos(t - 1, LastState, 11)
    <3>1. t - 1 \in 0 .. Tiles /\ LastState \in 0 .. LastState
      BY <1>1, <1>4, VideoAssumption
    <3>2. hcnt = Pos(t - 1, LastState, 11)
      BY <1>1, <1>4, Before
    <3> QED BY <3>1, <3>2
  <2>2. Stage(t - 1, LastState, 11)
    BY <2>1 DEF LineInv
  <2>3. AsksAt(t, 0, 0)'
    BY DEF AsksAt, AckPhase
  <2>4. 0 \in 0 .. LastState
    BY <1>1
  <2> QED BY <1>4, <2>1, <2>2, <2>3, <2>4, CountsKept, HasKept, NextKept, ShowsKept DEF Stage
<1>5. CASE f = 0 /\ k = 0 /\ t = 0
  <2>1. 0 # Tiles
    BY VideoAssumption
  <2> QED BY <1>5, <2>1 DEF Stage, CountsAt, AsksAt, HasAt, NextAt, ShowsAt, AckPhase
<1> QED BY <1>2, <1>3, <1>4, <1>5

(* The clocks of the line, of the T-state and of the pixel go together. *)
LEMMA ClockKept ==
  ASSUME ClockInv, NEW m \in 0 .. 3, mode' = m, Raster, SlotCount, tphase' = (tphase + 1) % 12
  PROVE  ClockInv'
<1>1. hcnt \in 0 .. HTotal - 1 /\ HTotal \in Nat /\ HTotal % 12 = 0 /\ hcnt' = (hcnt + 1) % HTotal
  BY VideoAssumption DEF ClockInv, Raster
<1>2. vcnt' \in Nat
  BY VideoAssumption DEF ClockInv, Raster
<1>3. CASE hcnt = HTotal - 1
  <2>1. hcnt' = 0 /\ tphase' = 0
    <3>1. hcnt' = 0
      BY <1>1, <1>3
    <3>2. PICK n \in Nat : HTotal = 12 * n
      <4>1. HTotal = 12 * (HTotal \div 12) /\ HTotal \div 12 \in Nat
        BY <1>1
      <4> QED BY <4>1
    <3>3. tphase = (12 * n - 1) % 12
      BY <1>3, <3>2 DEF ClockInv
    <3> QED BY <3>1, <3>3
  <2> QED BY <1>1, <1>2, <2>1 DEF ClockInv
<1>4. CASE hcnt # HTotal - 1
  <2>1. hcnt' = hcnt + 1 /\ hcnt' \in 0 .. HTotal - 1
    BY <1>1, <1>4
  <2>2. tphase' = hcnt' % 12
    BY <1>1, <2>1 DEF ClockInv
  <2>3. px6' = hcnt % 6
    <3>1. CASE hcnt = 0
      BY <3>1 DEF SlotCount
    <3>2. CASE hcnt # 0
      BY <1>1, <3>2 DEF SlotCount, ClockInv
    <3> QED BY <3>1, <3>2
  <2> QED BY <1>1, <1>2, <2>1, <2>2, <2>3 DEF ClockInv
<1> QED BY <1>3, <1>4

(* With the self-test over the memory runs, and its verdict stays. *)
LEMMA AfterTest ==
  ASSUME VerdictInv, PortInv, RowInv, NEW c, NEW v, MemClock(c, v)
  PROVE  /\ pads' = pads
         /\ bist.done => RunClock(c, v) /\ init /\ bist' = bist /\ cap_late' = cap_late
         /\ ~bist.done /\ bist'.done => RunClock(c, v) /\ tphase = 1
<1>1. pads' = pads
  BY DEF MemClock, ChipClock
<1>2. ASSUME bist.done PROVE RunClock(c, v) /\ init /\ bist' = bist /\ cap_late' = cap_late
  <2>1. init /\ ~bist.run
    BY <1>2 DEF VerdictInv, PortInv
  <2>2. RunClock(c, v)
    BY <2>1 DEF MemClock, SettleClock, InitClock, init
  <2> QED BY <1>2, <2>1, <2>2 DEF RunClock, BistClock
<1>3. ASSUME ~bist.done, bist'.done PROVE RunClock(c, v) /\ tphase = 1
  <2>1. bist' # bist
    BY <1>3
  <2>2. RunClock(c, v)
    BY <2>1 DEF MemClock, SettleClock, InitClock
  <2> QED BY <2>1, <2>2 DEF RunClock, BistClock
<1> QED BY <1>1, <1>2, <1>3

(* The video is told of its own bytes alone, and on one phase. *)
LEMMA AckKept ==
  ASSUME RowInv, VerdictInv, PortInv, NEW c, NEW v, MemClock(c, v)
  PROVE  AckInv'
<1> SUFFICES ASSUME bist'.done, vid_ack' PROVE tphase' = AckPhase'
  BY DEF AckInv
<1>1. RunClock(c, v)
  BY AfterTest
<1>2. Captures("vid") /\ tphase \in 0 .. 11 /\ tphase' = (tphase + 1) % 12
  BY <1>1 DEF RunClock, SlotClock, MemClock, RowInv
<1>3. bist.done
  <2>1. tphase = 1 => sc = 0
    BY DEF sc
  <2> QED BY <1>2, <2>1, AfterTest DEF Captures
<1>4. act # NoAct /\ act.who = "vid" /\ sc = IF cap_late THEN 4 ELSE 3
  BY <1>2 DEF Captures
<1>5. tphase \notin {8, 9, 10, 11, 0}
  BY <1>3, <1>4 DEF PortInv
<1>6. tphase = IF cap_late THEN 5 ELSE 4
  BY <1>2, <1>4, <1>5 DEF sc
<1>7. cap_late' = cap_late
  BY <1>3, AfterTest
<1> QED BY <1>2, <1>6, <1>7 DEF AckPhase

LEMMA LineKept ==
  ASSUME MemoryInv, ClockInv, AckInv, LineInv, NEW c, NEW m, Clock(c, m)
  PROVE  LineInv'
<1>1. /\ MemClock(c, VidAccess) /\ VidClock(~init, tphase, vid_ack, vid_rdata)
      /\ steady' = (bist.done /\ m = mode /\ (steady \/ hcnt = HTotal - 1)) /\ mode' = m
  BY DEF Clock
<1>2. /\ pads' = pads
      /\ bist.done => RunClock(c, VidAccess) /\ init /\ bist' = bist /\ cap_late' = cap_late
  BY <1>1, AfterTest DEF MemoryInv
<1>3. steady' => bist'.done
  BY <1>1, <1>2
<1>4. ASSUME Lined', NEW t \in 0 .. Tiles, NEW k \in (0 .. LastState)', NEW f \in 0 .. 11,
             hcnt' = Pos(t, k, f)'
      PROVE  Stage(t, k, f)'
  <2>1. bist.done /\ mode' = mode /\ (steady \/ hcnt = HTotal - 1) /\ mode \in 0 .. 2
    <3>1. steady' /\ mode' # 3
      BY <1>4 DEF Lined
    <3>2. bist.done /\ m = mode /\ (steady \/ hcnt = HTotal - 1)
      BY <1>1, <3>1
    <3>3. mode \in 0 .. 3 /\ mode # 3
      BY <1>1, <3>1, <3>2 DEF ClockInv
    <3> QED BY <1>1, <3>2, <3>3
  <2>2. LastState' = LastState /\ Pos(t, k, f)' = Pos(t, k, f)
    BY <2>1 DEF LastState, Pos, x0, w6, wide
  <2>3. k \in 0 .. LastState /\ Raster /\ hcnt' = Pos(t, k, f)
    BY <1>1, <1>4, <2>2 DEF VidClock
  <2>4. CASE t = 0 /\ k = 0 /\ f = 0
    <3>1. 0 # Tiles /\ LastState # 0
      BY <2>1, LineFacts
    <3> QED BY <2>2, <2>4, <3>1 DEF Stage, CountsAt, AsksAt, HasAt, NextAt, ShowsAt, AckPhase
  <2>5. CASE ~(t = 0 /\ k = 0 /\ f = 0)
    <3>1. hcnt # HTotal - 1 /\ vcnt' = vcnt
      BY <2>1, <2>3, <2>5, Before
    <3>2. v_active /\ Lined
      BY <1>2, <1>4, <2>1, <3>1 DEF Lined, v_active
    <3>3. InLine(c)
      BY <1>1, <1>2, <2>1, <3>1, <3>2 DEF InLine, Lined, VidClock, RunClock
    <3> QED BY <2>3, <3>2, <3>3, StageKept DEF MemoryInv
  <2> QED BY <2>4, <2>5
<1> QED BY <1>3, <1>4 DEF LineInv

PictureInv == MemoryInv /\ ClockInv /\ AckInv /\ LineInv

LEMMA PictureInvHolds == Spec => []PictureInv
<1>1. Init => ClockInv /\ AckInv /\ LineInv
  <2> SUFFICES ASSUME Init PROVE ClockInv /\ AckInv /\ LineInv
    OBVIOUS
  <2>1. /\ hcnt = 0 /\ vcnt = 0 /\ mode = 1 /\ tphase = 0 /\ vid_ack = FALSE /\ steady = FALSE
    BY DEF Init, MemInit, VidInit
  <2>2. HTotal - 1 \in Nat
    BY VideoAssumption
  <2> QED BY <2>1, <2>2 DEF ClockInv, AckInv, LineInv, Lined
<1>2. MemoryInv /\ ClockInv /\ AckInv /\ LineInv /\ [Next]_vars => ClockInv' /\ AckInv' /\ LineInv'
  <2> SUFFICES ASSUME MemoryInv, ClockInv, AckInv, LineInv, [Next]_vars
               PROVE  ClockInv' /\ AckInv' /\ LineInv'
    OBVIOUS
  <2>1. CASE Next
    <3>0. PICK m \in 0 .. 3 : \E c : Clock(c, m)
      <4>1. mode \in 0 .. 3 /\ Modes \subseteq 0 .. 3
        BY ScreenAssumption DEF ClockInv
      <4>2. CASE NoCycle
        BY <4>1, <4>2 DEF NoCycle
      <4>3. CASE MemCycle
        BY <4>1, <4>3 DEF MemCycle
      <4>4. CASE ModeCycle
        BY <4>1, <4>4 DEF ModeCycle
      <4> QED BY <2>1, <4>2, <4>3, <4>4 DEF Next
    <3>1. PICK c : Clock(c, m)
      BY <3>0
    <3>2. /\ MemClock(c, VidAccess) /\ VidClock(~init, tphase, vid_ack, vid_rdata) /\ mode' = m
          /\ tphase' = (tphase + 1) % 12
      BY <3>1 DEF Clock, MemClock
    <3>3. ClockInv'
      BY <3>2, ClockKept DEF VidClock
    <3>4. AckInv'
      BY <3>2, AckKept DEF MemoryInv
    <3>5. LineInv'
      BY <3>1, LineKept
    <3> QED BY <3>3, <3>4, <3>5
  <2>2. CASE UNCHANGED vars
    <3>1. /\ UNCHANGED <<tphase, bist, cap_late, act, vid_rdata, vid_ack, pads, steady>>
          /\ UNCHANGED <<hcnt, vcnt, mode, ftst, ftile, f_name, f_pat, f_col, vid_req,
                         n_tile, d_tile, d_px, px6>>
      BY <2>2 DEF vars, memVars, vidVars
    <3>2. ClockInv' /\ AckInv'
      BY <3>1 DEF ClockInv, AckInv, AckPhase
    <3>3. LineInv'
      <4>1. /\ LastState' = LastState /\ AckPhase' = AckPhase /\ v_active' = v_active
            /\ \A t, k : Wants(t, k)' = Wants(t, k)
            /\ \A n : Shown(n)' = Shown(n)
            /\ \A t, k, f : Pos(t, k, f)' = Pos(t, k, f)
        BY <3>1, SameLine
      <4>2. \A t, k, f : Stage(t, k, f)' = Stage(t, k, f)
        BY <3>1, <4>1 DEF Stage, CountsAt, AsksAt, HasAt, NextAt, ShowsAt, Turned, Where
      <4> QED BY <3>1, <4>1, <4>2 DEF LineInv, Lined
    <3> QED BY <3>2, <3>3
  <2> QED BY <2>1, <2>2
<1> QED BY <1>1, <1>2, MemoryInvHolds, PTL DEF Spec, PictureInv

(* A place of the display is a place of the line. *)
LEMMA PlaceOf ==
  ASSUME mode \in 0 .. 2, ClockInv, h_active
  PROVE  \E t \in 1 .. Tiles, k \in 0 .. LastState, f \in 0 .. 11 :
           /\ hcnt = Pos(t, k, f)
           /\ column = t - 1
           /\ pixel = 2 * k + (IF f >= 6 THEN 1 ELSE 0)
<1>1. /\ x0 \in Nat /\ Tiles \in 1 .. 64 /\ LastState \in 2 .. 3 /\ w6 = 12 * (LastState + 1)
      /\ hcnt \in Nat /\ hcnt >= x0 /\ hcnt < x0 + Tiles * w6
  BY VideoAssumption DEF x0, w6, LastState, ClockInv, h_active, x1
<1> DEFINE o == hcnt - x0
           k == (o % w6) \div 12
           f == o % 12
<1>2. o \in Nat /\ o < Tiles * w6
  BY <1>1
<1>3. CASE LastState = 2
  <2>1. w6 = 36
    BY <1>1, <1>3
  <2>2. column \in 0 .. Tiles - 1 /\ o = 36 * column + (o % 36) /\ o % 36 \in 0 .. 35
    <3>1. column = o \div 36
      BY <2>1 DEF column
    <3> HIDE DEF o
    <3>2. o = 36 * (o \div 36) + (o % 36) /\ o % 36 \in 0 .. 35 /\ o \div 36 \in Nat
      BY <1>2
    <3>3. o \div 36 < Tiles
      BY <1>1, <1>2, <2>1, <3>2
    <3> QED BY <1>1, <3>1, <3>2, <3>3
  <2>3. o % 36 = 12 * k + f /\ k \in 0 .. 2 /\ f \in 0 .. 11
    BY <1>2, <2>1
  <2>4. pixel = 2 * k + (IF f >= 6 THEN 1 ELSE 0)
    BY <2>1, <2>2, <2>3 DEF pixel
  <2>5. hcnt = Pos(column + 1, k, f)
    <3>1. Pos(column + 1, k, f) = x0 - w6 + (column + 1) * w6 + 12 * k + f
      BY DEF Pos
    <3> HIDE DEF k, f
    <3>2. hcnt = x0 + o
      BY <1>1
    <3> HIDE DEF o
    <3> QED BY <1>1, <1>2, <2>1, <2>2, <2>3, <3>1, <3>2
  <2>6. column + 1 \in 1 .. Tiles /\ column = column + 1 - 1
    BY <1>1, <2>2
  <2> QED BY <1>3, <2>3, <2>4, <2>5, <2>6
<1>4. CASE LastState = 3
  <2>1. w6 = 48
    BY <1>1, <1>4
  <2>2. column \in 0 .. Tiles - 1 /\ o = 48 * column + (o % 48) /\ o % 48 \in 0 .. 47
    <3>1. column = o \div 48
      BY <2>1 DEF column
    <3> HIDE DEF o
    <3>2. o = 48 * (o \div 48) + (o % 48) /\ o % 48 \in 0 .. 47 /\ o \div 48 \in Nat
      BY <1>2
    <3>3. o \div 48 < Tiles
      BY <1>1, <1>2, <2>1, <3>2
    <3> QED BY <1>1, <3>1, <3>2, <3>3
  <2>3. o % 48 = 12 * k + f /\ k \in 0 .. 3 /\ f \in 0 .. 11
    BY <1>2, <2>1
  <2>4. pixel = 2 * k + (IF f >= 6 THEN 1 ELSE 0)
    BY <2>1, <2>2, <2>3 DEF pixel
  <2>5. hcnt = Pos(column + 1, k, f)
    <3>1. Pos(column + 1, k, f) = x0 - w6 + (column + 1) * w6 + 12 * k + f
      BY DEF Pos
    <3> HIDE DEF k, f
    <3>2. hcnt = x0 + o
      BY <1>1
    <3> HIDE DEF o
    <3> QED BY <1>1, <1>2, <2>1, <2>2, <2>3, <3>1, <3>2
  <2>6. column + 1 \in 1 .. Tiles /\ column = column + 1 - 1
    BY <1>1, <2>2
  <2> QED BY <1>4, <2>3, <2>4, <2>5, <2>6
<1> QED BY <1>1, <1>3, <1>4

LEMMA PictureGivesOrder == ASSUME PictureInv PROVE PixelsInOrder
<1> SUFFICES ASSUME Picture PROVE d_px = pixel /\ (column >= 2 => d_tile = Shown(column - 1))
  BY DEF PixelsInOrder
<1>1. /\ v_active /\ h_active /\ mode \in 0 .. 2 /\ px6 = 5 /\ steady /\ pads # "dead"
      /\ ClockInv
  BY DEF Picture, Draws, PictureInv, ClockInv, LineInv, MemoryInv, VerdictInv
<1>2. PICK t \in 1 .. Tiles, k \in 0 .. LastState, f \in 0 .. 11 :
        /\ hcnt = Pos(t, k, f) /\ column = t - 1 /\ pixel = 2 * k + (IF f >= 6 THEN 1 ELSE 0)
  BY <1>1, PlaceOf
<1>3. Stage(t, k, f) /\ t \in 0 .. Tiles /\ t >= 1
  BY <1>1, <1>2 DEF PictureInv, LineInv, Lined
<1>4. f \in {0, 6}
  BY <1>1, <1>2, <1>3, PhaseAt
<1>5. ~Turned(k, f)
  BY <1>4 DEF Turned
<1>6. d_px = 2 * k + (IF f = 0 THEN 0 ELSE 1) /\ (t - 2 >= 1 => d_tile = Shown(t - 2))
  BY <1>3, <1>4, <1>5 DEF Stage, ShowsAt
<1>7. column - 1 = t - 2 /\ (column >= 2 => t - 2 >= 1)
  BY <1>2
<1> QED BY <1>2, <1>4, <1>6, <1>7

(* video.v:115-136, 179-245: in a line whose mode does not change every    *)
(* pixel drawn is the one of its place, of a whole tile, and from the      *)
(* third column on that is the tile before the column's own, in any        *)
(* geometry of the line, and whatever the CPU asks of the memory meanwhile.*)
THEOREM PixelsInOrderHolds == Spec => []PixelsInOrder
BY PictureInvHolds, PictureGivesOrder, PTL

-----------------------------------------------------------------------------
(* The refresh.  A T-state leaves its slot free outside the fetch, where   *)
(* the fetch begins, and where the mode asks for no byte; a refresh that   *)
(* is due has waited since the last of those, and after a change of the    *)
(* mode at most as long again.                                             *)
FreeSlot ==
  \/ ~(v_active /\ mode # 3 /\ fetch_win) \/ hcnt - tphase = x0 - w6
  \/ ftst = 3 \/ (ftst = 2 /\ mode # 2)

(* The clocks since the last free slot, at most, and those from a change   *)
(* of the mode to the first free slot after it.                            *)
Waited == IF ~FreeSlot THEN 12 * ftst + tphase + 10
          ELSE IF tphase >= 2 THEN tphase - 2 ELSE tphase + 46
NoneYet == IF ~FreeSlot THEN 12 * ftst + tphase + 5
           ELSE IF tphase >= 2 THEN tphase - 7 ELSE tphase + 41

RefreshInv ==
  /\ ref_due \in 0 .. 1 /\ ref_cnt \in 0 .. RefPeriod - 1 /\ since \in 1 .. ModeGap
  /\ ~init => ref_due = 0
  /\ tphase = 1 /\ FreeSlot => vid_req = NoReq
  /\ ref_due = 1 => \/ ref_cnt <= Waited
                    \/ since <= NoneYet /\ ref_cnt <= since + 41

LEMMA Dozens == \A n \in 0 .. 3 : 12 * n \in Nat
OBVIOUS

LEMMA WaitValues ==
  /\ ~FreeSlot => Waited = 12 * ftst + tphase + 10 /\ NoneYet = 12 * ftst + tphase + 5
  /\ FreeSlot /\ tphase >= 2 => Waited = tphase - 2 /\ NoneYet = tphase - 7
  /\ FreeSlot /\ ~(tphase >= 2) => Waited = tphase + 46 /\ NoneYet = tphase + 41
BY DEF Waited, NoneYet

LEMMA WaitBounds ==
  ASSUME tphase \in 0 .. 11, ftst \in 0 .. 3
  PROVE  /\ Waited \in 0 .. 47 /\ (tphase = 7 => Waited <= 41)
         /\ NoneYet <= 42 /\ NoneYet \in Int /\ (tphase = 8 => NoneYet >= 1)
<1>1. ~FreeSlot => ftst \in 0 .. 2
  BY DEF FreeSlot
<1> QED BY <1>1 DEF Waited, NoneYet

LEMMA DueInTime ==
  ASSUME RefreshInv, tphase \in 0 .. 11, ftst \in 0 .. 3, ref_due = 1
  PROVE  ref_cnt < RefPeriod - 1
<1>1. RefPeriod \in Nat /\ RefPeriod >= 85
  BY SdramAssumption, ScreenAssumption
<1>2. ref_cnt \in Nat /\ since \in Nat /\ Waited <= 47 /\ Waited \in Nat /\ NoneYet <= 42 /\ NoneYet \in Int
  BY <1>1, WaitBounds DEF RefreshInv
<1> QED BY <1>1, <1>2 DEF RefreshInv

(* Within a T-state neither the line nor the window changes. *)
LEMMA SameTState ==
  ASSUME ClockInv, mode' = mode, Raster, tphase # 11
  PROVE  /\ vcnt' = vcnt /\ hcnt' = hcnt + 1 /\ hcnt \in Nat
         /\ fetch_win' = fetch_win /\ x0' = x0 /\ w6' = w6
         /\ f_first <=> tphase = 0 /\ hcnt - tphase = x0 - w6
         /\ hcnt - tphase = x0 - w6 /\ tphase' = tphase + 1 => hcnt' - tphase' = (x0 - w6)'
         /\ hcnt - tphase # x0 - w6 /\ tphase' = tphase + 1 => hcnt' - tphase' # (x0 - w6)'
<1>1. hcnt \in 0 .. HTotal - 1 /\ HTotal \in Nat /\ HTotal % 12 = 0 /\ tphase = hcnt % 12
  BY VideoAssumption DEF ClockInv
<1>2. hcnt # HTotal - 1
  <2>1. PICK n \in Nat : HTotal = 12 * n
    <3>1. HTotal = 12 * (HTotal \div 12) /\ HTotal \div 12 \in Nat
      BY <1>1
    <3> QED BY <3>1
  <2> QED BY <1>1, <2>1
<1>3. hcnt' = hcnt + 1 /\ vcnt' = vcnt /\ hcnt \in Nat
  BY <1>1, <1>2 DEF Raster
<1>4. x0' = x0 /\ w6' = w6 /\ x1' = x1
  BY DEF x0, w6, x1, wide
<1>5. PICK a \in Nat, b \in Nat : x0 - w6 = 12 * a /\ x1 - w6 = 12 * b
  <2>1. /\ X0Wide \in Nat /\ X0Wide % 12 = 0 /\ X0Wide >= 36
        /\ X0Narrow \in Nat /\ X0Narrow % 12 = 0 /\ X0Narrow >= 48 /\ Tiles \in 1 .. 64
    BY VideoAssumption
  <2>2. CASE wide
    <3>1. x0 = X0Wide /\ w6 = 36 /\ x1 = X0Wide + Tiles * 36
      BY <2>2 DEF x0, w6, x1
    <3>2. X0Wide = 12 * (X0Wide \div 12) /\ X0Wide \div 12 \in Nat
      BY <2>1
    <3>3. /\ X0Wide \div 12 - 3 \in Nat /\ X0Wide \div 12 - 3 + 3 * Tiles \in Nat
          /\ x0 - w6 = 12 * (X0Wide \div 12 - 3) /\ x1 - w6 = 12 * (X0Wide \div 12 - 3 + 3 * Tiles)
      BY <2>1, <3>1, <3>2
    <3> QED BY <3>3
  <2>3. CASE ~wide
    <3>1. x0 = X0Narrow /\ w6 = 48 /\ x1 = X0Narrow + Tiles * 48
      BY <2>3 DEF x0, w6, x1
    <3>2. X0Narrow = 12 * (X0Narrow \div 12) /\ X0Narrow \div 12 \in Nat
      BY <2>1
    <3>3. /\ X0Narrow \div 12 - 4 \in Nat /\ X0Narrow \div 12 - 4 + 4 * Tiles \in Nat
          /\ x0 - w6 = 12 * (X0Narrow \div 12 - 4) /\ x1 - w6 = 12 * (X0Narrow \div 12 - 4 + 4 * Tiles)
      BY <2>1, <3>1, <3>2
    <3> QED BY <3>3
  <2> QED BY <2>2, <2>3
<1>6. PICK q \in Nat : hcnt = 12 * q + tphase /\ tphase \in 0 .. 10
  <2>1. hcnt = 12 * (hcnt \div 12) + tphase /\ hcnt \div 12 \in Nat /\ tphase \in 0 .. 11
    BY <1>1, <1>3
  <2> QED BY <2>1
<1>7. fetch_win' = fetch_win
  BY <1>3, <1>4, <1>5, <1>6 DEF fetch_win
<1>8. f_first <=> tphase = 0 /\ hcnt - tphase = x0 - w6
  BY <1>5, <1>6 DEF f_first
<1> QED BY <1>3, <1>4, <1>5, <1>6, <1>7, <1>8

(* The slot of a T-state stays free, or taken. *)
LEMMA SlotStays ==
  ASSUME ClockInv, VidReqInv, VidReqInv', mode' = mode, Raster, tphase # 11, tphase' = (tphase + 1) % 12,
         init, FetchClock(~init, tphase, vid_ack, vid_rdata)
  PROVE  /\ FreeSlot' <=> FreeSlot
         /\ ~FreeSlot => ftst' = ftst
<1>1. tphase \in 0 .. 10 /\ tphase' = tphase + 1
  <2>1. tphase \in 0 .. 11
    BY DEF ClockInv
  <2> QED BY <2>1
<1>2. /\ vcnt' = vcnt /\ fetch_win' = fetch_win /\ v_active' = v_active
      /\ hcnt' - tphase' = (x0 - w6)' <=> hcnt - tphase = x0 - w6
      /\ f_first <=> tphase = 0 /\ hcnt - tphase = x0 - w6
  BY <1>1, SameTState DEF v_active
<1>3. IF ~v_active \/ mode = 3 \/ f_first THEN ftst' = 0 ELSE ftst' = ftst
  BY <1>1 DEF FetchClock
<1> QED BY <1>2, <1>3 DEF FreeSlot

(* A clock in an unchanged mode is counted; a free slot is taken.          *)
LEMMA WaitGoesOn ==
  ASSUME ClockInv, VidReqInv, VidReqInv', mode' = mode, Raster, tphase' = (tphase + 1) % 12,
         init, FetchClock(~init, tphase, vid_ack, vid_rdata), ~(tphase = 1 /\ FreeSlot)
  PROVE  Waited' >= Waited + 1 /\ NoneYet' >= NoneYet + 1
<1>1. tphase \in 0 .. 11 /\ ftst \in 0 .. 3 /\ ftst' \in 0 .. 3
  BY DEF ClockInv, VidReqInv
<1>2. CASE tphase # 11
  <2>1. tphase' = tphase + 1
    BY <1>1, <1>2
  <2>2. (FreeSlot' <=> FreeSlot) /\ (~FreeSlot => ftst' = ftst)
    BY <1>2, SlotStays
  <2>3. CASE ~FreeSlot
    <3>1. Waited' = 12 * ftst' + tphase' + 10 /\ NoneYet' = 12 * ftst' + tphase' + 5
      BY <2>2, <2>3 DEF Waited, NoneYet
    <3> QED BY <1>1, <2>1, <2>2, <2>3, <3>1, WaitValues
  <2>4. CASE FreeSlot
    <3>1. /\ tphase' >= 2 => Waited' = tphase' - 2 /\ NoneYet' = tphase' - 7
          /\ ~(tphase' >= 2) => Waited' = tphase' + 46 /\ NoneYet' = tphase' + 41
      BY <2>2, <2>4 DEF Waited, NoneYet
    <3> QED BY <1>1, <1>2, <2>1, <2>4, <3>1, WaitValues
  <2> QED BY <2>3, <2>4
<1>3. CASE tphase = 11
  <2>1. tphase' = 0
    BY <1>3
  <2>2. CASE FreeSlot
    <3>1. Waited' >= 10 /\ NoneYet' >= 5
      <4>1. CASE FreeSlot'
        BY <2>1, <4>1 DEF Waited, NoneYet
      <4>2. CASE ~FreeSlot'
        <5>1. Waited' = 12 * ftst' + tphase' + 10 /\ NoneYet' = 12 * ftst' + tphase' + 5
          BY <4>2 DEF Waited, NoneYet
        <5>2. 12 * ftst' \in Nat
          BY <1>1, Dozens
        <5> QED BY <2>1, <5>1, <5>2
      <4> QED BY <4>1, <4>2
    <3> QED BY <1>3, <2>2, <3>1, WaitValues
  <2>3. CASE ~FreeSlot
    <3>1. /\ v_active /\ mode # 3 /\ fetch_win /\ ~f_first /\ ftst \in 0 .. 2 /\ (ftst = 2 => mode = 2)
      <4>1. f_first => tphase = 0
        BY VideoAssumption DEF f_first, ClockInv, x0, w6
      <4> QED BY <1>1, <1>3, <2>3, <4>1 DEF FreeSlot
    <3>2. ftst' = ftst + 1
      <4>1. ~tile_last
        BY <3>1 DEF tile_last, wide
      <4>2. ftst' = (ftst + 1) % 4
        BY <1>3, <3>1, <4>1 DEF FetchClock
      <4> QED BY <3>1, <4>2
    <3> QED BY <1>1, <1>3, <2>1, <2>3, <3>1, <3>2 DEF Waited, NoneYet
  <2> QED BY <2>2, <2>3
<1> QED BY <1>2, <1>3

(* The request is up in phase 1, and not in a slot that stays free. *)
LEMMA FreeAsksNothing ==
  ASSUME ClockInv, VidReqInv, VidReqInv', mode' = mode, Raster, tphase = 0, tphase' = (tphase + 1) % 12,
         init, FetchClock(~init, tphase, vid_ack, vid_rdata), FreeSlot'
  PROVE  vid_req' = NoReq
<1>1. FreeSlot /\ (f_first <=> hcnt - tphase = x0 - w6)
  BY SlotStays, SameTState
<1>2. CASE ~Fetching
  BY <1>2 DEF FetchClock
<1>3. CASE Fetching
  <2>1. ftst = 3 \/ (ftst = 2 /\ mode # 2)
    BY <1>1, <1>3 DEF FreeSlot, Fetching
  <2>2. Request = NoReq
    BY <2>1 DEF Request
  <2> QED BY <2>2 DEF FetchClock
<1> QED BY <1>2, <1>3

LEMMA RefreshStep ==
  ASSUME RefreshInv, RowInv, VidReqInv, VidReqInv', VerdictInv, PortInv, ClockInv, NEW c, NEW m,
         Clock(c, m), m # mode => Runs /\ since = ModeGap
  PROVE  RefreshInv'
<1>1. /\ MemClock(c, VidAccess) /\ VidClock(~init, tphase, vid_ack, vid_rdata) /\ mode' = m
      /\ since' = IF m # mode THEN 1 ELSE IF since < ModeGap THEN since + 1 ELSE since
  BY DEF Clock
<1>2. /\ FetchClock(~init, tphase, vid_ack, vid_rdata) /\ Raster
      /\ tphase' = (tphase + 1) % 12 /\ tphase \in 0 .. 11 /\ ftst \in 0 .. 3 /\ ftst' \in 0 .. 3
      /\ tphase' \in 0 .. 11
  BY <1>1 DEF VidClock, MemClock, ClockInv, VidReqInv
<1>3. /\ RefPeriod \in Nat /\ RefPeriod >= 85 /\ ModeGap \in Nat /\ ModeGap >= 48
      /\ ref_cnt \in 0 .. RefPeriod - 1 /\ ref_due \in 0 .. 1 /\ since \in 1 .. ModeGap
  BY SdramAssumption, ScreenAssumption DEF RefreshInv
<1>4. since' \in 1 .. ModeGap
  BY <1>1, <1>3
<1>5. CASE SettleClock \/ InitClock
  <2>1. ~init /\ UNCHANGED <<ref_due, ref_cnt>>
    BY <1>5 DEF SettleClock, InitClock, init
  <2>2. vid_req' = NoReq
    BY <1>2, <2>1 DEF FetchClock
  <2> QED BY <1>3, <1>4, <2>1, <2>2 DEF RefreshInv
<1>6. CASE RunClock(c, VidAccess)
  <2>1. init /\ init' /\ RefreshClock(VidAccess)
    BY <1>6 DEF RunClock, init
  <2>2. /\ ref_cnt' = (ref_cnt + 1) % RefPeriod
        /\ ref_due' = CASE Refreshes(VidAccess) -> ref_due - 1
                        [] ref_cnt = RefPeriod - 1 /\ ref_due # 7 /\ ~Refreshes(VidAccess) -> ref_due + 1
                        [] OTHER -> ref_due
    BY <2>1 DEF RefreshClock
  <2>3. Refreshes(VidAccess) => ref_due # 0
    BY DEF Refreshes
  <2>4. ASSUME tphase' = 1, FreeSlot' PROVE vid_req' = NoReq
    <3>1. tphase = 0
      BY <1>2, <2>4
    <3>2. mode' = mode
      BY <1>1, <3>1 DEF Runs
    <3> QED BY <1>2, <2>1, <2>4, <3>1, <3>2, FreeAsksNothing
  <2>5. Waited' \in 0 .. 47 /\ NoneYet' \in Int /\ (tphase' = 8 => NoneYet' >= 1)
    <3>2. CASE ~FreeSlot'
      <4>1. Waited' = 12 * ftst' + tphase' + 10 /\ NoneYet' = 12 * ftst' + tphase' + 5
        BY <3>2 DEF Waited, NoneYet
      <4>2. ftst' \in 0 .. 2
        BY <1>2, <3>2 DEF FreeSlot
      <4>3. ASSUME NEW n \in 0 .. 2, NEW p \in 0 .. 11
            PROVE  12 * n + p + 10 \in 0 .. 47 /\ 12 * n + p + 5 \in Nat /\ 12 * n + p + 5 >= 1
        OBVIOUS
      <4>4. 12 * ftst' + tphase' + 10 \in 0 .. 47 /\ 12 * ftst' + tphase' + 5 \in Nat
            /\ 12 * ftst' + tphase' + 5 >= 1
        BY <1>2, <4>2, <4>3, Zenon
      <4> QED BY <4>1, <4>4
    <3>3. CASE FreeSlot'
      BY <1>2, <3>3 DEF Waited, NoneYet
    <3> QED BY <3>2, <3>3
  <2>6. CASE ref_due = 0
    <3>1. /\ ref_due' = IF ref_cnt = RefPeriod - 1 THEN 1 ELSE 0
          /\ ref_cnt' \in 0 .. RefPeriod - 1
          /\ ref_cnt = RefPeriod - 1 => ref_cnt' = 0
      <4>1. ref_cnt' \in 0 .. RefPeriod - 1 /\ (ref_cnt = RefPeriod - 1 => ref_cnt' = 0)
        BY <1>3, <2>2
      <4>2. ref_due' = IF ref_cnt = RefPeriod - 1 THEN 1 ELSE 0
        BY <2>2, <2>3, <2>6
      <4> QED BY <4>1, <4>2
    <3>2. ref_due' \in 0 .. 1
      BY <3>1
    <3>3. ref_due' = 1 => ref_cnt' <= Waited'
      BY <2>5, <3>1
    <3> QED BY <1>4, <2>1, <2>4, <3>1, <3>2, <3>3, Zenon DEF RefreshInv
  <2>7. CASE ref_due = 1
    <3>1. ref_cnt' = ref_cnt + 1 /\ ref_cnt' \in 0 .. RefPeriod - 1
      <4>1. ref_cnt < RefPeriod - 1
        BY <1>2, <2>7, DueInTime
      <4> QED BY <1>3, <2>2, <4>1
    <3>2. ref_due' = IF Refreshes(VidAccess) THEN 0 ELSE 1
      <4>1. ref_cnt # RefPeriod - 1
        BY <1>2, <1>3, <2>7, DueInTime
      <4> QED BY <2>2, <2>7, <4>1
    <3>3. ASSUME ~Refreshes(VidAccess)
          PROVE  ref_cnt' <= Waited' \/ (since' <= NoneYet' /\ ref_cnt' <= since' + 41)
      <4>1. ~(tphase = 1 /\ FreeSlot)
        <5>1. tphase = 1 => sc = 0 /\ ~cpu_slot
          BY DEF sc, cpu_slot
        <5>2. tphase = 1 /\ FreeSlot => VidAccess = NoAct
          BY DEF RefreshInv, VidAccess
        <5> QED BY <2>7, <3>3, <5>1, <5>2 DEF Refreshes
      <4>2. /\ Waited \in 0 .. 47 /\ NoneYet <= 42 /\ NoneYet \in Int
            /\ tphase = 7 => Waited <= 41
            /\ ref_cnt <= Waited \/ (since <= NoneYet /\ ref_cnt <= since + 41)
        BY <1>2, <2>7, WaitBounds DEF RefreshInv
      <4>3. CASE m = mode
        <5>1. Waited' >= Waited + 1 /\ NoneYet' >= NoneYet + 1
          BY <1>1, <1>2, <2>1, <4>1, <4>3, WaitGoesOn
        <5>2. since <= NoneYet => since' = since + 1
          BY <1>1, <1>3, <4>2, <4>3
        <5> HIDE DEF Waited, NoneYet
        <5> QED BY <1>3, <2>5, <3>1, <4>2, <5>1, <5>2
      <4>4. CASE m # mode
        <5>1. tphase = 7 /\ since = ModeGap /\ since' = 1 /\ tphase' = 8
          BY <1>1, <1>2, <4>4 DEF Runs
        <5>2. ref_cnt <= 41
          BY <1>3, <4>2, <5>1
        <5> QED BY <1>3, <2>5, <3>1, <5>1, <5>2
      <4> QED BY <4>3, <4>4
    <3>4. ref_due' \in 0 .. 1
      BY <3>2
    <3>5. ref_due' = 1 => \/ ref_cnt' <= Waited'
                          \/ since' <= NoneYet' /\ ref_cnt' <= since' + 41
      BY <3>2, <3>3
    <3> QED BY <1>4, <2>1, <2>4, <3>1, <3>4, <3>5, Zenon DEF RefreshInv
  <2> QED BY <1>3, <2>6, <2>7
<1> QED BY <1>1, <1>5, <1>6 DEF MemClock

LEMMA RefreshInvHolds == Spec => []RefreshInv
<1>1. Init => RefreshInv
  <2> SUFFICES ASSUME Init PROVE RefreshInv
    OBVIOUS
  <2>1. ref_due = 0 /\ ref_cnt = 0 /\ since = ModeGap /\ tphase = 0
    BY DEF Init, MemInit
  <2> QED BY <2>1, SdramAssumption, ScreenAssumption DEF RefreshInv
<1>2. PictureInv /\ PictureInv' /\ RefreshInv /\ [Next]_vars => RefreshInv'
  <2> SUFFICES ASSUME PictureInv, PictureInv', RefreshInv, [Next]_vars PROVE RefreshInv'
    OBVIOUS
  <2>1. CASE Next
    <3>1. PICK c, m : Clock(c, m) /\ (m # mode => Runs /\ since = ModeGap)
      <4>1. CASE NoCycle
        BY <4>1 DEF NoCycle
      <4>2. CASE MemCycle
        BY <4>2 DEF MemCycle
      <4>3. CASE ModeCycle
        BY <4>3 DEF ModeCycle
      <4> QED BY <2>1, <4>1, <4>2, <4>3 DEF Next
    <3> QED BY <3>1, RefreshStep DEF PictureInv, MemoryInv
  <2>2. CASE UNCHANGED vars
    <3>1. UNCHANGED <<tphase, started, istep, ref_cnt, ref_due, hcnt, vcnt, mode, ftst, vid_req, since>>
      BY <2>2 DEF vars, memVars, vidVars
    <3>2. FreeSlot' = FreeSlot
      BY <3>1 DEF FreeSlot, v_active, fetch_win, x0, x1, w6, wide
    <3> QED BY <3>1, <3>2 DEF RefreshInv, Waited, NoneYet, init
  <2> QED BY <2>1, <2>2
<1> QED BY <1>1, <1>2, PictureInvHolds, PTL DEF Spec

(* sdram.v:244-283, a refresh is taken in a slot that nobody asked for:    *)
(* whatever the picture and the modes, if a mode stays for ModeGap clocks, *)
(* the refresh that is due is done before the next falls due.              *)
THEOREM RefreshKeptHolds == Spec => []RefreshKept
<1>1. PictureInv /\ RefreshInv => RefreshKept
  <2> SUFFICES ASSUME PictureInv, RefreshInv, ref_cnt = RefPeriod - 1 PROVE ref_due = 0
    BY DEF RefreshKept
  <2>1. tphase \in 0 .. 11 /\ ftst \in 0 .. 3 /\ ref_due \in 0 .. 1 /\ ref_cnt \in Nat
    BY SdramAssumption DEF PictureInv, ClockInv, MemoryInv, VidReqInv, RefreshInv, RowInv
  <2> QED BY <2>1, DueInTime
<1> QED BY <1>1, PictureInvHolds, RefreshInvHolds, PTL
=============================================================================
