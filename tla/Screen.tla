------------------------------- MODULE Screen -------------------------------
(***************************************************************************)
(* The machine's memory and its picture: video.v and the CPU on the two    *)
(* slots of sdram.v, as top.v joins them, clock by clock from power-up.    *)
(*                                                                         *)
(* The CPU is free, but for the one thing its ports do on their own: a     *)
(* machine cycle is taken at phase 7, when it may read or write a cell or  *)
(* set the screen's mode.  It is in reset until the self-test is over      *)
(* (top.v holds it for 280 ms).  The screen's tables are not written: a    *)
(* byte of theirs is the address it is at, so that a byte on its way shows *)
(* where it comes from.                                                    *)
(***************************************************************************)
EXTENDS Sdram, Video

CONSTANTS
  CpuByte,   \* the bytes the CPU writes
  CpuCells,  \* where
  Modes,     \* the modes it sets
  ModeGap,   \* clocks from one change of the mode to the next
  ModeTimes  \* and when in a frame it sets them: a bound

(* The screen's tables, each a row of the memory. *)
Tables == {"name", "pattern", "colour"}

ASSUME ScreenAssumption ==
  /\ NoByte = NoData
  /\ CpuByte \subseteq Byte
  /\ CpuCells \subseteq Cells
  /\ 0 \in Bank /\ Tables \subseteq Row
  /\ \A y \in 0 .. VLast - VFirst, t \in 0 .. Tiles - 1 :
       LET name == NameAt(y \div TileLines, t)
       IN  {name, PatternOf(name, y % TileLines), ColourOf(name, y % TileLines)} \subseteq Col
  /\ \A a \in Adr : a.row \in Tables => a \notin Cells /\ Stored(a) = a.col
  /\ Modes \subseteq 0 .. 3
  /\ ModeGap \in Nat /\ ModeGap >= 48 /\ RefPeriod >= 85
  /\ ModeTimes \subseteq (0 .. VTotal - 1) \X {h \in 0 .. HTotal - 1 : h % 12 = 7}

(* History: what the CPU asked for in this T-state, what it last wrote to  *)
(* each cell, whether since the start of the line the self-test is over    *)
(* and the mode the same, and the clocks since the mode changed, up to     *)
(* ModeGap: an OUT is three machine cycles (cpu8080.v), ten T-states.      *)
VARIABLES asked, written, steady, since

vars == <<memVars, vidVars, asked, written, steady, since>>

Init ==
  /\ MemInit
  /\ VidInit
  /\ asked = NoAct
  /\ written = cells
  /\ steady = FALSE
  /\ since = ModeGap

-----------------------------------------------------------------------------
(* Where the screen's bytes are: a table is a row of the first bank. *)
Where(req) == [bank |-> 0, row |-> req.want, col |-> req]

VidAccess == IF vid_req = NoReq THEN NoAct ELSE Fetch("vid", Where(vid_req))

(* The CPU's cycles, and what they ask of the memory. *)
Runs == tphase = 7 /\ bist.done

CpuAccesses ==
  {Fetch("cpu", a) : a \in CpuCells}
  \cup {Store("cpu", a, d) : a \in CpuCells, d \in CpuByte}

(* One clock of the whole: cpu is the CPU's request, m the mode from then on. *)
Clock(cpu, m) ==
  /\ MemClock(cpu, VidAccess)
  /\ VidClock(~init, tphase, vid_ack, vid_rdata)
  /\ mode' = m
  /\ steady' = (bist.done /\ m = mode /\ (steady \/ hcnt = HTotal - 1))
  /\ since' = IF m # mode THEN 1 ELSE IF since < ModeGap THEN since + 1 ELSE since
  /\ asked' = IF tphase \in {7, 0} THEN cpu ELSE asked
  /\ written' = IF ~bist.done THEN cells'
                ELSE IF cpu # NoAct /\ cpu.we THEN [written EXCEPT ![cpu.adr] = cpu.data]
                ELSE written

NoCycle    == Clock(NoAct, mode)
MemCycle   == Runs /\ \E a \in CpuAccesses : Clock(a, mode)
ModeCycle  == /\ Runs /\ since = ModeGap /\ <<vcnt, hcnt>> \in ModeTimes
              /\ \E m \in Modes : Clock(NoAct, m)

Next == NoCycle \/ MemCycle \/ ModeCycle

Spec == Init /\ [][Next]_vars

(* The clock runs. *)
FairSpec == Spec /\ WF_vars(Next)

-----------------------------------------------------------------------------
(* sdram.v:244-283, a refresh is counted when it falls due and taken in a  *)
(* slot the video leaves free: whatever the picture is, the one due is     *)
(* done before the next, so that none is lost.                             *)
RefreshKept == init /\ ref_cnt = RefPeriod - 1 => ref_due = 0

(* The slots never meet, and neither side waits (sdram.v:9-11): a byte the *)
(* CPU asks for is the last that it wrote there and is in cpu_rdata by     *)
(* phase 0, although the video and the refresh have the chip between the   *)
(* two and the pads may be late.                                           *)
CpuReadsBack ==
  /\ tphase = 0 /\ ~bist.fail
  /\ asked # NoAct /\ ~asked.we
  => cpu_rdata = written[asked.adr]

(* The self-test's verdict is the truth about the pads: it passes with the *)
(* capture on the clock the words are there, or it fails.                  *)
BistVerdict ==
  bist.done => bist.fail = (pads = "dead") /\ cap_late = (pads = "late")

(* A byte read for the screen is in video.v in its T-state, and of the     *)
(* address asked for: a pixel drawn in a line whose mode does not change   *)
(* is the right one of its tile, and from the third column on that is the  *)
(* tile fetched before the column's own, its colour by the same name.      *)
Shown(tile) ==
  LET name == NameAt(row, tile)
  IN  [pat |-> PatternOf(name, lrow),
       col |-> CASE mode = 1 -> ColourRam(name)
                 [] mode = 2 -> ColourOf(name, lrow)
                 [] mode = 0 -> NoData]

Picture == Draws /\ steady /\ ~bist.fail

PixelsInOrder ==
  Picture => /\ d_px = pixel
             /\ column >= 2 => d_tile = Shown(column - 1)

(* video.v:115-119, the tiles are fetched one ahead, and 134-136, the      *)
(* display loads a tile at the end of the period before it: column k shows *)
(* tile k.  (Column 0 is left out, and column 1 that shows the same: the   *)
(* name of the first tile is not fetched at all.)                          *)
ColumnShowsItsTile == Picture /\ column >= 2 => d_tile = Shown(column)

(* The power-up comes to its end: the initialisation waits for slots that  *)
(* the phase counter brings, the self-test for the phases after it.        *)
PowersUp == <>bist.done
=============================================================================
