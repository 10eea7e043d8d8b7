-------------------------------- MODULE Video --------------------------------
(***************************************************************************)
(* video.v: the fetch of the tiles through the SDRAM's video slot, one     *)
(* tile ahead, and their display, clock by clock.                          *)
(*                                                                         *)
(* The clock counters hcnt and vcnt are top.v's.  The line and the frame   *)
(* are constants (1920 clocks, 308 lines), so are the first clock of the   *)
(* picture and its tiles by the kind of mode; a tile is 48 clocks, or 36   *)
(* in a 40-column mode.  An address is what it is computed from: the name  *)
(* of a tile by its place, a pattern and a colour by a name and a line of  *)
(* the tile.  The colours that are read live, the line buffer and the      *)
(* output raster behind it are left out: they hold no tile data.           *)
(***************************************************************************)
EXTENDS Naturals

CONSTANTS
  HTotal, VTotal,        \* clocks of a line, lines of a frame
  VFirst, VLast,         \* the lines of the picture
  X0Wide, X0Narrow,      \* the first clock of the picture
  Tiles,                 \* tiles of a line
  TileLines              \* lines of a tile

ASSUME VideoAssumption ==
  /\ HTotal \in Nat /\ HTotal % 12 = 0
  /\ Tiles \in 1 .. 64 /\ TileLines \in Nat \ {0}
  /\ X0Wide \in Nat /\ X0Wide % 12 = 0 /\ X0Wide >= 36
  /\ X0Narrow \in Nat /\ X0Narrow % 12 = 0 /\ X0Narrow >= 48
  /\ X0Wide + 36 * Tiles < HTotal /\ X0Narrow + 48 * Tiles < HTotal
  /\ VFirst \in Nat /\ VLast \in Nat /\ VTotal \in Nat /\ VFirst <= VLast /\ VLast < VTotal

VARIABLES
  hcnt, vcnt,
  mode,                  \* 0 text 40, 1 text 32, 2 graphics, 3 border only
  ftst, ftile,           \* the fetch: T-state of the tile, and the tile
  f_name, f_pat, f_col,  \* the bytes fetched
  vid_req,               \* the address asked for, or NoReq
  n_tile,                \* the next tile to show: pattern and colour (n_pat, n_fg, n_bg)
  d_tile, d_px,          \* the tile shown, and its pixel
  px6, slot              \* clock within the slot, and slot of the line

vidVars == <<hcnt, vcnt, mode, ftst, ftile, f_name, f_pat, f_col, vid_req,
             n_tile, d_tile, d_px, px6, slot>>

NoReq == [want |-> "none"]
NoData == [want |-> "nothing read"]
NoTile == [pat |-> NoData, col |-> NoData]

NameAt(row, tile)    == [want |-> "name", row |-> row, tile |-> tile]
PatternOf(name, lrow) == [want |-> "pattern", name |-> name, lrow |-> lrow]
ColourOf(name, lrow)  == [want |-> "colour", name |-> name, lrow |-> lrow]

(* The colour RAM of mode 1 is in the chip: its entry by name. *)
ColourRam(name) == [want |-> "colram", name |-> name]

VidInit ==
  /\ hcnt = 0 /\ vcnt = 0
  /\ mode = 1
  /\ ftst = 0 /\ ftile = 0
  /\ f_name = NoData /\ f_pat = NoData /\ f_col = NoData
  /\ vid_req = NoReq
  /\ n_tile = NoTile /\ d_tile = NoTile
  /\ d_px = 0 /\ px6 = 0 /\ slot = 0

-----------------------------------------------------------------------------
wide == mode \in {0, 3}
x0   == IF wide THEN X0Wide ELSE X0Narrow
w6   == IF wide THEN 36 ELSE 48
x1   == x0 + Tiles * w6

line == vcnt - VFirst
row  == line \div TileLines
lrow == line % TileLines

v_active == vcnt \in VFirst .. VLast
h_active == hcnt >= x0 /\ hcnt < x1

fetch_win == hcnt >= x0 - w6 /\ hcnt < x1 - w6
f_first   == hcnt = x0 - w6
tile_last == ftst = IF wide THEN 2 ELSE 3

(* The request of a T-state of the tile, raised on phase 0. *)
RequestAlways ==
  CASE ftst = 0                -> NameAt(row, ftile)
    [] ftst = 1                -> PatternOf(f_name, lrow)
    [] ftst \in {2, 3}         -> ColourOf(f_name, lrow)

Request ==
  CASE ftst = 0                -> NameAt(row, ftile)
    [] ftst = 1                -> PatternOf(f_name, lrow)
    [] ftst = 2 /\ mode = 2    -> ColourOf(f_name, lrow)
    [] ftst = 2 /\ mode # 2    -> NoReq
    [] ftst = 3                -> NoReq

(* The fetch: the byte acknowledged goes where the T-state says, and the   *)
(* T-state and the tile advance on phase 11.                               *)
Fetching == v_active /\ mode # 3 /\ ~f_first /\ fetch_win

Acked(ack, t) == Fetching /\ ack /\ ftst = t

FetchOnPhaseOne(reset, tphase, ack, rdata) ==
  /\ vid_req' = IF ~reset /\ Fetching /\ tphase = 1 THEN Request ELSE NoReq
  /\ f_name' = IF ~reset /\ Acked(ack, 0) THEN rdata ELSE f_name
  /\ f_pat' = IF ~reset /\ Acked(ack, 1) THEN rdata ELSE f_pat
  /\ f_col' = IF ~reset /\ Acked(ack, 2) THEN rdata ELSE f_col
  /\ IF reset \/ ~v_active \/ mode = 3 \/ f_first
     THEN ftst' = 0 /\ ftile' = 0
     ELSE IF fetch_win /\ tphase = 11
     THEN /\ ftst' = IF tile_last THEN 0 ELSE (ftst + 1) % 4
          /\ ftile' = IF tile_last THEN (ftile + 1) % 64 ELSE ftile
     ELSE UNCHANGED <<ftst, ftile>>

FetchClock(reset, tphase, ack, rdata) ==
  /\ vid_req' = IF ~reset /\ Fetching /\ tphase = 0 THEN Request ELSE NoReq
  /\ f_name' = IF ~reset /\ Acked(ack, 0) THEN rdata ELSE f_name
  /\ f_pat' = IF ~reset /\ Acked(ack, 1) THEN rdata ELSE f_pat
  /\ f_col' = IF ~reset /\ Acked(ack, 2) THEN rdata ELSE f_col
  /\ IF reset \/ ~v_active \/ mode = 3 \/ f_first
     THEN ftst' = 0 /\ ftile' = 0
     ELSE IF fetch_win /\ tphase = 11
     THEN /\ ftst' = IF tile_last THEN 0 ELSE (ftst + 1) % 4
          /\ ftile' = IF tile_last THEN (ftile + 1) % 64 ELSE ftile
     ELSE UNCHANGED <<ftst, ftile>>

(* The hand-over to the display, on phase 10. *)
HandOver(tphase) ==
  n_tile' = IF tile_last /\ tphase = 10
            THEN [pat |-> f_pat,
                  col |-> CASE mode = 1 -> ColourRam(f_name)
                            [] mode = 2 -> f_col
                            [] OTHER -> NoData]
            ELSE n_tile

(* The display: slots of six clocks, the next tile after the last pixel. *)
d_last == d_px = IF wide THEN 5 ELSE 7

SlotCount ==
  /\ px6' = IF hcnt = 0 \/ px6 = 5 THEN 0 ELSE px6 + 1
  /\ slot' = CASE hcnt = 0 -> 0
               [] hcnt # 0 /\ px6 = 5 -> slot + 1
               [] OTHER -> slot

ShowClock ==
  IF hcnt + 1 = x0 \/ (h_active /\ px6 = 5 /\ d_last)
  THEN d_tile' = n_tile /\ d_px' = 0
  ELSE IF h_active /\ px6 = 5
  THEN d_px' = (d_px + 1) % 8 /\ UNCHANGED d_tile
  ELSE UNCHANGED <<d_tile, d_px>>

(* The raster of top.v. *)
Raster ==
  /\ hcnt' = (hcnt + 1) % HTotal
  /\ vcnt' = IF hcnt = HTotal - 1 THEN (vcnt + 1) % VTotal ELSE vcnt

VidClock(reset, tphase, ack, rdata) ==
  /\ FetchClock(reset, tphase, ack, rdata)
  /\ HandOver(tphase)
  /\ SlotCount
  /\ ShowClock
  /\ Raster

(* A pixel is drawn, of which column of the picture, and which of it. *)
Draws == v_active /\ h_active /\ mode # 3 /\ px6 = 5
column == (hcnt - x0) \div w6
pixel  == ((hcnt - x0) % w6) \div 6
=============================================================================
