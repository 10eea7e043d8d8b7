--------------------------------- MODULE Poke ---------------------------------
(***************************************************************************)
(* poke.v: the bytes the MCU writes into the machine's memory, a ring of   *)
(* Depth entries between the SPI link and the SDRAM's CPU port.  The       *)
(* pointers have one bit more than a cell's number: they count to twice    *)
(* the depth, and tell a full ring from an empty one.                      *)
(***************************************************************************)
EXTENDS Naturals

CONSTANTS
  Depth,  \* 16 entries
  Entry,  \* an address and a byte
  Blank   \* what the ring's cells hold before they are written

ASSUME PokeAssumption == Depth \in Nat \ {0} /\ Blank \in Entry

VARIABLES fifo, wp, rp

pokeVars == <<fifo, wp, rp>>

Cells == 0 .. Depth - 1
Pointer == 0 .. 2 * Depth - 1

PokeTypeOK ==
  /\ fifo \in [Cells -> Entry]
  /\ wp \in Pointer /\ rp \in Pointer

PokeInit ==
  /\ fifo = [c \in Cells |-> Blank]
  /\ wp = 0 /\ rp = 0

Succ(p) == IF p = 2 * Depth - 1 THEN 0 ELSE p + 1
Cell(p) == IF p < Depth THEN p ELSE p - Depth

empty == wp = rp
fullNever == FALSE
full  == Cell(wp) = Cell(rp) /\ wp # rp

(* The entry that goes to memory next, and whether it goes in this clock:  *)
(* at phase 7, unless the CPU wants the slot or the ROM disk's loader has  *)
(* it.                                                                     *)
req_entry == fifo[Cell(rp)]
Req(cpu_busy, hold) == ~empty /\ ~hold /\ ~cpu_busy

(* A clock: a byte e arrives (stb) or not, and the slot is given or not.   *)
(* A cell whose entry has gone to memory is dead, and blank here.          *)
PokeClock(stb, e, req) ==
  LET put == stb /\ ~full IN
  /\ fifo' = [c \in Cells |-> IF put /\ c = Cell(wp) THEN e
                              ELSE IF req /\ c = Cell(rp) THEN Blank ELSE fifo[c]]
  /\ wp' = IF put THEN Succ(wp) ELSE wp
  /\ rp' = IF req THEN Succ(rp) ELSE rp

PokeNext ==
  \E stb, cpu_busy, hold \in BOOLEAN, e \in Entry :
    PokeClock(stb, e, Req(cpu_busy, hold))

PokeSpec == PokeInit /\ [][PokeNext]_pokeVars

-----------------------------------------------------------------------------
(* How many entries are pending, and which, in order. *)
Count == IF rp <= wp THEN wp - rp ELSE wp + 2 * Depth - rp
Place(i) == IF i < Depth THEN i ELSE IF i < 2 * Depth THEN i - Depth ELSE i - 2 * Depth
Pending == [i \in 1 .. Count |-> fifo[Place(rp + i - 1)]]

Queue == INSTANCE PokeQueue WITH Length <- Depth, queue <- Pending

(* The ring is a queue of Depth entries: what is accepted comes out in     *)
(* order and once, and the pointers never pass each other (poke.v: the     *)
(* pointers' fifth bit tells full from empty).                             *)
PokeIsQueue == Queue!Spec
=============================================================================
