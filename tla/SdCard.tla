------------------------------- MODULE SdCard -------------------------------
(***************************************************************************)
(* sd_card.v: the MCU's commands over SPI on one side, the arbiter's       *)
(* requests on the other, sd_rw.v behind it.                               *)
(*                                                                         *)
(* CardClock is one clock of both always blocks and of the sector buffer;  *)
(* its parameters are the inputs.  The four bytes of a sector number (and  *)
(* of an image size) are one byte here, so byte_cnt counts to 2 where the  *)
(* code needs 5: what tells two bytes apart is kept.  A sector is Beats    *)
(* beats, and the content of a beat is the sector and the place it         *)
(* belongs to.  0xff, the answer while a command is not complete, reads    *)
(* as busy: the firmware's loops wait for a 0 (or a clear bit 0).          *)
(***************************************************************************)
EXTENDS Naturals

CONSTANTS
  Beats,    \* beats of a sector (512 bytes in the code)
  Lba,      \* sector numbers of the card
  NoBeat    \* not the content of a beat

VARIABLES
  command,                \* the MCU's command
  byte_cnt,               \* bytes since it
  image_target,           \* the slot an INSERTED names
  image_mounted,          \* slots whose image changes in this clock
  state,                  \* who the present sector is for
  rstart_int, wstart_int, \* the request levels of sd_rw.v
  lsector,                \* and its sector
  mcu_tx_cnt,             \* place in the buffer on the MCU's side
  dinb_we,                \* the beat written into the buffer in this clock, or NoBeat
  buffer,                 \* one sector, between the MCU and the card
  data_out,               \* the answer the next SPI byte carries
  irq, startD

cardVars == <<command, byte_cnt, image_target, image_mounted,
              state, rstart_int, wstart_int, lsector, mcu_tx_cnt, dinb_we,
              buffer, data_out, irq, startD>>

Commands == {"STATUS", "CORE_RW", "MCU_READ", "INSERTED", "MCU_WRITE"}

(* An SPI byte as it reaches the module: none, a command, or a byte after  *)
(* it with what it carries (a sector, a slot, a beat; many carry nothing   *)
(* the module looks at).                                                   *)
NoByte      == [kind |-> "none"]
Command(c)  == [kind |-> "start", cmd |-> c]
More(value) == [kind |-> "more", value |-> value]

(* The answers: a level, the requesters, a sector, a beat. *)
Level(b)    == [busy |-> b]
Mask(m)     == [mask |-> m]
SectorIs(s) == [sector |-> s]
BeatIs(b)   == [beat |-> b]

(* An answer the firmware's waiting loops take for "ready". *)
Ready(answer) == answer = Level(FALSE)

CardInit ==
  /\ command = "none"
  /\ byte_cnt = 2
  /\ image_target = 0
  /\ image_mounted = {}
  /\ state = "IDLE"
  /\ rstart_int = FALSE
  /\ wstart_int = FALSE
  /\ lsector \in Lba
  /\ mcu_tx_cnt = 0
  /\ dinb_we = NoBeat
  /\ buffer = [i \in 0 .. Beats - 1 |-> NoBeat]
  /\ data_out = Level(FALSE)
  /\ irq = FALSE
  /\ startD = FALSE

(* Broken variant: gated by the wrong level. *)
outenOnWrites(louten) == state = "CORE_IO" /\ wstart_int /\ louten

(* The bytes of sd_rw.v go to the core only when the core reads. *)
outen(louten) == state = "CORE_IO" /\ rstart_int /\ louten

-----------------------------------------------------------------------------
(* Broken variant: an interrupt that lasts a clock. *)
IrqPulses(start_any, iack) ==
  /\ startD' = start_any
  /\ irq' = (~iack /\ start_any /\ ~startD)

(* A rising request raises the interrupt, an acknowledge takes it down,    *)
(* and takes it down too when both come in the same clock.                 *)
IrqClock(start_any, iack) ==
  /\ startD' = start_any
  /\ irq' = (~iack /\ (irq \/ (start_any /\ ~startD)))

(* Byte n after the command c. *)
IsByte(in, c, n) == in.kind = "more" /\ command = c /\ byte_cnt = n

Starts(in, c) == in.kind = "start" /\ in.cmd = c

(* A byte after the sector number of c. *)
IsLater(in, c) == in.kind = "more" /\ command = c /\ byte_cnt > 0

(* Broken variant: the byte counter stops one later. *)
ByteClock(in) ==
  CASE in.kind = "none"  -> UNCHANGED <<command, byte_cnt>>
    [] in.kind = "start" -> command' = in.cmd /\ byte_cnt' = 0
    [] in.kind = "more"  -> /\ byte_cnt' = IF byte_cnt = 2 THEN 2 ELSE byte_cnt + 1
                            /\ UNCHANGED command

(* The last beat of a sector the MCU writes is in the buffer. *)
LastBeatIn == dinb_we # NoBeat /\ mcu_tx_cnt = Beats - 1

(* The request levels: rdone clears both, but an assignment further down   *)
(* the block wins.  CMD 2 takes the direction from the arbiter's levels,   *)
(* CMD 3 reads, and also writes if the arbiter shows a write.              *)
Addresses(in) == IsByte(in, "CORE_RW", 0) \/ IsByte(in, "MCU_READ", 0)

LevelClock(in, rstart_any, wstart_any, rdone) ==
  /\ rstart_int' = \/ Addresses(in) /\ (rstart_any \/ command = "MCU_READ")
                   \/ rstart_int /\ ~rdone
  /\ wstart_int' = \/ Addresses(in) /\ wstart_any
                   \/ LastBeatIn
                   \/ wstart_int /\ ~rdone
  /\ lsector' = IF Addresses(in) \/ IsByte(in, "MCU_WRITE", 0) THEN in.value ELSE lsector

(* Who the sector is for follows the MCU's commands as they come. *)
StateClock(in) ==
  state' = CASE Starts(in, "CORE_RW")         -> "CORE_IO"
             [] Starts(in, "MCU_READ")        -> "MCU_READ_SD"
             [] IsLater(in, "MCU_READ") /\ ~rstart_int -> "MCU_READ_TX"
             [] IsByte(in, "MCU_WRITE", 0)    -> "MCU_WRITE_RX"
             [] OTHER -> IF LastBeatIn THEN "MCU_WRITE_SD" ELSE state

Sends(in) == IsLater(in, "MCU_READ") /\ state = "MCU_READ_TX"

(* Broken variant: the place in the buffer is not reset for a read. *)
BufferNotRewound(in, louten, outaddr, outbyte) ==
  /\ dinb_we' = IF IsLater(in, "MCU_WRITE") /\ ~wstart_int /\ state = "MCU_WRITE_RX"
                THEN in.value ELSE NoBeat
  /\ mcu_tx_cnt' = CASE Sends(in) -> (mcu_tx_cnt + 1) % Beats
                     [] IsByte(in, "MCU_WRITE", 0) -> 0
                     [] OTHER -> IF dinb_we # NoBeat /\ ~LastBeatIn
                                 THEN mcu_tx_cnt + 1 ELSE mcu_tx_cnt
  /\ buffer' = [i \in 0 .. Beats - 1 |->
                  CASE state = "MCU_READ_SD" /\ louten /\ i = outaddr -> outbyte
                    [] dinb_we # NoBeat /\ i = mcu_tx_cnt -> dinb_we
                    [] OTHER -> buffer[i]]

(* The buffer: sd_rw.v fills it when the MCU reads, the MCU before a write; *)
(* one counter serves both directions of the MCU's side.                    *)
BufferClock(in, louten, outaddr, outbyte) ==
  /\ dinb_we' = IF /\ IsLater(in, "MCU_WRITE")
                   /\ ~wstart_int
                   /\ state = "MCU_WRITE_RX"
                THEN in.value ELSE NoBeat
  /\ mcu_tx_cnt' = CASE Sends(in) -> (mcu_tx_cnt + 1) % Beats
                     [] IsLater(in, "MCU_READ") /\ ~rstart_int /\ ~Sends(in) -> 0
                     [] IsByte(in, "MCU_WRITE", 0) -> 0
                     [] OTHER -> IF dinb_we # NoBeat /\ ~LastBeatIn
                                 THEN mcu_tx_cnt + 1 ELSE mcu_tx_cnt
  /\ buffer' = [i \in 0 .. Beats - 1 |->
                  CASE state = "MCU_READ_SD" /\ louten /\ i = outaddr -> outbyte
                    [] dinb_we # NoBeat /\ i = mcu_tx_cnt -> dinb_we
                    [] OTHER -> buffer[i]]

(* Broken variant: a read answers "not complete" to every byte. *)
AnswerNeverReady(in, requesters, rsector, rbusy) ==
  data_out' = CASE in.kind = "start"        -> Level(rbusy)
                [] IsByte(in, "STATUS", 0)  -> Mask(requesters)
                [] IsByte(in, "STATUS", 1)  -> SectorIs(rsector)
                [] Addresses(in) \/ IsLater(in, "MCU_READ") -> Level(TRUE)
                [] IsLater(in, "CORE_RW")   -> Level(rstart_int \/ wstart_int)
                [] in.kind = "more" /\ command = "MCU_WRITE" -> Level(rbusy)
                [] OTHER                    -> data_out

AnswerClock(in, requesters, rsector, rbusy) ==
  data_out' = CASE in.kind = "start"        -> Level(rbusy)
                [] IsByte(in, "STATUS", 0)  -> Mask(requesters)
                [] IsByte(in, "STATUS", 1)  -> SectorIs(rsector)
                [] Addresses(in)            -> Level(TRUE)
                [] Sends(in)                -> BeatIs(buffer[mcu_tx_cnt])
                [] (IsLater(in, "CORE_RW") \/ IsLater(in, "MCU_READ")) /\ ~Sends(in)
                                            -> Level(rstart_int \/ wstart_int)
                [] in.kind = "more" /\ command = "MCU_WRITE" -> Level(rbusy)
                [] OTHER                    -> data_out

(* CMD 4: the slot, then the size (not kept here: it is data of the        *)
(* peripherals), whose last byte tells the core.                           *)
MountClock(in) ==
  /\ image_target' = IF IsByte(in, "INSERTED", 0) THEN in.value ELSE image_target
  /\ image_mounted' = IF IsByte(in, "INSERTED", 1) /\ image_target <= 4
                      THEN {image_target} ELSE {}

CardClock(in, iack, rstart, wstart, rsector, rbusy, rdone, louten, outaddr, outbyte) ==
  /\ IrqClock(rstart \cup wstart # {}, iack)
  /\ ByteClock(in)
  /\ LevelClock(in, rstart # {}, wstart # {}, rdone)
  /\ StateClock(in)
  /\ BufferClock(in, louten, outaddr, outbyte)
  /\ AnswerClock(in, rstart \cup wstart, rsector, rbusy)
  /\ MountClock(in)
=============================================================================
