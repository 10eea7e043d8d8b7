--------------------------------- MODULE Tape ---------------------------------
(***************************************************************************)
(* tape.v: a .cas file played into the tape input.  A file is bytes, each a *)
(* sequence of bits, with every header tone written as the bytes of Magic  *)
(* at an aligned position.  Sectors are fetched into a buffer of two, one  *)
(* ahead of the byte being played.                                         *)
(*                                                                         *)
(* The two `always` blocks are actions of their own, with a mount and the  *)
(* rewind in both.  A half-period, 6250 or 12500 clocks, is one step, and  *)
(* so is the silence; the looking for a header goes clock by clock.        *)
(***************************************************************************)
EXTENDS Naturals, Sequences

CONSTANTS
  SectorBytes, \* 512
  DataBits,    \* 8
  Magic,       \* the bytes that stand for a header
  HeaderBits,  \* 4000 (hdr_n)
  Blank,       \* what is in the buffer before a sector
  MaxSize,     \* of a file: a bound
  ByteAt(_, _) \* the byte of a sector at an offset

HeaderBytes == Len(Magic)
Tone == <<>>  \* a header, among what is heard; a byte is its bits
LastBit == DataBits + 2

ASSUME TapeAssumption ==
  /\ SectorBytes \in Nat \ {0} /\ DataBits \in Nat \ {0} /\ HeaderBits \in Nat
  /\ Magic \in Seq([1 .. DataBits -> {0, 1}]) /\ HeaderBytes > 0
  /\ SectorBytes % HeaderBytes = 0

VARIABLES
  size,               \* 0: no file (present)
  have, have_sec,     \* which sector each half of the buffer holds, if any
  want_sec, fetching, \* the sector being fetched
  sd_rd,
  buf,                \* buf_, the halves
  rewind, play,       \* play: the OSD's Play and the machine's motor bit
  pos, pstate, cmp_i, is_hdr, cur, bit_n, bit_v, half_n, hdr_n, rbyte, tape_bit,
  last_half,          \* history: tape_bit in the half-period before
  frame, heard        \* history: the bits of the byte at hand, and what came before

fetchVars == <<size, have, have_sec, want_sec, fetching, sd_rd, buf>>
playVars == <<pos, pstate, cmp_i, is_hdr, cur, bit_n, bit_v, half_n, hdr_n, tape_bit,
              last_half, frame, heard>>
tapeVars == <<fetchVars, rewind, play, playVars, rbyte>>

Sector == 0 .. MaxSize \div SectorBytes
Byte == [1 .. DataBits -> {0, 1}]
NoByte == [i \in 1 .. DataBits |-> 0]

TapeInit ==
  /\ size = 0
  /\ have = [h \in {0, 1} |-> FALSE] /\ have_sec = [h \in {0, 1} |-> 0]
  /\ want_sec = 0 /\ fetching = FALSE /\ sd_rd = FALSE
  /\ buf = [h \in {0, 1} |-> Blank]
  /\ rewind = FALSE /\ play = FALSE
  /\ pos = 0 /\ pstate = "idle" /\ cmp_i = 0 /\ is_hdr = FALSE
  /\ cur = NoByte /\ bit_n = 0 /\ bit_v = 0 /\ half_n = 4 /\ hdr_n = 0
  /\ rbyte = NoByte /\ tape_bit = FALSE /\ last_half = TRUE
  /\ frame = <<>> /\ heard = <<>>

-----------------------------------------------------------------------------
(* The buffer. *)
Half(s) == s % 2
cur_sec == pos \div SectorBytes
second_next == cur_sec + 2
next_sec == cur_sec + 1
HoldsAny(s) == have[Half(s)]
Holds(s) == have[Half(s)] /\ have_sec[Half(s)] = s
next_exists == next_sec * SectorBytes < size

(* ack: the tape holds the SD path, and takes its own request down again. *)
Fetches(ack) ==
  /\ ~fetching /\ size # 0 /\ ~rewind
  /\ \/ ~Holds(cur_sec) /\ want_sec' = cur_sec
     \/ Holds(cur_sec) /\ ~Holds(next_sec) /\ next_exists /\ want_sec' = next_sec
  /\ fetching' = TRUE /\ sd_rd' = ~ack
  /\ UNCHANGED <<size, have, have_sec, buf, rewind, play, playVars, rbyte>>

Acked == sd_rd' = FALSE /\ UNCHANGED <<size, have, have_sec, want_sec, fetching, buf, rewind, play,
                                       playVars, rbyte>>

(* Bytes arrive where the sector that is wanted goes. *)
Arrive(content) ==
  /\ buf' = [buf EXCEPT ![Half(want_sec)] = content]
  /\ UNCHANGED <<size, have, have_sec, want_sec, fetching, sd_rd, rewind, play, playVars, rbyte>>

(* done, with the last of the bytes.  Under the rewind the half is cleared *)
(* a clock later, unless that was the rewind's last.                       *)
Done(content) ==
  /\ buf' = [buf EXCEPT ![Half(want_sec)] = content]
  /\ fetching' = FALSE
  /\ IF fetching
       THEN /\ \E h \in (IF rewind THEN BOOLEAN ELSE {TRUE}) :
                 have' = [have EXCEPT ![Half(want_sec)] = h]
            /\ have_sec' = [have_sec EXCEPT ![Half(want_sec)] = want_sec]
       ELSE UNCHANGED <<have, have_sec>>
  /\ UNCHANGED <<size, want_sec, sd_rd, rewind, play, playVars, rbyte>>

(* The player is back at the beginning, and so is who listens.  What is     *)
(* written before it is read again has its first value.                    *)
Restarts ==
  /\ pstate' = "idle" /\ pos' = 0 /\ tape_bit' = FALSE
  /\ last_half' = TRUE /\ frame' = <<>> /\ heard' = <<>>
  /\ cmp_i' = 0 /\ is_hdr' = FALSE /\ cur' = NoByte /\ rbyte' = NoByte
  /\ bit_n' = 0 /\ bit_v' = 0 /\ half_n' = 4 /\ hdr_n' = 0

(* The fetch is given up, and what was fetched is had no more: which        *)
(* sectors, and their bytes, are written before they are read again too.   *)
Forgets ==
  /\ have' = [h \in {0, 1} |-> FALSE] /\ have_sec' = [h \in {0, 1} |-> 0]
  /\ buf' = [h \in {0, 1} |-> Blank]
  /\ want_sec' = 0 /\ sd_rd' = FALSE

TapeMountStillFetching(s) ==
  /\ size' = s /\ Forgets /\ Restarts
  /\ UNCHANGED <<fetching, rewind, play>>

TapeMount(s) ==
  /\ size' = s /\ fetching' = FALSE /\ Forgets /\ Restarts
  /\ UNCHANGED <<rewind, play>>

(* The OSD's button: a level, under which the tape is at its beginning. *)
RewindOn ==
  /\ ~rewind /\ rewind' = TRUE
  /\ have' = [h \in {0, 1} |-> FALSE]
  /\ Restarts
  /\ UNCHANGED <<size, have_sec, want_sec, fetching, sd_rd, buf, play>>

RewindOff == rewind /\ rewind' = FALSE /\ UNCHANGED <<fetchVars, play, playVars, rbyte>>

-----------------------------------------------------------------------------
(* The player.  rbyte is what was at rd_adr a clock ago. *)
go == play /\ size # 0 /\ Holds(cur_sec) /\ pos < size /\ ~rewind

rd_adr == IF pstate = "cmp" THEN pos - (pos % HeaderBytes) + cmp_i ELSE pos
ReadsByte == rbyte' = ByteAt(buf[Half(cur_sec)], rd_adr % SectorBytes)

StartBit(v) == bit_v' = v /\ half_n' = IF v = 1 THEN 4 ELSE 2
Edge == tape_bit' = ~tape_bit /\ last_half' = tape_bit
NoEdge == tape_bit' = tape_bit /\ last_half' = tape_bit

Starts ==
  /\ pstate = "idle" /\ pstate' = "look"
  /\ UNCHANGED <<pos, cmp_i, is_hdr, cur, bit_n, bit_v, half_n, hdr_n, tape_bit, last_half, frame, heard>>

Look ==
  /\ pstate = "look"
  /\ IF pos % HeaderBytes = 0
       THEN pstate' = "cmp" /\ cmp_i' = 0 /\ is_hdr' = TRUE
       ELSE pstate' = "byte" /\ UNCHANGED <<cmp_i, is_hdr>>
  /\ UNCHANGED <<pos, cur, bit_n, bit_v, half_n, hdr_n, tape_bit, last_half, frame, heard>>

Compare ==
  /\ pstate = "cmp"
  /\ is_hdr' = (is_hdr /\ (cmp_i = 0 \/ rbyte = Magic[cmp_i]))
  /\ IF cmp_i = HeaderBytes - 1
       THEN pstate' = "next" /\ cmp_i' = 0
       ELSE cmp_i' = cmp_i + 1 /\ UNCHANGED pstate
  /\ UNCHANGED <<pos, cur, bit_n, bit_v, half_n, hdr_n, tape_bit, last_half, frame, heard>>

CompareLast ==
  /\ pstate = "next"
  /\ IF is_hdr /\ rbyte = Magic[HeaderBytes]
       THEN /\ pstate' = "silence" /\ pos' = pos + HeaderBytes
            /\ tape_bit' = FALSE /\ last_half' = TRUE
       ELSE pstate' = "byte" /\ UNCHANGED <<pos, tape_bit, last_half>>
  /\ UNCHANGED <<cmp_i, is_hdr, cur, bit_n, bit_v, half_n, hdr_n, frame, heard>>

Silence ==
  /\ pstate = "silence" /\ pstate' = "header"
  /\ hdr_n' = HeaderBits /\ StartBit(1)
  /\ UNCHANGED <<pos, cmp_i, is_hdr, cur, bit_n, tape_bit, last_half, frame, heard>>

Header ==
  /\ pstate = "header"
  /\ \/ half_n # 1 /\ half_n' = half_n - 1 /\ Edge /\ UNCHANGED <<bit_v, hdr_n, pstate, heard>>
     \/ /\ half_n = 1 /\ hdr_n # 0
        /\ hdr_n' = hdr_n - 1 /\ StartBit(1) /\ Edge /\ UNCHANGED <<pstate, heard>>
     \/ /\ half_n = 1 /\ hdr_n = 0
        /\ pstate' = "look" /\ heard' = Append(heard, Tone)
        /\ NoEdge /\ UNCHANGED <<half_n, bit_v, hdr_n>>
  /\ UNCHANGED <<pos, cmp_i, is_hdr, cur, bit_n, frame>>

BeginsByte ==
  /\ pstate = "byte" /\ pstate' = "bit"
  /\ cur' = rbyte /\ bit_n' = 0 /\ StartBit(0)
  /\ UNCHANGED <<pos, cmp_i, is_hdr, hdr_n, tape_bit, last_half, frame, heard>>

(* The bit after bit n: the data, lowest first, then two stop bits. *)
NextBit(n) == IF n >= DataBits THEN 1 ELSE cur[n + 1]

HalfBit ==
  /\ pstate = "bit" /\ half_n # 1
  /\ half_n' = half_n - 1 /\ Edge
  /\ UNCHANGED <<pos, pstate, cmp_i, is_hdr, cur, bit_n, bit_v, hdr_n, frame, heard>>

EndsBit ==
  /\ pstate = "bit" /\ half_n = 1
  /\ Edge
  /\ IF bit_n = LastBit
       THEN /\ pos' = pos + 1 /\ pstate' = "look"
            /\ heard' = Append(heard, Append(frame, bit_v)) /\ frame' = <<>>
            /\ UNCHANGED <<bit_n, bit_v, half_n>>
       ELSE /\ bit_n' = bit_n + 1 /\ StartBit(NextBit(bit_n))
            /\ frame' = Append(frame, bit_v)
            /\ UNCHANGED <<pos, pstate, heard>>
  /\ UNCHANGED <<cmp_i, is_hdr, cur, hdr_n>>

Plays ==
  /\ go
  /\ \/ Starts \/ Look \/ Compare \/ CompareLast \/ Silence \/ Header
     \/ BeginsByte \/ HalfBit \/ EndsBit
  /\ ReadsByte
  /\ UNCHANGED <<fetchVars, rewind, play>>

(* Paused: everything is kept but rbyte, which no one holds. *)
Paused == ~go /\ ReadsByte /\ UNCHANGED <<fetchVars, rewind, play, playVars>>

Pauses(p) == play' = p /\ UNCHANGED <<fetchVars, rewind, playVars, rbyte>>
=============================================================================
