------------------------------ MODULE TapeDeck ------------------------------
(***************************************************************************)
(* The tape player (Tape.tla) with the firmware that fetches its sectors   *)
(* (SdService.tla) and replaces its file (OsdJobs.tla).  The tape is the   *)
(* one drive that asks for sectors.  The machine's reset is not the        *)
(* tape's: its deck is reset with the whole board.                         *)
(***************************************************************************)
EXTENDS Tape, OsdJobs, SequencesExt

CONSTANT File \* the bytes of each file

Size(i) == Len(File[i])
SectorAt(i, s) == IF i \in Images /\ s * SectorBytes < Size(i) THEN <<i, s>> ELSE Blank
Contents == {Blank} \cup (Images \X Sector)

(* Bound: what follows a file in its last sector is zeros, ... *)
FileByte(place, offset) ==
  IF place = Blank \/ place[2] * SectorBytes + offset >= Size(place[1])
    THEN NoByte
    ELSE File[place[1]][place[2] * SectorBytes + offset + 1]

(* ... which complete no header, whose last byte is 74h. *)
ASSUME DeckAssumption ==
  /\ MaxSize \in Nat /\ Blank \notin Images \X Sector /\ Magic[HeaderBytes] # NoByte
  /\ File \in [Images -> Seq(Byte)] /\ \A i \in Images : Size(i) \in 1 .. MaxSize
  /\ \A p \in Contents : \A o \in 0 .. SectorBytes - 1 : ByteAt(p, o) = FileByte(p, o)

VARIABLE spoilt \* history: a sector of this file was told done unserved, or ...
                \* ... it was paused while the player looked for a header

vars == <<tapeVars, svcVars, osdVars, spoilt>>

Init == TapeInit /\ SvcInit(Blank) /\ OsdInit /\ spoilt = FALSE

-----------------------------------------------------------------------------
(* spi_task, and the FPGA.  The sector arrives from the transfer's start on. *)
Task ==
  /\ Serves(SectorAt(fil, rsector), Contents)
  /\ IF path = "shown" /\ path' = "moving" THEN Arrive(Blank) ELSE UNCHANGED tapeVars
  /\ UNCHANGED <<osdVars, spoilt>>

Asks == Fetches(path # "free") /\ UNCHANGED svcVars
Grants == sd_rd /\ SvcGrants(want_sec, FALSE) /\ Acked
TransferEnds == SvcEnds(Blank) /\ Done(dsector)

Fpga == (Asks \/ Grants \/ TransferEnds) /\ UNCHANGED <<osdVars, spoilt>>

Player == (Plays \/ Paused) /\ UNCHANGED <<svcVars, osdVars, spoilt>>

-----------------------------------------------------------------------------
(* The OSD's task. *)

(* Nothing is read if FatFs has the sector already.  Bound: no second      *)
(* lease is torn until a file comes whose sectors are its own again.       *)
ReadsCard ==
  \/ SamePath /\ UNCHANGED <<spoilt, tapeVars>>
  \/ /\ ~spoilt /\ SvcTearsLease
     /\ Done(buf[Half(want_sec)])
     /\ spoilt' = fetching

(* At its beginning a file is as new, but for a lease or a task of before. *)
StaysSpoilt == spoilt /\ (path # "free" \/ task # "sleep")
Mounts(s) == TapeMount(s) /\ spoilt' = StaysSpoilt

Works ==
  \/ Ejects /\ Mounts(0)
  \/ OpenReads /\ ReadsCard
  \/ Inserts /\ Mounts(Size(image))
  \/ OsdGoesOn /\ UNCHANGED <<tapeVars, spoilt>>

(* rbyte is about to be looked at, which a pause does not keep. *)
Comparing == size # 0 /\ pstate \in {"cmp", "next"}

(* The user: a file or none, a directory, Play and Rewind; the machine     *)
(* switches the motor.  Bounds: a file that is spoilt is rewound or        *)
(* replaced, or played to its end; a look for the core's folder, which may *)
(* tear a lease as the readings do, is HardDisk.tla's.                     *)
User ==
  \/ /\ \/ \E i \in Images \cup {NoImage} : Picks(i)
        \/ (~spoilt /\ WantsTo("readLock")) \/ ReadEnds
     /\ UNCHANGED <<tapeVars, spoilt>>
  \/ (OpenFails \/ Reads) /\ ReadsCard
  \/ /\ \/ RewindOn /\ spoilt' = StaysSpoilt
        \/ (RewindOff \/ (~play /\ Pauses(TRUE))) /\ UNCHANGED spoilt
        \/ ~spoilt /\ play /\ Pauses(FALSE) /\ spoilt' = Comparing
     /\ UNCHANGED <<svcVars, osdVars>>

Next == Task \/ Fpga \/ Player \/ Works \/ User

Spec == Init /\ [][Next]_vars

-----------------------------------------------------------------------------
(* What a file says: a tone for each header that has something after it, a  *)
(* start bit, the data bits and two stop bits for each byte.                *)
IsHeader(i, p) ==
  /\ p % HeaderBytes = 0 /\ p + HeaderBytes <= Size(i)
  /\ SubSeq(File[i], p + 1, p + HeaderBytes) = Magic

Framed(byte) == <<0>> \o byte \o <<1, 1>>

RecordedFrom(i) ==
  LET Rest[p \in 0 .. Size(i)] ==
        IF p = Size(i) \/ (IsHeader(i, p) /\ p + HeaderBytes = Size(i)) THEN <<>>
        ELSE IF IsHeader(i, p) THEN <<Tone>> \o Rest[p + HeaderBytes]
        ELSE <<Framed(File[i][p + 1])>> \o Rest[p + 1]
  IN Rest

Recorded(i) == RecordedFrom(i)[0]

(* What the machine hears is the mounted file from its beginning, each byte *)
(* once and each header a tone, however it was paused, rewound or replaced, *)
(* whatever sector came late; unless the firmware read a sector for itself  *)
(* while one of the tape's was shown (SdFalseDone), or the pause came while *)
(* the player compared the bytes of a header.                               *)
TapeSaysFile ==
  size # 0 /\ ~spoilt =>
    /\ fil \in Images /\ IsPrefix(heard, Recorded(fil))
    /\ pos = size => heard = Recorded(fil)

(* The bytes that arrive never go to the half that is played, also after a *)
(* rewind or another file, with the sector before still on its way.        *)
PlayedHalfKept == path = "moving" /\ Holds(cur_sec) => Half(want_sec) # Half(cur_sec)

(* A tape that is played and left alone plays to its end, whatever the     *)
(* firmware reads meanwhile, if its readings end.                          *)
TapeRunsOut ==
  ReadingsEnd /\ <>[](play /\ size # 0 /\ ~rewind) => <>(size # 0 /\ pos >= size)
=============================================================================
