---------------------------- MODULE TapeDeckProofs ----------------------------
(***************************************************************************)
(* That the half of the buffer which is played is never the one that the   *)
(* bytes of the SD path go to, and that what is heard of a file is what it *)
(* says (PlayedHalfKept and TapeSaysFile of TapeDeck.tla), for any files,  *)
(* sectors and headers.  What a file says is a recursive function: that it *)
(* is one, and of what, is by the least place at which it would not be.    *)
(***************************************************************************)
EXTENDS TapeDeck, SequenceTheorems, WellFoundedInduction, TLAPS

(* A sector is fetched because it is not had, and if the one at hand is,   *)
(* it is the next.  A lease that is nobody's, which a remount leaves, goes *)
(* with an empty buffer.                                                   *)
FetchInv ==
  /\ pos \in Nat /\ want_sec \in Nat
  /\ have \in [{0, 1} -> BOOLEAN] /\ have_sec \in [{0, 1} -> Nat]
  /\ fetching \in BOOLEAN
  /\ fetching => ~Holds(want_sec)
  /\ fetching /\ Holds(cur_sec) => want_sec = cur_sec + 1
  /\ path # "free" /\ ~fetching => ~have[0] /\ ~have[1]
  /\ sd_rd => fetching /\ path = "free"

fetchState == <<want_sec, have, have_sec, fetching, sd_rd>>

-----------------------------------------------------------------------------
(* A sector takes a whole number of headers, so it is no shorter than one. *)
LEMMA HeaderFits == HeaderBytes \in Nat /\ HeaderBytes <= SectorBytes
<1>1. HeaderBytes \in Nat /\ HeaderBytes > 0
  BY TapeAssumption DEF HeaderBytes
<1>2. SectorBytes \in Nat /\ SectorBytes > 0 /\ SectorBytes % HeaderBytes = 0
  BY TapeAssumption
<1>3. SUFFICES ASSUME HeaderBytes > SectorBytes PROVE FALSE
  BY <1>1, <1>2
<1>4. SectorBytes % HeaderBytes = SectorBytes
  BY <1>1, <1>2, <1>3
<1> QED BY <1>2, <1>4

(* A step of at most a sector stays in it or comes to the next. *)
LEMMA StepOfSector ==
  ASSUME NEW n \in Nat, NEW k \in Nat, NEW d \in Nat \ {0}, k <= d
  PROVE  (n + k) \div d \in {n \div d, n \div d + 1}
<1> DEFINE q == n \div d
           r == n % d
<1>1. q \in Nat /\ r \in 0 .. d - 1 /\ n = d * q + r
  OBVIOUS
<1> QED BY <1>1

LEMMA WholeSectors == ASSUME NEW n \in Nat, NEW d \in Nat \ {0} PROVE n \div d \in Nat
OBVIOUS

LEMMA HalfOf == ASSUME NEW n \in Nat PROVE n % 2 \in {0, 1} /\ (n + 1) % 2 # n % 2
OBVIOUS

(* The sector at hand is a number, whatever the position is. *)
LEMMA CurSec == ASSUME FetchInv PROVE cur_sec \in Nat
<1>1. pos \in Nat
  BY DEF FetchInv
<1>2. SectorBytes \in Nat \ {0}
  BY TapeAssumption
<1>3. pos \div SectorBytes \in Nat
  BY <1>1, <1>2, WholeSectors
<1> QED BY <1>3 DEF cur_sec

(* What leaves the fetch, the position and the lease alone. *)
LEMMA Unchanged ==
  ASSUME FetchInv, UNCHANGED fetchState, pos' = pos, path' = path
  PROVE  FetchInv'
BY DEF FetchInv, fetchState, Holds, Half, cur_sec

-----------------------------------------------------------------------------
(* The steps of the buffer. *)
LEMMA FetchesKeeps ==
  ASSUME FetchInv, Fetches(path # "free"), path' = path
  PROVE  FetchInv'
<1>1. cur_sec \in Nat
  BY CurSec
<1>2. /\ UNCHANGED <<have, have_sec, pos>> /\ ~fetching /\ fetching' = TRUE
      /\ sd_rd' = ~(path # "free")
      /\ \/ ~Holds(cur_sec) /\ want_sec' = cur_sec
         \/ Holds(cur_sec) /\ ~Holds(cur_sec + 1) /\ want_sec' = cur_sec + 1
  BY DEF Fetches, playVars, next_sec
<1>3. cur_sec' = cur_sec /\ \A s : Holds(s)' = Holds(s)
  BY <1>2 DEF Holds, Half, cur_sec
<1> QED BY <1>1, <1>2, <1>3 DEF FetchInv, Holds, Half, cur_sec

LEMMA AckedKeeps ==
  ASSUME FetchInv, Acked, sd_rd
  PROVE  FetchInv'
<1>1. UNCHANGED <<have, have_sec, pos, want_sec, fetching>> /\ sd_rd' = FALSE /\ fetching
  BY DEF Acked, playVars, FetchInv
<1> QED BY <1>1 DEF FetchInv, Holds, Half, cur_sec

LEMMA DoneKeeps ==
  ASSUME FetchInv, NEW c, Done(c), path # "free", path' = "free"
  PROVE  FetchInv'
<1>1. UNCHANGED <<pos, want_sec, sd_rd>> /\ fetching' = FALSE
  BY DEF Done, playVars
<1>2. ~sd_rd
  BY DEF FetchInv
<1>3. have' \in [{0, 1} -> BOOLEAN] /\ have_sec' \in [{0, 1} -> Nat]
  <2>1. CASE fetching
    <3>1. PICK h \in BOOLEAN : have' = [have EXCEPT ![Half(want_sec)] = h]
      BY <2>1 DEF Done
    <3>2. have_sec' = [have_sec EXCEPT ![Half(want_sec)] = want_sec]
      BY <2>1 DEF Done
    <3> QED BY <3>1, <3>2 DEF FetchInv
  <2>2. CASE ~fetching
    BY <2>2 DEF Done, FetchInv
  <2> QED BY <2>1, <2>2
<1> QED BY <1>1, <1>2, <1>3 DEF FetchInv

LEMMA ArriveKeeps ==
  ASSUME FetchInv, NEW c, Arrive(c), path # "free", path' # "free"
  PROVE  FetchInv'
<1>1. UNCHANGED fetchState /\ pos' = pos
  BY DEF Arrive, playVars, fetchState
<1> QED BY <1>1 DEF FetchInv, fetchState, Holds, Half, cur_sec

LEMMA MountKeeps ==
  ASSUME FetchInv, NEW s, TapeMount(s)
  PROVE  FetchInv'
BY DEF FetchInv, TapeMount, Forgets, Restarts, Holds, Half, cur_sec

LEMMA RewindKeeps ==
  ASSUME FetchInv, RewindOn, path' = path
  PROVE  FetchInv'
<1>1. /\ have' = [h \in {0, 1} |-> FALSE] /\ pos' = 0
      /\ UNCHANGED <<have_sec, want_sec, fetching, sd_rd>>
  BY DEF RewindOn, Restarts
<1>2. \A s \in Nat : ~Holds(s)'
  BY <1>1, HalfOf DEF Holds, Half
<1>3. cur_sec' \in Nat
  BY <1>1, TapeAssumption DEF cur_sec
<1> QED BY <1>1, <1>2, <1>3 DEF FetchInv

-----------------------------------------------------------------------------
(* The player goes on only with the sector at hand had, to the same or the *)
(* next: which is the one that is fetched, if any, and not had.            *)
LEMMA PlaysKeeps ==
  ASSUME FetchInv, Plays, path' = path
  PROVE  FetchInv'
<1>1. go /\ UNCHANGED fetchState
  BY DEF Plays, fetchVars, fetchState
<1>2. pos' \in {pos, pos + 1, pos + HeaderBytes}
  BY DEF Plays, Starts, Look, Compare, CompareLast, Silence, Header, BeginsByte, HalfBit, EndsBit
<1>3. pos' \in Nat /\ cur_sec' \in {cur_sec, cur_sec + 1}
  <2>1. SectorBytes \in Nat \ {0} /\ HeaderBytes \in Nat /\ HeaderBytes <= SectorBytes
    BY TapeAssumption, HeaderFits
  <2>2. PICK k \in Nat : k <= SectorBytes /\ pos' = pos + k
    <3>1. pos \in Nat
      BY DEF FetchInv
    <3> QED BY <1>2, <2>1, <3>1
  <2>3. pos \in Nat
    BY DEF FetchInv
  <2> QED BY <2>1, <2>2, <2>3, StepOfSector DEF cur_sec
<1>4. Holds(cur_sec) /\ \A s : Holds(s)' = Holds(s)
  BY <1>1 DEF go, Holds, Half, fetchState
<1>5. Holds(cur_sec') = Holds(cur_sec)' /\ Holds(want_sec)' = Holds(want_sec)
  BY <1>1, <1>4 DEF fetchState, Holds, Half
<1>6. fetching => want_sec = cur_sec + 1 /\ ~Holds(cur_sec + 1)
  BY <1>4 DEF FetchInv
<1> QED BY <1>1, <1>3, <1>4, <1>5, <1>6 DEF FetchInv, fetchState

-----------------------------------------------------------------------------
(* The steps of all. *)
LEMMA FetchStarts == ASSUME Init PROVE FetchInv
<1>1. pos = 0 /\ want_sec = 0 /\ fetching = FALSE /\ sd_rd = FALSE /\ path = "free"
  BY DEF Init, TapeInit, SvcInit
<1>2. have = [h \in {0, 1} |-> FALSE] /\ have_sec = [h \in {0, 1} |-> 0]
  BY DEF Init, TapeInit
<1>3. have \in [{0, 1} -> BOOLEAN] /\ have_sec \in [{0, 1} -> Nat]
  BY <1>2
<1> QED BY <1>1, <1>3 DEF FetchInv

LEMMA FetchKept == ASSUME FetchInv, [Next]_vars PROVE FetchInv'
<1>1. CASE Task
  <2>1. CASE path = "shown" /\ path' = "moving"
    BY <1>1, <2>1, ArriveKeeps DEF Task
  <2>2. CASE ~(path = "shown" /\ path' = "moving")
    <3>1. UNCHANGED tapeVars /\ path' = path
      BY <1>1, <2>2
      DEF Task, Serves, SvcTask, TaskWakes, TaskReadsRequest, TaskLocks, TaskStarts, TaskEnds, TaskTraps
    <3> QED BY <3>1, Unchanged DEF tapeVars, fetchVars, playVars, fetchState
  <2> QED BY <2>1, <2>2
<1>2. CASE Fpga
  <2>1. CASE Asks
    BY <2>1, FetchesKeeps DEF Asks, svcVars
  <2>2. CASE Grants
    BY <2>2, AckedKeeps DEF Grants
  <2>3. CASE TransferEnds
    BY <2>3, DoneKeeps DEF TransferEnds, SvcEnds
  <2> QED BY <1>2, <2>1, <2>2, <2>3 DEF Fpga
<1>3. CASE Player
  <2>1. CASE Plays
    BY <1>3, <2>1, PlaysKeeps DEF Player, svcVars
  <2>2. CASE Paused
    BY <1>3, <2>2, Unchanged DEF Player, Paused, svcVars, fetchVars, playVars, fetchState
  <2> QED BY <1>3, <2>1, <2>2 DEF Player
<1>4. ASSUME ReadsCard PROVE FetchInv'
  <2>1. CASE SamePath /\ UNCHANGED <<spoilt, tapeVars>>
    BY <2>1, Unchanged DEF SamePath, tapeVars, fetchVars, playVars, fetchState
  <2>2. CASE SvcTearsLease /\ Done(buf[Half(want_sec)])
    BY <2>2, DoneKeeps DEF SvcTearsLease
  <2> QED BY <1>4, <2>1, <2>2 DEF ReadsCard
<1>5. ASSUME UNCHANGED tapeVars, path' = path PROVE FetchInv'
  BY <1>5, Unchanged DEF tapeVars, fetchVars, playVars, fetchState
<1>6. CASE Works
  <2>1. CASE \E s : Mounts(s)
    BY <2>1, MountKeeps DEF Mounts
  <2>2. CASE OsdGoesOn /\ UNCHANGED <<tapeVars, spoilt>>
    BY <2>2, <1>5 DEF OsdGoesOn, Locks, OpenEnds, SamePath
  <2> QED BY <1>4, <1>6, <2>1, <2>2 DEF Works
<1>7. CASE User
  <2>1. CASE (\E i \in Images \cup {NoImage} : Picks(i)) /\ UNCHANGED <<tapeVars, spoilt>>
    BY <2>1, <1>5 DEF Picks, SamePath
  <2>2. CASE (WantsTo("readLock") \/ ReadEnds) /\ UNCHANGED <<tapeVars, spoilt>>
    BY <2>2, <1>5 DEF WantsTo, ReadEnds, SamePath
  <2>3. CASE RewindOn /\ UNCHANGED svcVars
    BY <2>3, RewindKeeps DEF svcVars
  <2>4. CASE (RewindOff \/ \E p : Pauses(p)) /\ UNCHANGED svcVars
    BY <2>4, Unchanged DEF RewindOff, Pauses, svcVars, fetchVars, playVars, fetchState
  <2> QED BY <1>4, <1>7, <2>1, <2>2, <2>3, <2>4 DEF User
<1>8. CASE UNCHANGED vars
  BY <1>8, <1>5 DEF vars, svcVars
<1> QED BY <1>1, <1>2, <1>3, <1>6, <1>7, <1>8 DEF Next

(* The half that is played is kept, with whatever the firmware and the     *)
(* user do.                                                                *)
THEOREM PlayedHalfKeptHolds == Spec => []PlayedHalfKept
<1>1. Init => FetchInv
  BY FetchStarts
<1>2. FetchInv /\ [Next]_vars => FetchInv'
  BY FetchKept
<1>3. FetchInv => PlayedHalfKept
  <2> SUFFICES ASSUME FetchInv, path = "moving", Holds(cur_sec)
               PROVE  Half(want_sec) # Half(cur_sec)
    BY DEF PlayedHalfKept
  <2>1. cur_sec \in Nat
    BY CurSec
  <2>2. fetching
    BY <2>1, HalfOf DEF FetchInv, Holds, Half
  <2> QED BY <2>1, <2>2, HalfOf DEF FetchInv, Half
<1> QED BY <1>1, <1>2, <1>3, PTL DEF Spec

-----------------------------------------------------------------------------
(* Who holds the lock of the file system; which file the drive has. *)
Opening == {"openLock", "open", "opened", "insert"}

LockInv ==
  /\ task \in {"sleep", "status", "lock", "lookup", "poll", "trapped"}
  /\ sdc_sem \in {"free", "osd", "task"}
  /\ sdc_sem = "osd" => osd \in {"open", "opened", "read"}
  /\ sdc_sem = "task" => task \in {"lookup", "poll", "trapped"}

FileInv ==
  /\ osd \in Opening => image \in Images /\ size = 0
  /\ osd = "eject" => image \in Images \cup {NoImage}
  /\ osd \in {"opened", "insert"} => fil = image
  /\ size # 0 => fil \in Images /\ size = Size(fil)

(* The lease is of the sector that is wanted, and spi_task on its way to   *)
(* it; nothing is wanted without a file.                                   *)
LeaseInv ==
  /\ path \in {"free", "shown", "moving"}
  /\ fetching => size # 0
  /\ path # "free" => fetching /\ psector = want_sec
  /\ path = "shown" => irq \/ task \in {"status", "lock", "lookup"}
  /\ path = "moving" => task = "poll"
  /\ ~spoilt => /\ path = "moving" => dsector = SectorAt(fil, want_sec)
                /\ task \in {"lock", "lookup"} => path = "shown" /\ rsector = psector

(* A sector that is had is in its half, but while another goes there. *)
BufInv ==
  /\ DOMAIN buf = {0, 1}
  /\ size # 0 /\ ~spoilt => \A h \in {0, 1} :
       have[h] /\ ~(path = "moving" /\ Half(want_sec) = h) => buf[h] = SectorAt(fil, have_sec[h])

-----------------------------------------------------------------------------
(* What the player has said and what it is about to say, of the open file. *)
FileAt(p) == IF p < size THEN File[fil][p + 1] ELSE NoByte
Matches(n) == \A j \in 1 .. n : FileAt(pos + j - 1) = Magic[j]
Ahead ==
  IF pstate \in {"silence", "header"} /\ pos < size
    THEN <<Tone>> \o RecordedFrom(fil)[pos]
    ELSE RecordedFrom(fil)[pos]

PStates == {"idle", "look", "cmp", "next", "silence", "header", "byte", "bit"}
SaysInv ==
  /\ pos \in 0 .. size /\ pstate \in PStates
  /\ heard \in Seq(Seq({0, 1})) /\ Recorded(fil) = heard \o Ahead
  /\ rewind => pstate = "idle"

CompareInv ==
  /\ pstate \in {"cmp", "next"} => play /\ pos % HeaderBytes = 0 /\ is_hdr \in BOOLEAN
  /\ pstate \in {"cmp", "next", "byte"} => Holds(cur_sec) /\ pos < size
  /\ pstate = "cmp" => /\ cmp_i \in 0 .. HeaderBytes - 1
                       /\ cmp_i > 0 => rbyte = FileAt(pos + cmp_i - 1)
                       /\ is_hdr <=> Matches(cmp_i - 1)
  /\ pstate = "next" => /\ rbyte = FileAt(pos + HeaderBytes - 1)
                        /\ is_hdr <=> Matches(HeaderBytes - 1)
  /\ pstate \in {"byte", "bit"} => ~IsHeader(fil, pos)
  /\ pstate = "byte" => rbyte = FileAt(pos)

FrameInv ==
  /\ pstate # "bit" => frame = <<>>
  /\ pstate = "bit" =>
       /\ pos < size /\ cur = FileAt(pos)
       /\ bit_n \in 0 .. LastBit /\ frame \in Seq({0, 1}) /\ Len(frame) = bit_n
       /\ \A j \in 1 .. bit_n : frame[j] = Framed(cur)[j]
       /\ bit_v = Framed(cur)[bit_n + 1]

TellInv == SaysInv /\ CompareInv /\ FrameInv

PlayInv == size # 0 /\ ~spoilt => TellInv

(* Only a history that is spoilt says nothing of the file. *)
DeckInv == FetchInv /\ LockInv /\ FileInv /\ LeaseInv /\ BufInv /\ PlayInv

-----------------------------------------------------------------------------
(* What a file says is well defined: a set of naturals has a least element. *)
LEMMA LeastNat ==
  ASSUME NEW T \in SUBSET Nat, T # {}
  PROVE  \E n \in T : \A m \in T : n <= m
<1>1. PICK n \in T : \A m \in T : <<m, n>> \notin OpToRel(<, Nat)
  BY NatLessThanWellFounded, WFMin, Zenon
<1>2. \A m \in T : ~(m < n)
  BY <1>1 DEF OpToRel
<1> QED BY <1>2

Items == Seq({0, 1})

(* One step of RecordedFrom. *)
Says(i, p, rest) ==
  IF p = Size(i) \/ (IsHeader(i, p) /\ p + HeaderBytes = Size(i)) THEN <<>>
  ELSE IF IsHeader(i, p) THEN <<Tone>> \o rest[p + HeaderBytes]
  ELSE <<Framed(File[i][p + 1])>> \o rest[p + 1]

(* The constants. *)
LEMMA HeaderLength == HeaderBytes \in Nat /\ HeaderBytes > 0
BY TapeAssumption DEF HeaderBytes

LEMMA FileFacts ==
  ASSUME NEW i \in Images
  PROVE  /\ Size(i) \in Nat /\ Size(i) >= 1 /\ Size(i) <= MaxSize /\ File[i] \in Seq(Byte)
         /\ \A p \in 0 .. Size(i) - 1 : File[i][p + 1] \in Byte
<1>1. File[i] \in Seq(Byte) /\ Size(i) \in 1 .. MaxSize
  BY DeckAssumption
<1>2. Size(i) = Len(File[i]) /\ Len(File[i]) \in Nat
  BY <1>1, LenProperties DEF Size
<1> QED BY <1>1, <1>2, ElementOfSeq

(* A byte framed: its start bit, its bits, the stop bits. *)
LEMMA FramedIs ==
  ASSUME NEW b \in Byte
  PROVE  /\ Framed(b) \in Items /\ Len(Framed(b)) = DataBits + 3
         /\ \A k \in 1 .. DataBits + 3 :
              Framed(b)[k] = IF k = 1 THEN 0 ELSE IF k <= DataBits + 1 THEN b[k - 1] ELSE 1
<1>1. b \in Seq({0, 1}) /\ Len(b) = DataBits /\ DataBits \in Nat
  BY TapeAssumption DEF Byte
<1>2. <<0>> \in Seq({0, 1}) /\ <<1, 1>> \in Seq({0, 1}) /\ Len(<<0>>) = 1 /\ Len(<<1, 1>>) = 2
      /\ <<0>>[1] = 0 /\ <<1, 1>>[1] = 1 /\ <<1, 1>>[2] = 1
  OBVIOUS
<1>3. /\ <<0>> \o b \in Seq({0, 1}) /\ Len(<<0>> \o b) = 1 + DataBits
      /\ \A k \in 1 .. 1 + DataBits : (<<0>> \o b)[k] = IF k <= 1 THEN <<0>>[k] ELSE b[k - 1]
  BY <1>1, <1>2, ConcatProperties
<1>4. /\ (<<0>> \o b) \o <<1, 1>> \in Seq({0, 1}) /\ Len((<<0>> \o b) \o <<1, 1>>) = 1 + DataBits + 2
      /\ \A k \in 1 .. 1 + DataBits + 2 : ((<<0>> \o b) \o <<1, 1>>)[k] =
            IF k <= 1 + DataBits THEN (<<0>> \o b)[k] ELSE <<1, 1>>[k - (1 + DataBits)]
  BY <1>2, <1>3, ConcatProperties
<1>5. Framed(b) = (<<0>> \o b) \o <<1, 1>>
  BY DEF Framed
<1>6. ASSUME NEW k \in 1 .. DataBits + 3
      PROVE  Framed(b)[k] = IF k = 1 THEN 0 ELSE IF k <= DataBits + 1 THEN b[k - 1] ELSE 1
  <2>1. CASE k = 1
    BY <1>1, <1>2, <1>3, <1>4, <1>5, <2>1
  <2>2. CASE k # 1 /\ k <= DataBits + 1
    BY <1>1, <1>3, <1>4, <1>5, <2>2
  <2>3. CASE k > DataBits + 1
    <3>1. k - (1 + DataBits) \in {1, 2} /\ k # 1
      BY <1>1, <2>3
    <3> QED BY <1>1, <1>2, <1>4, <1>5, <2>3, <3>1
  <2> QED BY <1>1, <2>1, <2>2, <2>3
<1>7. Len(Framed(b)) = DataBits + 3 /\ Framed(b) \in Items
  BY <1>1, <1>4, <1>5 DEF Items
<1> QED BY <1>6, <1>7

(* What is said of a place is of the places after it. *)
LEMMA SaysItems ==
  ASSUME NEW i \in Images, NEW p \in 0 .. Size(i), NEW rest,
         \A q \in p + 1 .. Size(i) : rest[q] \in Seq(Items)
  PROVE  Says(i, p, rest) \in Seq(Items)
<1>1. Size(i) \in Nat /\ HeaderBytes \in Nat /\ HeaderBytes > 0
  BY FileFacts, HeaderLength
<1>2. CASE p = Size(i) \/ (IsHeader(i, p) /\ p + HeaderBytes = Size(i))
  BY <1>2, EmptySeq DEF Says
<1>3. CASE ~(p = Size(i)) /\ IsHeader(i, p) /\ p + HeaderBytes # Size(i)
  <2>1. p + HeaderBytes \in p + 1 .. Size(i)
    BY <1>1, <1>3 DEF IsHeader
  <2>2. <<Tone>> \in Seq(Items)
    BY DEF Tone, Items
  <2>3. Says(i, p, rest) = <<Tone>> \o rest[p + HeaderBytes]
    BY <1>3 DEF Says
  <2> QED BY <2>1, <2>2, <2>3, ConcatProperties
<1>4. CASE p # Size(i) /\ ~IsHeader(i, p)
  <2>1. p + 1 \in p + 1 .. Size(i) /\ p \in 0 .. Size(i) - 1
    BY <1>1, <1>4
  <2>2. Framed(File[i][p + 1]) \in Items
    BY <2>1, FileFacts, FramedIs
  <2>3. Says(i, p, rest) = <<Framed(File[i][p + 1])>> \o rest[p + 1]
    BY <1>4 DEF Says
  <2>4. <<Framed(File[i][p + 1])>> \in Seq(Items)
    BY <2>2
  <2> QED BY <2>1, <2>3, <2>4, ConcatProperties
<1> QED BY <1>2, <1>3, <1>4

LEMMA SaysAfter ==
  ASSUME NEW i \in Images, NEW p \in 0 .. Size(i), NEW rest, NEW other,
         \A q \in p + 1 .. Size(i) : rest[q] = other[q]
  PROVE  Says(i, p, rest) = Says(i, p, other)
<1>1. Size(i) \in Nat /\ HeaderBytes \in Nat /\ HeaderBytes > 0
  BY FileFacts, HeaderLength
<1>2. CASE IsHeader(i, p) /\ p + HeaderBytes # Size(i)
  <2>1. p + HeaderBytes \in p + 1 .. Size(i)
    BY <1>1, <1>2 DEF IsHeader
  <2> QED BY <1>2, <2>1 DEF Says
<1>3. CASE p # Size(i) /\ ~IsHeader(i, p)
  <2>1. p + 1 \in p + 1 .. Size(i)
    BY <1>1, <1>3
  <2> QED BY <1>3, <2>1 DEF Says
<1>4. CASE p = Size(i) \/ (IsHeader(i, p) /\ p + HeaderBytes = Size(i))
  BY <1>4 DEF Says
<1> QED BY <1>2, <1>3, <1>4

(* The last n places can be told. *)
Told(i, n, g) == \A p \in Size(i) - n .. Size(i) : g[p] = Says(i, p, g)

LEMMA CanBeTold ==
  ASSUME NEW i \in Images
  PROVE  \E g : g = [p \in 0 .. Size(i) |-> Says(i, p, g)]
<1>1. Size(i) \in Nat
  BY FileFacts
<1> DEFINE T == {n \in 0 .. Size(i) : ~\E g : Told(i, n, g)}
<1>2. T = {}
  <2> SUFFICES ASSUME T # {} PROVE FALSE
    OBVIOUS
  <2>1. T \in SUBSET Nat
    BY <1>1
  <2>2. PICK n \in T : \A m \in T : n <= m
    BY <2>1, LeastNat
  <2>3. CASE n = 0
    <3>1. Size(i) - n .. Size(i) = {Size(i)}
      BY <1>1, <2>3
    <3> DEFINE g == [p \in {Size(i)} |-> <<>>]
    <3>2. g[Size(i)] = <<>> /\ Says(i, Size(i), g) = <<>>
      BY DEF Says
    <3>3. Told(i, n, g)
      BY <3>1, <3>2 DEF Told
    <3> QED BY <2>2, <3>3
  <2>4. CASE n # 0
    <3>1. n - 1 \in 0 .. Size(i) /\ n - 1 \notin T /\ n \in 0 .. Size(i)
      BY <1>1, <2>2, <2>4
    <3>2. PICK g : Told(i, n - 1, g)
      BY <3>1
    <3> DEFINE q == Size(i) - n
               h == [p \in q .. Size(i) |-> IF p = q THEN Says(i, q, g) ELSE g[p]]
    <3>3. q \in 0 .. Size(i) /\ Size(i) - (n - 1) = q + 1
      BY <1>1, <3>1
    <3>4. \A p \in q + 1 .. Size(i) : h[p] = g[p] /\ g[p] = Says(i, p, g)
      BY <1>1, <3>2, <3>3 DEF Told
    <3>5. h[q] = Says(i, q, g)
      BY <1>1, <3>3
    <3> HIDE DEF h
    <3>6. ASSUME NEW p \in q .. Size(i) PROVE h[p] = Says(i, p, h)
      <4>1. p \in 0 .. Size(i) /\ \A r \in p + 1 .. Size(i) : h[r] = g[r]
        BY <1>1, <3>3, <3>4
      <4>2. Says(i, p, h) = Says(i, p, g)
        BY <4>1, SaysAfter
      <4>3. h[p] = Says(i, p, g)
        <5>1. CASE p = q
          BY <3>5, <5>1
        <5>2. CASE p # q
          BY <1>1, <3>3, <3>4, <5>2
        <5> QED BY <5>1, <5>2
      <4> QED BY <4>2, <4>3
    <3>7. Told(i, n, h)
      BY <3>6 DEF Told
    <3> QED BY <2>2, <3>7
  <2> QED BY <2>3, <2>4
<1>3. PICK g : Told(i, Size(i), g)
  BY <1>1, <1>2
<1> DEFINE f == [p \in 0 .. Size(i) |-> g[p]]
<1>4. ASSUME NEW p \in 0 .. Size(i) PROVE f[p] = Says(i, p, f)
  <2>1. \A q \in p + 1 .. Size(i) : f[q] = g[q]
    BY <1>1
  <2>2. Says(i, p, f) = Says(i, p, g)
    BY <2>1, SaysAfter
  <2>3. g[p] = Says(i, p, g)
    BY <1>1, <1>3 DEF Told
  <2> QED BY <2>2, <2>3
<1>5. f = [p \in 0 .. Size(i) |-> Says(i, p, f)]
  BY <1>4
<1> QED BY <1>5

(* RecordedFrom is what can be told, and a sequence of items. *)
LEMMA RecordedIsTold ==
  ASSUME NEW i \in Images
  PROVE  RecordedFrom(i) = [p \in 0 .. Size(i) |-> Says(i, p, RecordedFrom(i))]
<1> DEFINE f == CHOOSE f : f = [p \in 0 .. Size(i) |->
                    IF p = Size(i) \/ (IsHeader(i, p) /\ p + HeaderBytes = Size(i)) THEN <<>>
                    ELSE IF IsHeader(i, p) THEN <<Tone>> \o f[p + HeaderBytes]
                    ELSE <<Framed(File[i][p + 1])>> \o f[p + 1]]
<1>1. RecordedFrom(i) = f
  BY DEF RecordedFrom
<1>2. \E g : g = [p \in 0 .. Size(i) |->
                    IF p = Size(i) \/ (IsHeader(i, p) /\ p + HeaderBytes = Size(i)) THEN <<>>
                    ELSE IF IsHeader(i, p) THEN <<Tone>> \o g[p + HeaderBytes]
                    ELSE <<Framed(File[i][p + 1])>> \o g[p + 1]]
  BY CanBeTold DEF Says
<1>3. f = [p \in 0 .. Size(i) |->
                    IF p = Size(i) \/ (IsHeader(i, p) /\ p + HeaderBytes = Size(i)) THEN <<>>
                    ELSE IF IsHeader(i, p) THEN <<Tone>> \o f[p + HeaderBytes]
                    ELSE <<Framed(File[i][p + 1])>> \o f[p + 1]]
  BY <1>2
<1> QED BY <1>1, <1>3 DEF Says

LEMMA RecordedAt ==
  ASSUME NEW i \in Images
  PROVE  \A p \in 0 .. Size(i) : /\ RecordedFrom(i)[p] = Says(i, p, RecordedFrom(i))
                                 /\ RecordedFrom(i)[p] \in Seq(Items)
<1>1. Size(i) \in Nat
  BY FileFacts
<1>2. \A p \in 0 .. Size(i) : RecordedFrom(i)[p] = Says(i, p, RecordedFrom(i))
  BY RecordedIsTold
<1> DEFINE R == RecordedFrom(i)
           T == {n \in 0 .. Size(i) : R[Size(i) - n] \notin Seq(Items)}
<1>3. T = {}
  <2> SUFFICES ASSUME T # {} PROVE FALSE
    OBVIOUS
  <2>1. T \in SUBSET Nat
    BY <1>1
  <2>2. PICK n \in T : \A m \in T : n <= m
    BY <2>1, LeastNat
  <2> HIDE DEF R
  <2>3. Size(i) - n \in 0 .. Size(i) /\ n \in 0 .. Size(i)
    BY <1>1, <2>2
  <2>4. ASSUME NEW q \in Size(i) - n + 1 .. Size(i) PROVE R[q] \in Seq(Items)
    <3>1. Size(i) - q \in 0 .. Size(i) /\ Size(i) - q < n /\ Size(i) - (Size(i) - q) = q
      BY <1>1, <2>3
    <3>2. Size(i) - q \notin T
      BY <2>2, <2>3, <3>1
    <3> QED BY <3>1, <3>2
  <2>5. R[Size(i) - n] = Says(i, Size(i) - n, R)
    BY <1>2, <2>3 DEF R
  <2>6. R[Size(i) - n] \in Seq(Items)
    BY <2>3, <2>4, <2>5, SaysItems
  <2> QED BY <2>2, <2>6
<1>4. ASSUME NEW p \in 0 .. Size(i) PROVE R[p] \in Seq(Items)
  <2>1. Size(i) - p \in 0 .. Size(i) /\ Size(i) - (Size(i) - p) = p
    BY <1>1
  <2> QED BY <1>3, <2>1
<1> QED BY <1>2, <1>4

-----------------------------------------------------------------------------
(* The lock and the file. *)
LEMMA LockKept == ASSUME LockInv, [Next]_vars PROVE LockInv'
<1>1. ASSUME UNCHANGED <<task, sdc_sem>>,
             osd' = osd \/ sdc_sem # "osd" \/ osd' \in {"open", "opened", "read"}
      PROVE  LockInv'
  BY <1>1 DEF LockInv
<1>2. CASE Task
  <2>1. osd' = osd
    BY <1>2 DEF Task, osdVars
  <2>2. CASE TaskTraps
    BY <2>1, <2>2 DEF LockInv, TaskTraps
  <2>3. CASE ~TaskTraps
    BY <1>2, <2>1, <2>3
    DEF LockInv, Task, Serves, SvcTask, TaskWakes, TaskReadsRequest, TaskLocks, TaskStarts, TaskEnds
  <2> QED BY <2>2, <2>3
<1>3. CASE Fpga
  BY <1>1, <1>3 DEF Fpga, Asks, Grants, TransferEnds, SvcGrants, SvcEnds, svcVars, osdVars
<1>4. CASE Player \/ UNCHANGED vars
  BY <1>1, <1>4 DEF Player, svcVars, osdVars, vars
<1>5. CASE Works
  <2>1. CASE Ejects \/ Inserts
    <3>1. UNCHANGED <<task, sdc_sem>> /\ osd \in {"eject", "insert"}
      BY <2>1 DEF Ejects, Inserts, From, To, SameSem
    <3> QED BY <3>1, <1>1 DEF LockInv
  <2>2. CASE OpenReads
    BY <1>1, <2>2 DEF LockInv, OpenReads, From, To, SameSem
  <2>3. CASE OsdGoesOn
    BY <2>3 DEF LockInv, OsdGoesOn, Locks, OpenEnds, From, To, Unlocks
  <2> QED BY <1>5, <2>1, <2>2, <2>3 DEF Works
<1>6. CASE User
  <2>1. CASE (\E i \in Images \cup {NoImage} : Picks(i)) \/ WantsTo("readLock")
    <3>1. UNCHANGED <<task, sdc_sem>> /\ osd = "menu"
      BY <2>1 DEF Picks, WantsTo, From, To, SameSem
    <3> QED BY <3>1, <1>1 DEF LockInv
  <2>2. CASE OpenFails \/ ReadEnds
    BY <2>2 DEF LockInv, OpenFails, ReadEnds, From, To, Unlocks
  <2>3. CASE Reads
    BY <1>1, <2>3 DEF Reads, From, To, SameSem
  <2>4. CASE UNCHANGED <<svcVars, osdVars>>
    BY <1>1, <2>4 DEF svcVars, osdVars
  <2> QED BY <1>6, <2>1, <2>2, <2>3, <2>4 DEF User
<1> QED BY <1>2, <1>3, <1>4, <1>5, <1>6 DEF Next

(* A mount comes with no lease up and spi_task asleep, which else would    *)
(* run, or wait for a lock that is free.                                   *)
LEMMA MountsQuietly ==
  ASSUME LockInv, FileInv, LeaseInv, From("eject") \/ From("insert")
  PROVE  path = "free" /\ task = "sleep"
<1>1. ~TaskReady(KeepsBus) /\ osd \in {"eject", "insert"}
  BY DEF From
<1>2. task \notin {"poll", "trapped"}
  BY <1>1 DEF TaskReady
<1>3. BusFree(KeepsBus)
  BY <1>1, <1>2 DEF BusFree, KeepsBus
<1>4. task = "sleep" /\ ~irq
  BY <1>1, <1>2, <1>3 DEF TaskReady, LockInv
<1> QED BY <1>4 DEF LeaseInv

(* A file is opened with the drive empty, and has bytes. *)
LEMMA ImageFacts ==
  ASSUME NEW i \in Images
  PROVE  i # NoImage /\ i # LostImage /\ Size(i) \in Nat /\ Size(i) # 0
BY OsdAssumption, FileFacts

(* What a sector that the firmware reads for itself leaves alone. *)
LEMMA CardLeavesSize ==
  ASSUME ReadsCard
  PROVE  /\ UNCHANGED <<size, want_sec, playVars, rbyte, rewind, play>>
         /\ \/ UNCHANGED <<fetchVars, spoilt, path, psector, is_wr>>
            \/ SvcTearsLease /\ Done(buf[Half(want_sec)]) /\ spoilt' = fetching
BY DEF ReadsCard, Done, tapeVars, fetchVars, SamePath

LEMMA FileKept == ASSUME FileInv, [Next]_vars PROVE FileInv'
<1>1. ASSUME size' = size, UNCHANGED osdVars
      PROVE  FileInv'
  BY <1>1 DEF FileInv, osdVars
<1>2. CASE Task \/ Fpga \/ Player \/ UNCHANGED vars
  <2>1. size' = size /\ UNCHANGED osdVars
    BY <1>2 DEF Task, Arrive, Fpga, Asks, Fetches, Grants, Acked, TransferEnds, Done, Player, Plays, Paused,
                fetchVars, tapeVars, vars
  <2> QED BY <1>1, <2>1
<1>3. CASE Works
  <2>1. CASE Ejects /\ Mounts(0)
    BY <2>1, ImageFacts DEF FileInv, Ejects, Mounts, TapeMount, From, To, SameImage, Opening
  <2>2. CASE OpenReads /\ ReadsCard
    BY <2>2, CardLeavesSize DEF FileInv, OpenReads, From, To, SameImage, Opening
  <2>3. CASE Inserts /\ Mounts(Size(image))
    <3>1. osd = "insert" /\ osd' = "menu" /\ fil' = fil /\ size' = Size(image)
      BY <2>3 DEF Inserts, Mounts, TapeMount, From, To
    <3>2. image \in Images /\ fil = image
      BY <3>1 DEF FileInv, Opening
    <3> QED BY <3>1, <3>2 DEF FileInv, Opening
  <2>4. CASE OsdGoesOn /\ UNCHANGED <<tapeVars, spoilt>>
    <3>1. size' = size /\ UNCHANGED <<image, fil>>
      BY <2>4 DEF OsdGoesOn, Locks, OpenEnds, SameImage, tapeVars, fetchVars
    <3>2. osd' \in {"read", "menu"} \/ (osd = "openLock" /\ osd' = "open")
          \/ (osd = "opened" /\ osd' = "insert")
      BY <2>4 DEF OsdGoesOn, Locks, OpenEnds, From, To
    <3> QED BY <3>1, <3>2 DEF FileInv, Opening
  <2> QED BY <1>3, <2>1, <2>2, <2>3, <2>4 DEF Works
<1>4. CASE User
  <2>1. CASE (\E i \in Images \cup {NoImage} : Picks(i)) /\ UNCHANGED <<tapeVars, spoilt>>
    BY <2>1 DEF FileInv, Picks, To, Opening, tapeVars, fetchVars
  <2>2. CASE (WantsTo("readLock") \/ ReadEnds) /\ UNCHANGED <<tapeVars, spoilt>>
    BY <2>2 DEF FileInv, WantsTo, ReadEnds, To, SameImage, Opening, tapeVars, fetchVars
  <2>3. CASE OpenFails /\ ReadsCard
    BY <2>3, CardLeavesSize DEF FileInv, OpenFails, From, To, Opening
  <2>4. CASE Reads /\ ReadsCard
    BY <2>4, CardLeavesSize DEF FileInv, Reads, From, To, SameImage, Opening
  <2>5. CASE (RewindOn \/ RewindOff \/ \E p : Pauses(p)) /\ UNCHANGED osdVars
    BY <1>1, <2>5 DEF RewindOn, RewindOff, Pauses, fetchVars
  <2> QED BY <1>4, <2>1, <2>2, <2>3, <2>4, <2>5 DEF User
<1> QED BY <1>2, <1>3, <1>4 DEF Next

-----------------------------------------------------------------------------
(* The lease, and the sector that it brings. *)
LEMMA TaskKeepsLease ==
  ASSUME LeaseInv, FileInv, Task
  PROVE  LeaseInv'
<1> DEFINE places == IF fil = LostImage THEN Contents ELSE {SectorAt(fil, rsector)}
<1>1. UNCHANGED <<size, want_sec, fetching, sd_rd, osdVars, spoilt, psector>>
  BY DEF Task, Arrive, Serves, SvcTask, TaskTraps, tapeVars, fetchVars
<1>2. CASE TaskWakes(KeepsBus)
  BY <1>1, <1>2 DEF LeaseInv, TaskWakes, osdVars
<1>3. CASE TaskReadsRequest(KeepsBus, fil # NoImage)
  <2>1. path = "shown" => fil # NoImage
    BY ImageFacts DEF LeaseInv, FileInv
  <2> QED BY <1>1, <1>3, <2>1 DEF LeaseInv, TaskReadsRequest, osdVars
<1>4. CASE TaskLocks
  BY <1>1, <1>4 DEF LeaseInv, TaskLocks, osdVars
<1>5. CASE TaskStarts(KeepsBus, places)
  <2>1. path = "shown" /\ ~spoilt => rsector = want_sec
    BY <1>5 DEF LeaseInv, TaskStarts
  <2>2. SectorAt(fil, want_sec)' = SectorAt(fil, want_sec)
    BY <1>1 DEF SectorAt, osdVars
  <2>3. path = "shown" => fil # LostImage
    BY ImageFacts DEF LeaseInv, FileInv
  <2>4. path = "shown" => dsector' = SectorAt(fil, rsector)
    BY <1>5, <2>3 DEF TaskStarts
  <2>5. IF path = "shown" THEN path' = "moving" ELSE UNCHANGED <<path, dsector>>
    BY <1>5 DEF TaskStarts
  <2>6. task = "lookup" /\ task' = "poll" /\ UNCHANGED <<rsector, irq>>
    BY <1>5 DEF TaskStarts
  <2> QED BY <1>1, <2>1, <2>2, <2>4, <2>5, <2>6 DEF LeaseInv
<1>6. CASE TaskEnds
  BY <1>1, <1>6 DEF LeaseInv, TaskEnds, osdVars
<1>7. CASE fil = LostImage /\ TaskTraps
  <2>1. path = "free"
    BY <1>7, ImageFacts DEF LeaseInv, FileInv
  <2> QED BY <1>1, <1>7, <2>1 DEF LeaseInv, TaskTraps
<1> QED BY <1>2, <1>3, <1>4, <1>5, <1>6, <1>7 DEF Task, Serves, SvcTask

LEMMA FpgaKeepsLease ==
  ASSUME LeaseInv, FetchInv, Fpga
  PROVE  LeaseInv'
<1>1. UNCHANGED <<size, fil, spoilt>>
  BY DEF Fpga, Asks, Fetches, Grants, Acked, TransferEnds, Done, osdVars
<1>2. CASE Asks
  BY <1>1, <1>2 DEF LeaseInv, Asks, Fetches, svcVars
<1>3. CASE Grants
  BY <1>1, <1>3 DEF LeaseInv, Grants, SvcGrants, Acked, FetchInv
<1>4. CASE TransferEnds
  BY <1>1, <1>4 DEF LeaseInv, TransferEnds, SvcEnds, Done
<1> QED BY <1>2, <1>3, <1>4 DEF Fpga

LEMMA SameLease ==
  ASSUME LeaseInv, UNCHANGED <<size, want_sec, fetching, task, rsector, irq, path, psector, dsector>>,
         ~spoilt' => ~spoilt \/ (path = "free" /\ task = "sleep"),
         fil' = fil \/ size = 0
  PROVE  LeaseInv'
<1>1. size = 0 => path = "free"
  BY DEF LeaseInv
<1>2. path = "free" => path' # "moving"
  OBVIOUS
<1>3. ASSUME ~spoilt' PROVE /\ path = "moving" => dsector' = SectorAt(fil, want_sec)'
                            /\ task \in {"lock", "lookup"} => path = "shown" /\ rsector = psector
  <2>1. CASE path = "free" /\ task = "sleep"
    BY <2>1
  <2>2. CASE ~spoilt
    <3>1. path = "moving" => fil' = fil
      BY <1>1
    <3> QED BY <2>2, <3>1 DEF LeaseInv
  <2> QED BY <1>3, <2>1, <2>2
<1> QED BY <1>3 DEF LeaseInv

LEMMA CardKeepsLease ==
  ASSUME LeaseInv, ReadsCard, UNCHANGED <<task, rsector, irq, dsector>>, fil' = fil \/ size = 0
  PROVE  LeaseInv'
<1>1. CASE UNCHANGED <<fetchVars, spoilt, path, psector, is_wr>>
  BY <1>1, SameLease DEF fetchVars
<1>2. CASE SvcTearsLease /\ Done(buf[Half(want_sec)]) /\ spoilt' = fetching
  <2>1. path' = "free" /\ path = "shown" /\ fetching /\ fetching' = FALSE /\ spoilt' = TRUE
    <3>1. path = "shown" /\ fetching
      BY <1>2 DEF SvcTearsLease, LeaseInv
    <3>2. fetching' = FALSE /\ path' = "free"
      BY <1>2 DEF SvcTearsLease, Done
    <3> QED BY <1>2, <3>1, <3>2 DEF FetchInv
  <2> QED BY <1>2, <2>1 DEF LeaseInv
<1> QED BY <1>1, <1>2, CardLeavesSize

LEMMA MountKeepsLease ==
  ASSUME LeaseInv, NEW s, Mounts(s), path = "free", task = "sleep", UNCHANGED <<svcVars, fil>>
  PROVE  LeaseInv' /\ spoilt' = FALSE
<1>1. fetching' = FALSE /\ path' = "free" /\ task' = "sleep" /\ spoilt' = FALSE
  BY DEF Mounts, TapeMount, StaysSpoilt, svcVars
<1> QED BY <1>1 DEF LeaseInv

LEMMA OsdKeepsLease ==
  ASSUME LeaseInv, FileInv, LockInv, Works \/ User \/ Player \/ UNCHANGED vars
  PROVE  LeaseInv'
<1>1. ASSUME UNCHANGED tapeVars, spoilt' = spoilt, SamePath, UNCHANGED <<task, rsector, irq, dsector>>, fil' = fil
      PROVE  LeaseInv'
  BY <1>1, SameLease DEF SamePath, tapeVars, fetchVars
<1>2. CASE Works
  <2>1. CASE (Ejects /\ Mounts(0)) \/ (Inserts /\ Mounts(Size(image)))
    <3>1. path = "free" /\ task = "sleep"
      BY <2>1, MountsQuietly DEF Ejects, Inserts
    <3>2. UNCHANGED <<svcVars, fil>>
      BY <2>1 DEF Ejects, Inserts, To, SamePath, SameSem, SameImage, svcVars
    <3> QED BY <2>1, <3>1, <3>2, MountKeepsLease
  <2>2. CASE OpenReads /\ ReadsCard
    <3>1. UNCHANGED <<task, rsector, irq, dsector>> /\ (fil' = fil \/ size = 0)
      BY <2>2 DEF OpenReads, From, To, FileInv, Opening, SameImage
    <3> QED BY <2>2, <3>1, CardKeepsLease
  <2>3. CASE OsdGoesOn /\ UNCHANGED <<tapeVars, spoilt>>
    BY <1>1, <2>3 DEF OsdGoesOn, Locks, OpenEnds, To, SameImage
  <2> QED BY <1>2, <2>1, <2>2, <2>3 DEF Works
<1>3. CASE User
  <2>1. CASE /\ (\E i \in Images \cup {NoImage} : Picks(i)) \/ WantsTo("readLock") \/ ReadEnds
             /\ UNCHANGED <<tapeVars, spoilt>>
    BY <1>1, <2>1 DEF Picks, WantsTo, ReadEnds, To, SameImage
  <2>2. CASE (OpenFails \/ Reads) /\ ReadsCard
    <3>1. UNCHANGED <<task, rsector, irq, dsector>> /\ (fil' = fil \/ size = 0)
      BY <2>2 DEF OpenFails, Reads, From, To, FileInv, Opening, SameImage
    <3> QED BY <2>2, <3>1, CardKeepsLease
  <2>3. CASE RewindOn /\ spoilt' = StaysSpoilt /\ UNCHANGED <<svcVars, osdVars>>
    <3>1. ~spoilt' => ~spoilt \/ (path = "free" /\ task = "sleep")
      BY <2>3 DEF StaysSpoilt
    <3> QED BY <2>3, <3>1, SameLease DEF RewindOn, svcVars, osdVars
  <2>4. CASE /\ RewindOff \/ (~play /\ Pauses(TRUE)) \/ (~spoilt /\ play /\ Pauses(FALSE) /\ spoilt' = Comparing)
             /\ UNCHANGED <<svcVars, osdVars>> /\ (spoilt' = spoilt \/ (~spoilt /\ spoilt' = Comparing))
    <3>1. ~spoilt' => ~spoilt
      BY <2>4
    <3>2. UNCHANGED <<size, want_sec, fetching>>
      BY <2>4 DEF RewindOff, Pauses, fetchVars
    <3> QED BY <2>4, <3>1, <3>2, SameLease DEF svcVars, osdVars
  <2> QED BY <1>3, <2>1, <2>2, <2>3, <2>4 DEF User
<1>4. CASE Player \/ UNCHANGED vars
  <2>1. UNCHANGED <<fetchVars, svcVars, osdVars, spoilt>>
    BY <1>4 DEF Player, Plays, Paused, vars, tapeVars
  <2> QED BY <2>1, SameLease DEF fetchVars, svcVars, osdVars
<1> QED BY <1>2, <1>3, <1>4

-----------------------------------------------------------------------------
(* The buffer. *)
LEMMA HalvesApart ==
  ASSUME FetchInv, fetching, Holds(cur_sec)
  PROVE  Half(want_sec) # Half(cur_sec)
<1>1. cur_sec \in Nat
  BY CurSec
<1>2. want_sec = cur_sec + 1
  BY DEF FetchInv
<1> QED BY <1>1, <1>2, HalfOf DEF Half

LEMMA SameBuf ==
  ASSUME BufInv, DOMAIN buf' = {0, 1}, UNCHANGED <<size, have, have_sec>>, ~spoilt' => ~spoilt,
         size # 0 => fil' = fil,
         \A h \in {0, 1} : /\ path = "moving" /\ Half(want_sec) = h => path' = "moving" /\ Half(want_sec)' = h
                           /\ buf'[h] = buf[h] \/ (path' = "moving" /\ Half(want_sec)' = h)
  PROVE  BufInv'
BY DEF BufInv, SectorAt

LEMMA WantedHalf == ASSUME FetchInv PROVE Half(want_sec) \in {0, 1}
BY HalfOf DEF FetchInv, Half

LEMMA TransferKeepsBuf ==
  ASSUME FetchInv, LeaseInv, BufInv, TransferEnds, UNCHANGED <<fil, spoilt>>
  PROVE  BufInv'
<1>1. path = "moving" /\ fetching /\ path' = "free"
  BY DEF TransferEnds, SvcEnds, LeaseInv
<1> DEFINE w == Half(want_sec)
<1>2. w \in {0, 1}
  BY WantedHalf
<1>3. /\ buf' = [buf EXCEPT ![w] = dsector] /\ UNCHANGED <<size, want_sec>>
      /\ have_sec' = [have_sec EXCEPT ![w] = want_sec]
      /\ \E b \in BOOLEAN : have' = [have EXCEPT ![w] = b]
  BY <1>1 DEF TransferEnds, Done
<1>4. DOMAIN buf = {0, 1} /\ DOMAIN have = {0, 1} /\ DOMAIN have_sec = {0, 1}
  BY DEF BufInv, FetchInv
<1>5. buf'[w] = dsector /\ have_sec'[w] = want_sec /\ DOMAIN buf' = {0, 1}
  BY <1>2, <1>3, <1>4
<1>6. \A h \in {0, 1} : h # w => buf'[h] = buf[h] /\ have_sec'[h] = have_sec[h] /\ have'[h] = have[h]
  BY <1>2, <1>3, <1>4
<1>7. ASSUME size # 0, ~spoilt, NEW h \in {0, 1}, have'[h] PROVE buf'[h] = SectorAt(fil, have_sec'[h])
  <2>1. CASE h = w
    BY <1>1, <1>5, <1>7, <2>1 DEF LeaseInv
  <2>2. CASE h # w
    BY <1>6, <1>7, <2>2 DEF BufInv
  <2> QED BY <2>1, <2>2
<1>8. fil' = fil /\ spoilt' = spoilt /\ size' = size
  BY <1>3
<1> QED BY <1>1, <1>5, <1>7, <1>8 DEF BufInv, SectorAt

LEMMA BufKept ==
  ASSUME FetchInv, LockInv, FileInv, LeaseInv, BufInv, [Next]_vars
  PROVE  BufInv'
<1>1. Half(want_sec) \in {0, 1} /\ DOMAIN buf = {0, 1}
  BY WantedHalf DEF BufInv
<1>2. ASSUME UNCHANGED fetchVars, spoilt' = spoilt, size # 0 => fil' = fil, path = "moving" <=> path' = "moving"
      PROVE  BufInv'
  BY <1>1, <1>2, SameBuf DEF fetchVars, Half
<1>3. CASE Task
  <2>1. UNCHANGED <<size, have, have_sec, want_sec, fil, spoilt>>
    BY <1>3 DEF Task, Arrive, tapeVars, fetchVars, osdVars
  <2>2. CASE path = "shown" /\ path' = "moving"
    <3>1. buf' = [buf EXCEPT ![Half(want_sec)] = Blank]
      BY <1>3, <2>2 DEF Task, Arrive
    <3>2. DOMAIN buf' = {0, 1} /\ \A h \in {0, 1} : h # Half(want_sec) => buf'[h] = buf[h]
      BY <1>1, <3>1
    <3>3. Half(want_sec)' = Half(want_sec)
      BY <2>1 DEF Half
    <3> QED BY <2>1, <2>2, <3>2, <3>3, SameBuf
  <2>3. CASE ~(path = "shown" /\ path' = "moving")
    <3>1. UNCHANGED tapeVars /\ path' = path
      BY <1>3, <2>3
      DEF Task, Serves, SvcTask, TaskWakes, TaskReadsRequest, TaskLocks, TaskStarts, TaskEnds, TaskTraps
    <3> QED BY <1>2, <2>1, <3>1 DEF tapeVars
  <2> QED BY <2>2, <2>3
<1>4. CASE Fpga
  <2>1. UNCHANGED <<fil, spoilt>>
    BY <1>4 DEF Fpga, osdVars
  <2>2. CASE Asks \/ Grants
    <3>1. UNCHANGED <<size, have, have_sec, buf>>
      BY <2>2 DEF Asks, Fetches, Grants, Acked
    <3>2. path # "moving" /\ path' # "moving"
      BY <2>2 DEF Asks, Fetches, Grants, SvcGrants, svcVars, LeaseInv
    <3> QED BY <1>1, <2>1, <3>1, <3>2, SameBuf
  <2>3. CASE TransferEnds
    BY <2>1, <2>3, TransferKeepsBuf
  <2> QED BY <1>4, <2>2, <2>3 DEF Fpga
<1>5. CASE Player \/ UNCHANGED vars
  BY <1>2, <1>5 DEF Player, Plays, Paused, vars, tapeVars, svcVars, osdVars
<1>6. ASSUME have' = [h \in {0, 1} |-> FALSE], DOMAIN buf' = {0, 1} PROVE BufInv'
  BY <1>6 DEF BufInv
<1>7. ASSUME NEW s, Mounts(s) PROVE BufInv'
  <2>1. have' = [h \in {0, 1} |-> FALSE] /\ buf' = [h \in {0, 1} |-> Blank]
    BY <1>7 DEF Mounts, TapeMount, Forgets
  <2> QED BY <1>6, <2>1
<1>8. ASSUME ReadsCard, fil' = fil \/ size = 0 PROVE BufInv'
  <2>1. CASE UNCHANGED <<fetchVars, spoilt, path, psector, is_wr>>
    BY <1>2, <1>8, <2>1
  <2>2. CASE SvcTearsLease /\ Done(buf[Half(want_sec)]) /\ spoilt' = fetching
    <3>1. fetching
      BY <2>2 DEF SvcTearsLease, LeaseInv
    <3>2. spoilt' /\ DOMAIN buf' = {0, 1}
      BY <1>1, <2>2, <3>1 DEF Done
    <3> QED BY <3>2 DEF BufInv
  <2> QED BY <1>8, <2>1, <2>2, CardLeavesSize
<1>9. CASE Works
  <2>1. CASE OpenReads /\ ReadsCard
    <3>1. fil' = fil \/ size = 0
      BY <2>1 DEF OpenReads, From, FileInv, Opening, SameImage
    <3> QED BY <1>8, <2>1, <3>1
  <2>2. CASE OsdGoesOn /\ UNCHANGED <<tapeVars, spoilt>>
    BY <1>2, <2>2 DEF OsdGoesOn, Locks, OpenEnds, SamePath, SameImage, tapeVars
  <2> QED BY <1>7, <1>9, <2>1, <2>2 DEF Works
<1>10. CASE User
  <2>1. CASE /\ (\E i \in Images \cup {NoImage} : Picks(i)) \/ WantsTo("readLock") \/ ReadEnds
             /\ UNCHANGED <<tapeVars, spoilt>>
    BY <1>2, <2>1 DEF Picks, WantsTo, ReadEnds, SamePath, SameImage, tapeVars
  <2>2. CASE (OpenFails \/ Reads) /\ ReadsCard
    <3>1. fil' = fil \/ size = 0
      BY <2>2 DEF OpenFails, Reads, From, FileInv, Opening, SameImage
    <3> QED BY <1>8, <2>2, <3>1
  <2>3. CASE RewindOn
    <3>1. have' = [h \in {0, 1} |-> FALSE] /\ buf' = buf
      BY <2>3 DEF RewindOn
    <3> QED BY <1>1, <1>6, <3>1
  <2>4. CASE /\ RewindOff \/ (~play /\ Pauses(TRUE)) \/ (~spoilt /\ play /\ Pauses(FALSE) /\ spoilt' = Comparing)
             /\ UNCHANGED <<svcVars, osdVars>> /\ (spoilt' = spoilt \/ (~spoilt /\ spoilt' = Comparing))
    <3>1. ~spoilt' => ~spoilt
      BY <2>4
    <3>2. UNCHANGED <<fetchVars, path, fil>>
      BY <2>4 DEF RewindOff, Pauses, svcVars, osdVars
    <3> QED BY <1>1, <3>1, <3>2, SameBuf DEF fetchVars, Half
  <2> QED BY <1>10, <2>1, <2>2, <2>3, <2>4 DEF User
<1> QED BY <1>3, <1>4, <1>5, <1>9, <1>10 DEF Next

-----------------------------------------------------------------------------
(* Sectors, and the headers' places in them. *)
LEMMA ProductGap ==
  ASSUME NEW m \in Nat, NEW n \in Nat, NEW d \in Nat, m < n
  PROVE  m * d + d <= n * d
<1>1. PICK k \in Nat : n = m + 1 + k
  <2>1. n - m - 1 \in Nat /\ n = m + 1 + (n - m - 1)
    OBVIOUS
  <2> QED BY <2>1
<1>2. n * d = m * d + d + k * d /\ k * d \in Nat
  BY <1>1
<1> QED BY <1>2

LEMMA Divided ==
  ASSUME NEW n \in Nat, NEW d \in Nat \ {0}
  PROVE  n \div d \in Nat /\ n % d \in 0 .. d - 1 /\ (n \div d) * d \in Nat /\ n = (n \div d) * d + (n % d)
OBVIOUS

LEMMA QuotientIs ==
  ASSUME NEW d \in Nat \ {0}, NEW q \in Nat, NEW r \in 0 .. d - 1
  PROVE  (q * d + r) \div d = q /\ (q * d + r) % d = r
<1> DEFINE n == q * d + r
           p == n \div d
<1>1. n \in Nat /\ q * d \in Nat
  OBVIOUS
<1>2. p \in Nat /\ n % d \in 0 .. d - 1 /\ p * d \in Nat /\ n = p * d + (n % d)
  BY <1>1, Divided
<1> HIDE DEF p
<1>3. ~(p < q)
  BY <1>1, <1>2, ProductGap
<1>4. ~(q < p)
  BY <1>1, <1>2, ProductGap
<1>5. p = q
  BY <1>2, <1>3, <1>4
<1> QED BY <1>1, <1>2, <1>5 DEF p

LEMMA QuotientGrows ==
  ASSUME NEW m \in Nat, NEW n \in Nat, NEW d \in Nat \ {0}, m <= n
  PROVE  m \div d <= n \div d
<1> DEFINE p == m \div d
           q == n \div d
<1>1. /\ p \in Nat /\ m % d \in 0 .. d - 1 /\ p * d \in Nat /\ m = p * d + (m % d)
      /\ q \in Nat /\ n % d \in 0 .. d - 1 /\ q * d \in Nat /\ n = q * d + (n % d)
  BY Divided
<1> HIDE DEF p, q
<1>2. ~(q < p)
  BY <1>1, ProductGap
<1> QED BY <1>1, <1>2 DEF p, q

(* What is left of a multiple of h, in another, is one too. *)
LEMMA MultipleOf ==
  ASSUME NEW a \in Nat, NEW b \in Nat, NEW h \in Nat, NEW q \in Nat,
         NEW r \in Nat, a * h = q * (b * h) + r, r < b * h
  PROVE  r + h <= b * h
<1>1. q * (b * h) = (q * b) * h /\ q * b \in Nat
  OBVIOUS
<1>2. CASE a < q * b
  <2>1. a * h + h <= (q * b) * h
    BY <1>1, <1>2, ProductGap
  <2>2. a * h \in Nat /\ (q * b) * h \in Nat
    BY <1>1
  <2>3. h = 0
    BY <1>1, <2>1, <2>2
  <2> QED BY <2>3
<1>3. CASE ~(a < q * b)
  <2>1. PICK k \in Nat : a = q * b + k
    <3>1. a - q * b \in Nat /\ a = q * b + (a - q * b)
      BY <1>1, <1>3
    <3> QED BY <3>1
  <2>2. a * h = (q * b) * h + k * h
    BY <1>1, <2>1
  <2>3. r = k * h
    <3>1. (q * b) * h \in Nat /\ k * h \in Nat
      BY <1>1, <2>1
    <3> QED BY <1>1, <2>2, <3>1
  <2>4. k < b
    <3>1. CASE b < k
      <4>1. b * h + h <= k * h /\ b * h \in Nat /\ k * h \in Nat
        BY <2>1, <3>1, ProductGap
      <4> QED BY <2>3, <4>1
    <3>2. b # k
      BY <2>3
    <3> QED BY <2>1, <3>1, <3>2
  <2> QED BY <2>1, <2>3, <2>4, ProductGap
<1> QED BY <1>2, <1>3

(* The bytes of a place where a header may be are in one sector. *)
LEMMA HeaderInSector ==
  ASSUME NEW p \in Nat, p % HeaderBytes = 0, NEW c \in 0 .. HeaderBytes - 1
  PROVE  (p + c) \div SectorBytes = p \div SectorBytes
<1> DEFINE h == HeaderBytes
           s == SectorBytes
           a == p \div h
           b == s \div h
           q == p \div s
           r == p % s
<1>1. h \in Nat \ {0} /\ s \in Nat \ {0} /\ s % h = 0
  BY HeaderLength, TapeAssumption
<1>2. a \in Nat /\ p = a * h /\ b \in Nat /\ s = b * h
  BY <1>1, Divided
<1>3. q \in Nat /\ r \in 0 .. s - 1 /\ p = q * s + r /\ q * s \in Nat
  BY <1>1, Divided
<1> HIDE DEF a, b, q, r, h, s
<1>4. r + h <= s
  <2>1. r \in Nat /\ h \in Nat /\ a * h = q * (b * h) + r /\ r < b * h
    BY <1>1, <1>2, <1>3
  <2>2. r + h <= b * h
    BY <1>2, <1>3, <2>1, MultipleOf
  <2> QED BY <1>2, <2>2
<1>5. r + c \in 0 .. s - 1 /\ p + c = q * s + (r + c)
  BY <1>1, <1>3, <1>4 DEF h
<1>6. (q * s + (r + c)) \div s = q
  BY <1>1, <1>3, <1>5, QuotientIs
<1> QED BY <1>5, <1>6 DEF q, s

-----------------------------------------------------------------------------
(* What the buffer holds of the sector at hand, and the byte that is read. *)
LEMMA HalfIsRight ==
  ASSUME FetchInv, FileInv, LeaseInv, BufInv, Holds(cur_sec), size # 0, ~spoilt
  PROVE  buf[Half(cur_sec)] = SectorAt(fil, cur_sec)
<1>1. cur_sec \in Nat
  BY CurSec
<1>2. Half(cur_sec) \in {0, 1}
  BY <1>1, HalfOf DEF Half
<1>3. ~(path = "moving" /\ Half(want_sec) = Half(cur_sec))
  <2> SUFFICES ASSUME path = "moving" PROVE Half(want_sec) # Half(cur_sec)
    OBVIOUS
  <2>1. fetching
    BY DEF LeaseInv
  <2> QED BY <2>1, HalvesApart
<1> QED BY <1>2, <1>3 DEF BufInv, Holds

LEMMA ByteOfSector ==
  ASSUME NEW i \in Images, NEW p \in 0 .. Size(i) - 1, NEW o \in Nat,
         o \div SectorBytes = p \div SectorBytes
  PROVE  ByteAt(SectorAt(i, p \div SectorBytes), o % SectorBytes)
           = IF o < Size(i) THEN File[i][o + 1] ELSE NoByte
<1> DEFINE s == p \div SectorBytes
           r == o % SectorBytes
<1>1. SectorBytes \in Nat \ {0} /\ Size(i) \in Nat /\ MaxSize \in Nat /\ Size(i) <= MaxSize
  BY TapeAssumption, DeckAssumption, FileFacts
<1>2. p \in Nat /\ s \in Nat /\ p % SectorBytes \in Nat /\ s * SectorBytes \in Nat
      /\ p = s * SectorBytes + (p % SectorBytes)
  <2>1. p \in Nat
    BY <1>1
  <2>2. /\ s \in Nat /\ p % SectorBytes \in 0 .. SectorBytes - 1 /\ s * SectorBytes \in Nat
        /\ p = s * SectorBytes + (p % SectorBytes)
    BY <1>1, <2>1, Divided, Zenon
  <2> HIDE DEF s
  <2>3. p % SectorBytes \in Nat
    BY <1>1, <2>2
  <2> QED BY <2>1, <2>2, <2>3
<1>3. r \in 0 .. SectorBytes - 1 /\ o = s * SectorBytes + r
  BY <1>1, Divided
<1>4. s * SectorBytes < Size(i)
  BY <1>1, <1>2
<1>5. s \in Sector
  <2>1. s <= MaxSize \div SectorBytes
    BY <1>1, <1>2, QuotientGrows
  <2>2. MaxSize \div SectorBytes \in Nat
    BY <1>1, Divided
  <2> QED BY <1>2, <2>1, <2>2 DEF Sector
<1> HIDE DEF s, r
<1>6. SectorAt(i, s) = <<i, s>> /\ <<i, s>> \in Contents /\ <<i, s>> # Blank
  BY <1>4, <1>5, DeckAssumption DEF SectorAt, Contents
<1>7. ByteAt(<<i, s>>, r) = FileByte(<<i, s>>, r)
  BY <1>3, <1>6, DeckAssumption
<1>8. FileByte(<<i, s>>, r) = IF s * SectorBytes + r >= Size(i) THEN NoByte ELSE File[i][s * SectorBytes + r + 1]
  BY <1>6 DEF FileByte
<1>9. o \in Nat /\ s * SectorBytes + r = o
  BY <1>3
<1>10. ByteAt(SectorAt(i, s), r) = IF o < Size(i) THEN File[i][o + 1] ELSE NoByte
  BY <1>1, <1>6, <1>7, <1>8, <1>9
<1> QED BY <1>10 DEF s, r

(* The byte that is read is the one of the file, and of a header that is   *)
(* compared each in turn.                                                  *)
LEMMA ReadsFile ==
  ASSUME FetchInv, FileInv, LeaseInv, BufInv, Holds(cur_sec), size # 0, ~spoilt,
         pos < size, ReadsByte
  PROVE  /\ pstate # "cmp" => rbyte' = FileAt(pos)
         /\ pstate = "cmp" /\ pos % HeaderBytes = 0 /\ cmp_i \in 0 .. HeaderBytes - 1 =>
              rbyte' = FileAt(pos + cmp_i)
<1>1. fil \in Images /\ size = Size(fil) /\ size \in Nat /\ pos \in 0 .. Size(fil) - 1
  BY FileFacts DEF FileInv, FetchInv
<1>2. rbyte' = ByteAt(SectorAt(fil, pos \div SectorBytes), rd_adr % SectorBytes)
  BY HalfIsRight DEF ReadsByte, cur_sec
<1>3. ASSUME NEW o \in Nat, o \div SectorBytes = pos \div SectorBytes, rd_adr = o
      PROVE  rbyte' = FileAt(o)
  BY <1>1, <1>2, <1>3, ByteOfSector DEF FileAt
<1>4. CASE pstate # "cmp"
  BY <1>1, <1>3, <1>4 DEF rd_adr
<1>5. CASE pstate = "cmp" /\ pos % HeaderBytes = 0 /\ cmp_i \in 0 .. HeaderBytes - 1
  <2>1. cmp_i \in Nat /\ pos \in Nat
    BY <1>1, <1>5, HeaderLength
  <2>2. rd_adr = pos + cmp_i
    BY <1>5, <2>1 DEF rd_adr
  <2>3. (pos + cmp_i) \div SectorBytes = pos \div SectorBytes
    BY <1>1, <1>5, <2>1, HeaderInSector
  <2> QED BY <1>3, <1>5, <2>1, <2>2, <2>3
<1> QED BY <1>4, <1>5

-----------------------------------------------------------------------------
(* A header is what matches to its last byte, which is in the file. *)
LEMMA HeaderMatches ==
  ASSUME NEW i \in Images, i = fil, size = Size(i), pos \in Nat, pos % HeaderBytes = 0, pos < size
  PROVE  IsHeader(fil, pos) <=> Matches(HeaderBytes - 1) /\ FileAt(pos + HeaderBytes - 1) = Magic[HeaderBytes]
<1> DEFINE h == HeaderBytes
<1>1. h \in Nat /\ h > 0 /\ Len(Magic) = h /\ Magic \in Seq(Byte) /\ size \in Nat /\ File[i] \in Seq(Byte)
      /\ Len(File[i]) = size
  BY HeaderLength, FileFacts, TapeAssumption DEF HeaderBytes, Byte, Size
<1> HIDE DEF h
<1>2. Matches(h - 1) /\ FileAt(pos + h - 1) = Magic[h] <=> Matches(h)
  BY <1>1 DEF Matches
<1>3. CASE pos + h > size
  <2>1. FileAt(pos + h - 1) = NoByte
    BY <1>1, <1>3 DEF FileAt
  <2>2. Magic[h] # NoByte
    BY DeckAssumption DEF h
  <2> QED BY <1>1, <1>3, <2>1, <2>2 DEF IsHeader, h
<1>4. CASE pos + h <= size
  <2> DEFINE t == SubSeq(File[i], pos + 1, pos + h)
  <2>1. \A k \in pos + 1 .. pos + h : File[i][k] \in Byte
    BY <1>1, <1>4, ElementOfSeq
  <2>2. /\ t \in Seq(Byte) /\ Len(t) = h /\ \A j \in 1 .. h : t[j] = File[i][pos + j]
    <3>1. pos + 1 \in Int /\ pos + h \in Int /\ pos + 1 <= pos + h /\ (pos + h) - (pos + 1) + 1 = h
      BY <1>1
    <3>2. /\ t \in Seq(Byte) /\ Len(t) = (pos + h) - (pos + 1) + 1
          /\ \A j \in 1 .. (pos + h) - (pos + 1) + 1 : t[j] = File[i][pos + 1 + j - 1]
      BY <2>1, <3>1, SubSeqProperties
    <3> QED BY <1>1, <3>1, <3>2
  <2>3. \A j \in 1 .. h : FileAt(pos + j - 1) = File[i][pos + j]
    BY <1>1, <1>4 DEF FileAt
  <2>4. t = Magic <=> \A j \in 1 .. h : t[j] = Magic[j]
    <3> HIDE DEF t
    <3> QED BY <1>1, <2>2, SeqEqual
  <2>5. t = Magic <=> Matches(h)
    BY <2>2, <2>3, <2>4 DEF Matches
  <2> QED BY <1>1, <1>2, <1>4, <2>5 DEF IsHeader, h
<1> QED BY <1>1, <1>3, <1>4

-----------------------------------------------------------------------------
(* The steps of the player, with a file and its sector at hand. *)
AtHand == go /\ fil \in Images /\ size = Size(fil) /\ size \in Nat /\ pos \in 0 .. size - 1
SameFile == UNCHANGED <<fetchVars, rewind, play, fil>>

LEMMA SameAtHand ==
  ASSUME AtHand, SameFile
  PROVE  /\ UNCHANGED <<size, fil, rewind, play>> /\ ~rewind /\ play /\ Holds(cur_sec) /\ pos < size
         /\ \A p : FileAt(p)' = FileAt(p')
         /\ \A s : Holds(s)' = Holds(s')
         /\ \A q \in 0 .. size : RecordedFrom(fil)[q] = Says(fil, q, RecordedFrom(fil))
         /\ \A q \in 0 .. size : RecordedFrom(fil)[q] \in Seq(Items)
BY RecordedAt DEF AtHand, SameFile, go, fetchVars, FileAt, Holds, Half

(* Nothing is said. *)
LEMMA SilentStep ==
  ASSUME AtHand, SameFile, TellInv, UNCHANGED <<pos, heard>>, pstate' \in PStates,
         pstate \in {"silence", "header"} <=> pstate' \in {"silence", "header"}
  PROVE  SaysInv'
BY SameAtHand DEF TellInv, SaysInv, Ahead, Recorded

LEMMA StartsTells ==
  ASSUME AtHand, SameFile, TellInv, Starts
  PROVE  TellInv'
<1>1. SaysInv'
  BY SilentStep DEF Starts, PStates
<1> QED BY <1>1 DEF TellInv, CompareInv, FrameInv, Starts

LEMMA LookTells ==
  ASSUME AtHand, SameFile, TellInv, Look, rbyte' = FileAt(pos)
  PROVE  TellInv'
<1>1. SaysInv'
  BY SilentStep DEF Look, PStates
<1>2. FrameInv'
  BY DEF TellInv, FrameInv, Look
<1>3. UNCHANGED <<pos, size, fil, play>> /\ play /\ pos < size /\ Holds(cur_sec)' /\ FileAt(pos)' = FileAt(pos)
  BY SameAtHand DEF Look, cur_sec, FileAt
<1>4. HeaderBytes \in Nat /\ HeaderBytes > 0
  BY HeaderLength
<1>5. CASE pos % HeaderBytes = 0
  <2>1. pstate' = "cmp" /\ cmp_i' = 0 /\ is_hdr' = TRUE
    BY <1>5 DEF Look
  <2>2. Matches(0 - 1)'
    BY DEF Matches
  <2> QED BY <1>1, <1>2, <1>3, <1>4, <1>5, <2>1, <2>2 DEF TellInv, CompareInv
<1>6. CASE pos % HeaderBytes # 0
  BY <1>1, <1>2, <1>3, <1>6 DEF TellInv, CompareInv, Look, IsHeader
<1> QED BY <1>5, <1>6

LEMMA CompareTells ==
  ASSUME AtHand, SameFile, TellInv, Compare,
         pos % HeaderBytes = 0 /\ cmp_i \in 0 .. HeaderBytes - 1 => rbyte' = FileAt(pos + cmp_i)
  PROVE  TellInv'
<1>1. SaysInv'
  BY SilentStep DEF Compare, PStates
<1>2. FrameInv'
  BY DEF TellInv, FrameInv, Compare
<1>3. /\ UNCHANGED <<pos, size, fil, play>> /\ play /\ pos < size /\ Holds(cur_sec)'
      /\ \A p : FileAt(p)' = FileAt(p')
  BY SameAtHand DEF Compare, cur_sec
<1>4. HeaderBytes \in Nat /\ HeaderBytes > 0 /\ pos \in Nat
  BY HeaderLength DEF AtHand
<1>5. /\ pos % HeaderBytes = 0 /\ is_hdr \in BOOLEAN /\ cmp_i \in 0 .. HeaderBytes - 1
      /\ cmp_i > 0 => rbyte = FileAt(pos + cmp_i - 1)
      /\ is_hdr <=> Matches(cmp_i - 1)
  BY DEF TellInv, CompareInv, Compare
<1>6. is_hdr' <=> Matches(cmp_i)
  <2>1. is_hdr' <=> is_hdr /\ (cmp_i = 0 \/ rbyte = Magic[cmp_i])
    BY DEF Compare
  <2>2. CASE cmp_i = 0
    <3>1. Matches(cmp_i - 1) /\ Matches(cmp_i)
      BY <2>2 DEF Matches
    <3> QED BY <1>5, <2>1, <2>2, <3>1, Zenon
  <2>3. CASE cmp_i > 0
    <3>1. Matches(cmp_i) <=> Matches(cmp_i - 1) /\ FileAt(pos + cmp_i - 1) = Magic[cmp_i]
      BY <1>4, <1>5, <2>3 DEF Matches
    <3>2. cmp_i # 0 /\ rbyte = FileAt(pos + cmp_i - 1)
      BY <1>4, <1>5, <2>3
    <3> QED BY <1>5, <2>1, <3>1, <3>2, Zenon
  <2> QED BY <1>4, <1>5, <2>2, <2>3
<1>7. \A n : Matches(n)' <=> Matches(n')
  BY <1>3, SameAtHand DEF Matches, FileAt
<1>8. is_hdr' \in BOOLEAN /\ rbyte' = FileAt(pos + cmp_i)
  BY <1>5 DEF Compare
<1>9. CASE cmp_i = HeaderBytes - 1
  <2>1. pstate' = "next"
    BY <1>9 DEF Compare
  <2>2. FileAt(pos + HeaderBytes - 1)' = rbyte' /\ (Matches(HeaderBytes - 1)' <=> is_hdr')
    BY <1>3, <1>4, <1>6, <1>8, <1>9 DEF Matches, FileAt
  <2> QED BY <1>1, <1>2, <1>3, <1>5, <1>8, <2>1, <2>2 DEF TellInv, CompareInv
<1>10. CASE cmp_i # HeaderBytes - 1
  <2>1. pstate' = "cmp" /\ cmp_i' = cmp_i + 1
    BY <1>10 DEF Compare
  <2>2. cmp_i' \in 0 .. HeaderBytes - 1 /\ cmp_i' - 1 = cmp_i /\ pos + cmp_i' - 1 = pos + cmp_i
    BY <1>4, <1>5, <1>10, <2>1
  <2>3. FileAt(pos + cmp_i - 1)' = rbyte' /\ (Matches(cmp_i - 1)' <=> is_hdr')
    BY <1>3, <1>6, <1>8, <2>2 DEF Matches, FileAt
  <2> QED BY <1>1, <1>2, <1>3, <1>5, <1>8, <2>1, <2>2, <2>3 DEF TellInv, CompareInv
<1> QED BY <1>9, <1>10

(* What is left to say: a tone and what follows the header, ... *)
LEMMA AfterHeader ==
  ASSUME AtHand, IsHeader(fil, pos)
  PROVE  /\ pos + HeaderBytes \in 0 .. size
         /\ RecordedFrom(fil)[pos] = IF pos + HeaderBytes < size
              THEN <<Tone>> \o RecordedFrom(fil)[pos + HeaderBytes]
              ELSE RecordedFrom(fil)[pos + HeaderBytes]
<1> DEFINE R == RecordedFrom(fil)
<1>1. /\ pos + HeaderBytes \in 0 .. size /\ pos \in 0 .. size /\ pos # size /\ fil \in Images
      /\ size \in Nat /\ size = Size(fil)
  BY HeaderLength DEF IsHeader, AtHand
<1>2. R[pos] = Says(fil, pos, R)
  BY <1>1, RecordedAt
<1>3. R[size] = <<>>
  <2>1. size \in 0 .. Size(fil) /\ R[size] = Says(fil, size, R)
    BY <1>1, RecordedAt
  <2> QED BY <1>1, <2>1 DEF Says
<1>4. HeaderBytes \in Nat
  BY HeaderLength
<1> HIDE DEF R
<1>5. CASE pos + HeaderBytes = size
  BY <1>1, <1>2, <1>3, <1>5 DEF Says, R
<1>6. CASE pos + HeaderBytes # size
  <2>1. pos + HeaderBytes < size
    BY <1>1, <1>4, <1>6 DEF AtHand
  <2>2. R[pos] = <<Tone>> \o R[pos + HeaderBytes]
    BY <1>1, <1>2, <1>6 DEF Says
  <2> QED BY <1>1, <2>1, <2>2 DEF R
<1> QED BY <1>5, <1>6

(* ... or the byte and what follows it. *)
LEMMA AfterByte ==
  ASSUME AtHand, ~IsHeader(fil, pos)
  PROVE  /\ RecordedFrom(fil)[pos] = <<Framed(FileAt(pos))>> \o RecordedFrom(fil)[pos + 1]
         /\ pos + 1 \in 0 .. size /\ FileAt(pos) \in Byte
<1> DEFINE R == RecordedFrom(fil)
<1>1. /\ pos + 1 \in 0 .. size /\ pos \in 0 .. size /\ pos # size /\ fil \in Images
      /\ size = Size(fil) /\ pos \in 0 .. Size(fil) - 1
  BY DEF AtHand
<1>2. R[pos] = Says(fil, pos, R)
  BY <1>1, RecordedAt
<1>3. FileAt(pos) = File[fil][pos + 1] /\ FileAt(pos) \in Byte
  BY <1>1, FileFacts DEF FileAt, AtHand
<1> QED BY <1>1, <1>2, <1>3 DEF Says

(* An item that is said is the first of what was left. *)
LEMMA ItemSaid ==
  ASSUME NEW s \in Seq(Items), NEW x \in Items, NEW t \in Seq(Items)
  PROVE  Append(s, x) \in Seq(Items) /\ Append(s, x) \o t = s \o (<<x>> \o t)
<1>1. <<x>> \in Seq(Items)
  OBVIOUS
<1>2. Append(s, x) = s \o <<x>>
  BY AppendIsConcat
<1> QED BY <1>1, <1>2, ConcatAssociative, ConcatProperties

LEMMA CompareLastTells ==
  ASSUME AtHand, SameFile, TellInv, CompareLast, rbyte' = FileAt(pos)
  PROVE  TellInv'
<1>1. FrameInv'
  BY DEF TellInv, FrameInv, CompareLast
<1>2. /\ pos \in Nat /\ pos % HeaderBytes = 0 /\ pos < size /\ fil \in Images /\ size = Size(fil)
      /\ is_hdr \in BOOLEAN /\ rbyte = FileAt(pos + HeaderBytes - 1)
      /\ is_hdr <=> Matches(HeaderBytes - 1)
  BY DEF TellInv, CompareInv, CompareLast, AtHand
<1>3. is_hdr /\ rbyte = Magic[HeaderBytes] <=> IsHeader(fil, pos)
  BY <1>2, HeaderMatches, Zenon
<1>4. CASE IsHeader(fil, pos)
  <2>1. pstate' = "silence" /\ pos' = pos + HeaderBytes /\ heard' = heard
    BY <1>3, <1>4 DEF CompareLast
  <2>2. UNCHANGED <<size, fil, rewind>> /\ ~rewind
    BY SameAtHand
  <2>3. Ahead' = RecordedFrom(fil)[pos]
    BY <1>4, <2>1, <2>2, AfterHeader DEF Ahead
  <2>4. Ahead = RecordedFrom(fil)[pos]
    BY DEF Ahead, CompareLast
  <2>5. SaysInv'
    BY <1>4, <2>1, <2>2, <2>3, <2>4, AfterHeader DEF TellInv, SaysInv, PStates
  <2> QED BY <1>1, <2>1, <2>5 DEF TellInv, CompareInv
<1>5. CASE ~IsHeader(fil, pos)
  <2>1. pstate' = "byte" /\ UNCHANGED <<pos, heard>>
    BY <1>3, <1>5 DEF CompareLast
  <2>2. SaysInv'
    BY <2>1, SilentStep DEF PStates, CompareLast
  <2>3. UNCHANGED <<size, fil, rewind>> /\ Holds(cur_sec)' /\ pos < size /\ FileAt(pos)' = FileAt(pos)
    BY <2>1, SameAtHand DEF cur_sec
  <2> QED BY <1>1, <1>5, <2>1, <2>2, <2>3 DEF TellInv, CompareInv
<1> QED BY <1>4, <1>5

LEMMA HeaderTells ==
  ASSUME AtHand, SameFile, TellInv, Silence \/ Header
  PROVE  TellInv'
<1>1. FrameInv' /\ CompareInv'
  BY DEF TellInv, FrameInv, CompareInv, Silence, Header
<1>2. CASE UNCHANGED heard
  <2>1. SaysInv'
    BY <1>2, SilentStep DEF Silence, Header, PStates, TellInv, SaysInv
  <2> QED BY <1>1, <2>1 DEF TellInv
<1>3. CASE pstate = "header" /\ pstate' = "look" /\ heard' = Append(heard, Tone) /\ pos' = pos
  <2>1. UNCHANGED <<size, fil, rewind>> /\ ~rewind /\ pos < size /\ pos \in 0 .. size
    BY SameAtHand DEF AtHand
  <2> DEFINE rest == RecordedFrom(fil)[pos]
  <2>2. Ahead = <<Tone>> \o rest /\ Ahead' = rest
    BY <1>3, <2>1 DEF Ahead
  <2>3. rest \in Seq(Items) /\ heard \in Seq(Items) /\ Tone \in Items
    BY <2>1, SameAtHand DEF TellInv, SaysInv, Items, Tone
  <2> HIDE DEF rest
  <2>4. heard' \in Seq(Items) /\ heard' \o rest = heard \o (<<Tone>> \o rest)
    BY <1>3, <2>3, ItemSaid
  <2>5. SaysInv'
    BY <1>3, <2>1, <2>2, <2>4 DEF TellInv, SaysInv, PStates, Items, Recorded
  <2> QED BY <1>1, <2>5 DEF TellInv
<1> QED BY <1>2, <1>3 DEF Silence, Header

LEMMA BeginsTells ==
  ASSUME AtHand, SameFile, TellInv, BeginsByte
  PROVE  TellInv'
<1>1. SaysInv'
  BY SilentStep DEF BeginsByte, PStates
<1>2. /\ UNCHANGED <<pos, size, fil, frame>> /\ pos < size /\ FileAt(pos)' = FileAt(pos)
      /\ pstate' = "bit" /\ cur' = FileAt(pos) /\ bit_n' = 0 /\ bit_v' = 0 /\ frame = <<>>
      /\ ~IsHeader(fil, pos)
  BY SameAtHand DEF BeginsByte, StartBit, TellInv, CompareInv, FrameInv
<1>3. FileAt(pos) \in Byte /\ DataBits \in Nat
  BY <1>2, AfterByte, TapeAssumption
<1>4. Framed(FileAt(pos))[1] = 0 /\ LastBit \in Nat
  BY <1>3, FramedIs DEF LastBit
<1>5. FrameInv'
  BY <1>2, <1>4 DEF FrameInv
<1>6. CompareInv'
  BY <1>2 DEF CompareInv
<1> QED BY <1>1, <1>5, <1>6 DEF TellInv

LEMMA HalfTells ==
  ASSUME AtHand, SameFile, TellInv, HalfBit
  PROVE  TellInv'
<1>1. SaysInv'
  BY SilentStep DEF HalfBit, PStates
<1>2. UNCHANGED <<pos, size, fil, frame, cur, bit_n, bit_v, pstate>> /\ FileAt(pos)' = FileAt(pos)
  BY SameAtHand DEF HalfBit
<1>3. FrameInv'
  BY <1>2 DEF TellInv, FrameInv, HalfBit
<1>4. CompareInv'
  BY <1>2 DEF TellInv, CompareInv, HalfBit
<1> QED BY <1>1, <1>3, <1>4 DEF TellInv

LEMMA EndsTells ==
  ASSUME AtHand, SameFile, TellInv, EndsBit
  PROVE  TellInv'
<1>1. /\ cur = FileAt(pos) /\ bit_n \in 0 .. LastBit /\ frame \in Seq({0, 1}) /\ Len(frame) = bit_n
      /\ \A j \in 1 .. bit_n : frame[j] = Framed(cur)[j]
      /\ bit_v = Framed(cur)[bit_n + 1] /\ ~IsHeader(fil, pos) /\ pstate = "bit"
  BY DEF TellInv, FrameInv, CompareInv, EndsBit
<1>2. cur \in Byte /\ DataBits \in Nat /\ LastBit = DataBits + 2
  BY <1>1, AfterByte, TapeAssumption DEF LastBit
<1>3. /\ Framed(cur) \in Seq({0, 1}) /\ Len(Framed(cur)) = DataBits + 3
      /\ \A k \in 1 .. DataBits + 3 :
           Framed(cur)[k] = IF k = 1 THEN 0 ELSE IF k <= DataBits + 1 THEN cur[k - 1] ELSE 1
  BY <1>2, FramedIs DEF Items
<1>4. bit_v \in {0, 1}
  <2>1. bit_n + 1 \in 1 .. Len(Framed(cur))
    BY <1>1, <1>2, <1>3
  <2> QED BY <1>1, <1>3, <2>1, ElementOfSeq
<1> DEFINE next == Append(frame, bit_v)
<1>5. /\ next \in Seq({0, 1}) /\ Len(next) = bit_n + 1
      /\ \A j \in 1 .. bit_n + 1 : next[j] = Framed(cur)[j]
  <2>1. /\ next \in Seq({0, 1}) /\ Len(next) = Len(frame) + 1
        /\ \A j \in 1 .. Len(frame) : next[j] = frame[j]
        /\ next[Len(frame) + 1] = bit_v
    BY <1>1, <1>4, AppendProperties
  <2> HIDE DEF next
  <2> QED BY <1>1, <1>2, <2>1
<1> HIDE DEF next
<1>6. UNCHANGED <<size, fil, rewind>> /\ ~rewind /\ pos < size /\ \A p : FileAt(p)' = FileAt(p')
  BY SameAtHand
<1>7. CASE bit_n = LastBit
  <2>1. next = Framed(cur)
    BY <1>2, <1>3, <1>5, <1>7, SeqEqual
  <2>2. pos' = pos + 1 /\ pstate' = "look" /\ heard' = Append(heard, next) /\ frame' = <<>>
    BY <1>7 DEF EndsBit, next
  <2> DEFINE rest == RecordedFrom(fil)[pos + 1]
  <2>3. Ahead = <<next>> \o rest /\ pos + 1 \in 0 .. size
    BY <1>1, <2>1, AfterByte DEF Ahead
  <2>4. Ahead' = rest
    BY <1>6, <2>2 DEF Ahead
  <2>5. rest \in Seq(Items) /\ heard \in Seq(Items) /\ next \in Items
    BY <1>5, <2>3, SameAtHand DEF TellInv, SaysInv, Items
  <2> HIDE DEF rest
  <2>6. heard' \in Seq(Items) /\ heard' \o rest = heard \o (<<next>> \o rest)
    BY <2>2, <2>5, ItemSaid
  <2>7. SaysInv'
    BY <1>6, <2>2, <2>3, <2>4, <2>6 DEF TellInv, SaysInv, PStates, Items, Recorded
  <2> QED BY <2>2, <2>7 DEF TellInv, CompareInv, FrameInv
<1>8. CASE bit_n # LastBit
  <2>1. /\ bit_n' = bit_n + 1 /\ bit_v' = NextBit(bit_n) /\ frame' = next
        /\ UNCHANGED <<pos, pstate, heard, cur>>
    BY <1>8 DEF EndsBit, StartBit, next
  <2>2. SaysInv'
    BY <1>1, <2>1, SilentStep DEF PStates
  <2>3. NextBit(bit_n) = Framed(cur)[bit_n + 2]
    BY <1>1, <1>2, <1>3, <1>8 DEF NextBit
  <2>4. bit_n' \in 0 .. LastBit /\ bit_n' + 1 = bit_n + 2
    BY <1>1, <1>2, <1>8, <2>1
  <2>5. FrameInv'
    BY <1>1, <1>2, <1>5, <1>6, <2>1, <2>3, <2>4 DEF FrameInv
  <2>6. CompareInv'
    BY <1>1, <1>6, <2>1 DEF CompareInv
  <2> QED BY <2>2, <2>5, <2>6 DEF TellInv
<1> QED BY <1>7, <1>8

(* A step of the player, and what is kept of it while it is paused. *)
LEMMA PlayerTells ==
  ASSUME FetchInv, FileInv, LeaseInv, BufInv, PlayInv, Player
  PROVE  PlayInv'
<1>1. UNCHANGED <<fetchVars, rewind, play, fil, spoilt>> /\ ReadsByte
  BY DEF Player, Plays, Paused, osdVars
<1> SUFFICES ASSUME size # 0, ~spoilt PROVE TellInv'
  BY <1>1 DEF PlayInv, fetchVars
<1>2. fil \in Images /\ size = Size(fil) /\ size \in Nat /\ SameFile /\ TellInv /\ pos \in Nat
  BY <1>1, FileFacts DEF FileInv, FetchInv, SameFile, PlayInv
<1>3. ASSUME Holds(cur_sec), pos < size
      PROVE  /\ pstate # "cmp" => rbyte' = FileAt(pos)
             /\ pstate = "cmp" /\ pos % HeaderBytes = 0 /\ cmp_i \in 0 .. HeaderBytes - 1 =>
                  rbyte' = FileAt(pos + cmp_i)
  BY <1>1, <1>3, ReadsFile
<1>4. CASE Plays
  <2>1. AtHand /\ Holds(cur_sec) /\ pos < size
    BY <1>2, <1>4 DEF Plays, AtHand, go
  <2>2. CASE Starts
    BY <1>2, <2>1, <2>2, StartsTells
  <2>3. CASE Look
    BY <1>2, <1>3, <2>1, <2>3, LookTells DEF Look
  <2>4. CASE Compare
    BY <1>2, <1>3, <2>1, <2>4, CompareTells DEF Compare
  <2>5. CASE CompareLast
    BY <1>2, <1>3, <2>1, <2>5, CompareLastTells DEF CompareLast
  <2>6. CASE Silence \/ Header
    BY <1>2, <2>1, <2>6, HeaderTells
  <2>7. CASE BeginsByte
    BY <1>2, <2>1, <2>7, BeginsTells
  <2>8. CASE HalfBit
    BY <1>2, <2>1, <2>8, HalfTells
  <2>9. CASE EndsBit
    BY <1>2, <2>1, <2>9, EndsTells
  <2> QED BY <1>4, <2>2, <2>3, <2>4, <2>5, <2>6, <2>7, <2>8, <2>9 DEF Plays
<1>5. CASE Paused
  <2>1. UNCHANGED <<playVars, size, have, have_sec, rewind, play, fil>> /\ ~go
    BY <1>1, <1>5 DEF Paused, fetchVars
  <2>2. SaysInv' /\ FrameInv'
    BY <1>2, <2>1 DEF TellInv, SaysInv, FrameInv, Ahead, FileAt, playVars
  <2>3. pstate \notin {"cmp", "next"}
    BY <1>2, <2>1 DEF TellInv, CompareInv, SaysInv, go
  <2>4. pstate = "byte" => Holds(cur_sec) /\ pos < size /\ rbyte' = FileAt(pos)
    BY <1>2, <1>3 DEF TellInv, CompareInv
  <2>5. CompareInv'
    BY <1>2, <2>1, <2>3, <2>4 DEF TellInv, CompareInv, FileAt, Holds, Half, cur_sec, playVars
  <2> QED BY <2>2, <2>5 DEF TellInv
<1> QED BY <1>4, <1>5 DEF Player

(* The steps that leave the player where it is, ... *)
LEMMA SamePlayer ==
  ASSUME PlayInv, UNCHANGED <<playVars, rbyte, rewind, size>>, ~spoilt' => ~spoilt,
         size # 0 => fil' = fil,
         Holds(cur_sec) => Holds(cur_sec)',
         pstate \in {"cmp", "next"} /\ size # 0 /\ ~spoilt' => play' = play
  PROVE  PlayInv'
<1> SUFFICES ASSUME size # 0, ~spoilt' PROVE TellInv'
  BY DEF PlayInv
<1>1. TellInv /\ fil' = fil
  BY DEF PlayInv
<1>2. SaysInv' /\ FrameInv'
  BY <1>1 DEF TellInv, SaysInv, FrameInv, Ahead, FileAt, playVars
<1>3. CompareInv'
  BY <1>1 DEF TellInv, CompareInv, Matches, FileAt, playVars
<1> QED BY <1>2, <1>3 DEF TellInv

(* ... and those that take it back to the beginning. *)
LEMMA Begins ==
  ASSUME FileInv', Restarts
  PROVE  PlayInv'
<1> SUFFICES ASSUME size' # 0 PROVE TellInv'
  BY DEF PlayInv
<1>1. fil' \in Images /\ size' = Size(fil') /\ size' \in Nat
  BY FileFacts DEF FileInv
<1>2. pos' = 0 /\ pstate' = "idle" /\ heard' = <<>> /\ frame' = <<>>
  BY DEF Restarts
<1>3. 0 \in 0 .. Size(fil') /\ RecordedFrom(fil')[0] \in Seq(Items)
  BY <1>1, RecordedAt
<1>4. Recorded(fil') = <<>> \o RecordedFrom(fil')[0] /\ <<>> \in Seq(Seq({0, 1}))
  BY <1>3, ConcatEmptySeq DEF Recorded
<1>5. SaysInv'
  BY <1>1, <1>2, <1>4 DEF SaysInv, Ahead, PStates
<1> QED BY <1>2, <1>5 DEF TellInv, CompareInv, FrameInv

LEMMA TransferKeepsHolds ==
  ASSUME FetchInv, LeaseInv, TransferEnds
  PROVE  Holds(cur_sec) => Holds(cur_sec)'
<1> SUFFICES ASSUME Holds(cur_sec) PROVE Holds(cur_sec)'
  OBVIOUS
<1>1. fetching
  BY DEF TransferEnds, SvcEnds, LeaseInv
<1>2. Half(want_sec) # Half(cur_sec)
  BY <1>1, HalvesApart
<1>3. /\ \E b \in BOOLEAN : have' = [have EXCEPT ![Half(want_sec)] = b]
      /\ have_sec' = [have_sec EXCEPT ![Half(want_sec)] = want_sec] /\ pos' = pos
  BY <1>1 DEF TransferEnds, Done, playVars
<1>4. Half(cur_sec) \in {0, 1}
  BY CurSec, HalfOf DEF Half
<1>5. have'[Half(cur_sec)] = have[Half(cur_sec)] /\ have_sec'[Half(cur_sec)] = have_sec[Half(cur_sec)]
  BY <1>2, <1>3, <1>4 DEF FetchInv
<1> QED BY <1>3, <1>5 DEF Holds, Half, cur_sec

LEMMA CardTells ==
  ASSUME LeaseInv, FetchInv, PlayInv, ReadsCard, fil' = fil \/ size = 0
  PROVE  PlayInv'
<1>1. CASE UNCHANGED <<fetchVars, spoilt, path, psector, is_wr>>
  BY <1>1, CardLeavesSize, SamePlayer DEF fetchVars, Holds, Half, cur_sec, playVars
<1>2. CASE SvcTearsLease /\ Done(buf[Half(want_sec)]) /\ spoilt' = fetching
  <2>1. fetching
    BY <1>2 DEF SvcTearsLease, LeaseInv
  <2> QED BY <1>2, <2>1 DEF PlayInv
<1> QED BY <1>1, <1>2, CardLeavesSize

LEMMA PlayKept ==
  ASSUME FetchInv, LockInv, FileInv, FileInv', LeaseInv, BufInv, PlayInv, [Next]_vars
  PROVE  PlayInv'
<1>1. ASSUME UNCHANGED <<tapeVars, spoilt>>, size # 0 => fil' = fil
      PROVE  PlayInv'
  BY <1>1, SamePlayer DEF tapeVars, fetchVars, playVars, Holds, Half, cur_sec
<1>2. CASE Task
  <2>1. UNCHANGED <<fil, spoilt, size, have, have_sec, playVars, rbyte, rewind, play>>
    BY <1>2 DEF Task, Arrive, tapeVars, fetchVars, osdVars
  <2> QED BY <2>1, SamePlayer DEF playVars, Holds, Half, cur_sec
<1>3. CASE Fpga
  <2>1. UNCHANGED <<fil, spoilt, size, playVars, rbyte, rewind, play>>
    BY <1>3 DEF Fpga, Asks, Fetches, Grants, Acked, TransferEnds, Done, osdVars
  <2>2. CASE Asks \/ Grants
    <3>1. UNCHANGED <<have, have_sec>>
      BY <2>2 DEF Asks, Fetches, Grants, Acked
    <3> QED BY <2>1, <3>1, SamePlayer DEF playVars, Holds, Half, cur_sec
  <2>3. CASE TransferEnds
    BY <2>1, <2>3, TransferKeepsHolds, SamePlayer
  <2> QED BY <1>3, <2>2, <2>3 DEF Fpga
<1>4. CASE Player
  BY <1>4, PlayerTells
<1>5. CASE Works
  <2>1. ASSUME NEW s, Mounts(s) PROVE PlayInv'
    BY <2>1, Begins DEF Mounts, TapeMount
  <2>2. CASE OpenReads /\ ReadsCard
    <3>1. fil' = fil \/ size = 0
      BY <2>2 DEF OpenReads, From, FileInv, Opening, SameImage
    <3> QED BY <2>2, <3>1, CardTells
  <2>3. CASE OsdGoesOn /\ UNCHANGED <<tapeVars, spoilt>>
    BY <1>1, <2>3 DEF OsdGoesOn, Locks, OpenEnds, SameImage
  <2> QED BY <1>5, <2>1, <2>2, <2>3 DEF Works
<1>6. CASE User
  <2>1. CASE /\ (\E i \in Images \cup {NoImage} : Picks(i)) \/ WantsTo("readLock") \/ ReadEnds
             /\ UNCHANGED <<tapeVars, spoilt>>
    BY <1>1, <2>1 DEF Picks, WantsTo, ReadEnds, SameImage
  <2>2. CASE (OpenFails \/ Reads) /\ ReadsCard
    <3>1. fil' = fil \/ size = 0
      BY <2>2 DEF OpenFails, Reads, From, FileInv, Opening, SameImage
    <3> QED BY <2>2, <3>1, CardTells
  <2>3. CASE RewindOn
    BY <2>3, Begins DEF RewindOn
  <2>4. CASE RewindOff /\ UNCHANGED <<spoilt, osdVars>>
    <3>1. UNCHANGED <<fetchVars, play, playVars, rbyte, fil>> /\ rewind' = FALSE
      BY <2>4 DEF RewindOff, osdVars
    <3> SUFFICES ASSUME size # 0, ~spoilt PROVE TellInv'
      BY <2>4, <3>1 DEF PlayInv, fetchVars
    <3>2. TellInv
      BY DEF PlayInv
    <3>3. SaysInv' /\ FrameInv'
      BY <3>1, <3>2 DEF TellInv, SaysInv, FrameInv, Ahead, FileAt, playVars, fetchVars
    <3>4. CompareInv'
      BY <3>1, <3>2 DEF TellInv, CompareInv, Matches, FileAt, Holds, Half, cur_sec, playVars, fetchVars
    <3> QED BY <3>3, <3>4 DEF TellInv
  <2>5. CASE ~play /\ Pauses(TRUE) /\ UNCHANGED <<spoilt, osdVars>>
    <3>1. UNCHANGED <<fetchVars, rewind, playVars, rbyte, fil>>
      BY <2>5 DEF Pauses, osdVars
    <3>2. pstate \in {"cmp", "next"} /\ size # 0 /\ ~spoilt => play
      BY DEF PlayInv, TellInv, CompareInv
    <3> QED BY <2>5, <3>1, <3>2, SamePlayer DEF fetchVars, playVars, Holds, Half, cur_sec
  <2>6. CASE ~spoilt /\ Pauses(FALSE) /\ spoilt' = Comparing /\ UNCHANGED osdVars
    <3>1. UNCHANGED <<fetchVars, rewind, playVars, rbyte, fil>>
      BY <2>6 DEF Pauses, osdVars
    <3>2. ~(pstate \in {"cmp", "next"} /\ size # 0 /\ ~spoilt')
      BY <2>6 DEF Comparing
    <3> QED BY <2>6, <3>1, <3>2, SamePlayer DEF fetchVars, playVars, Holds, Half, cur_sec
  <2> QED BY <1>6, <2>1, <2>2, <2>3, <2>4, <2>5, <2>6 DEF User
<1>7. CASE UNCHANGED vars
  BY <1>1, <1>7 DEF vars, osdVars
<1> QED BY <1>2, <1>3, <1>4, <1>5, <1>6, <1>7 DEF Next

-----------------------------------------------------------------------------
(* All of it, in every step. *)
LEMMA DeckStarts == ASSUME Init PROVE DeckInv
<1>1. FetchInv
  BY FetchStarts
<1>2. /\ size = 0 /\ fetching = FALSE /\ path = "free" /\ task = "sleep" /\ sdc_sem = "free"
      /\ osd = "menu" /\ buf = [h \in {0, 1} |-> Blank]
  BY DEF Init, TapeInit, SvcInit, OsdInit
<1>3. LockInv /\ FileInv /\ LeaseInv /\ PlayInv
  BY <1>2 DEF LockInv, FileInv, Opening, LeaseInv, PlayInv
<1>4. BufInv
  BY <1>2 DEF BufInv
<1> QED BY <1>1, <1>3, <1>4 DEF DeckInv

LEMMA DeckKept == ASSUME DeckInv, [Next]_vars PROVE DeckInv'
<1>1. FetchInv' /\ LockInv' /\ FileInv' /\ BufInv'
  BY FetchKept, LockKept, FileKept, BufKept DEF DeckInv
<1>2. LeaseInv'
  BY TaskKeepsLease, FpgaKeepsLease, OsdKeepsLease DEF DeckInv, Next
<1>3. PlayInv'
  BY <1>1, PlayKept DEF DeckInv
<1> QED BY <1>1, <1>2, <1>3 DEF DeckInv

(* What is left to say is nothing at the end. *)
LEMMA DeckSays == ASSUME DeckInv PROVE TapeSaysFile
<1> SUFFICES ASSUME size # 0, ~spoilt
             PROVE  /\ fil \in Images /\ IsPrefix(heard, Recorded(fil))
                    /\ pos = size => heard = Recorded(fil)
  BY DEF TapeSaysFile
<1>1. fil \in Images /\ size = Size(fil) /\ size \in Nat /\ pos \in 0 .. size
      /\ heard \in Seq(Items) /\ Recorded(fil) = heard \o Ahead
  BY FileFacts DEF DeckInv, FileInv, PlayInv, TellInv, SaysInv, Items
<1>2. /\ RecordedFrom(fil)[pos] \in Seq(Items)
      /\ RecordedFrom(fil)[pos] = Says(fil, pos, RecordedFrom(fil))
  BY <1>1, RecordedAt
<1>3. Ahead \in Seq(Items)
  <2>1. <<Tone>> \in Seq(Items)
    BY DEF Tone, Items
  <2> QED BY <1>2, <2>1, ConcatProperties DEF Ahead
<1>4. IsPrefix(heard, heard \o Ahead)
  <2>1. /\ Len(heard) \in Nat /\ Len(Ahead) \in Nat /\ Len(heard \o Ahead) = Len(heard) + Len(Ahead)
    BY <1>1, <1>3, ConcatProperties, LenProperties
  <2>2. SubSeq(heard \o Ahead, 1, Len(heard)) = heard
    <3>1. SubSeq(heard \o Ahead, 1, Len(heard)) = SubSeq(heard, 1, Len(heard))
      BY <1>1, <1>3, SubSeqOfConcat1
    <3> QED BY <1>1, <3>1, SubSeqFull
  <2> QED BY <2>1, <2>2 DEF IsPrefix
<1>5. ASSUME pos = size PROVE heard = Recorded(fil)
  <2>1. Ahead = <<>>
    BY <1>1, <1>2, <1>5 DEF Ahead, Says
  <2> QED BY <1>1, <2>1, ConcatEmptySeq
<1> QED BY <1>1, <1>4, <1>5

(* What the machine hears is the mounted file, from its beginning and byte *)
(* by byte, whatever is paused, rewound, mounted, fetched late or read     *)
(* between, unless a sector was told done unserved or a header was paused. *)
THEOREM TapeSaysFileHolds == Spec => []TapeSaysFile
<1>1. Init => DeckInv
  BY DeckStarts
<1>2. DeckInv /\ [Next]_vars => DeckInv'
  BY DeckKept
<1>3. DeckInv => TapeSaysFile
  BY DeckSays
<1> QED BY <1>1, <1>2, <1>3, PTL DEF Spec
=============================================================================
