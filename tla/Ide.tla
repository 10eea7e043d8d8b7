---------------------------------- MODULE Ide ----------------------------------
(***************************************************************************)
(* ide.v: the IDE adapter and its drive, whose data comes from the SD path *)
(* a sector at a time.  The software waits for the status, as the adapter's *)
(* ROM does: it gives a command when BSY and DRQ are off and moves a word   *)
(* when DRQ is on.  The ВВ55's edges, and the registers that are written   *)
(* before a command, are part of the command or of the word.               *)
(***************************************************************************)
EXTENDS Naturals, Sequences

CONSTANTS
  DiskBytes, \* of a sector: 512
  CountMax,  \* 256: what a sector count of 0 stands for
  MaxSects,  \* of an image: a bound
  Values,    \* what the software writes
  Nothing    \* what is in the buffer before a sector

ASSUME IdeAssumption ==
  /\ DiskBytes \in Nat \ {0} /\ DiskBytes % 2 = 0
  /\ CountMax \in Nat \ {0} /\ MaxSects \in Nat \ {0}

VARIABLES
  sectors,                  \* of the image; 0: none (present)
  wprot,
  mode8,                    \* bytes, not words
  is_write, ident,
  counter,                  \* bytes owed
  ptr, ide_buf,             \* the sector (buf)
  busy, need,               \* it is moved; it must be fetched
  xfer_lba, ide_rd, ide_wr, \* sd_rd, sd_wr
  datareg,
  job,                      \* history: the command
  at,                       \* history: the address that its next byte has
  due                       \* history: what datareg should hold

xferVars == <<busy, need, xfer_lba, ide_rd, ide_wr>>
dataVars == <<counter, ptr, ide_buf, datareg, at, due>>
modeVars == <<mode8, is_write, ident, job>>
ideVars == <<sectors, wprot, xferVars, dataVars, modeVars>>

NoJob == [kind |-> "none", image |-> "", first |-> 0, bytes |-> 0, value |-> 0]
Empty == [o \in 1 .. DiskBytes |-> Nothing]
present == sectors # 0
DRQ == counter # 0 /\ ~busy /\ ~need
Idle == counter = 0 /\ ~busy
Fetching == busy \/ (need /\ counter # 0)

(* The counter has the bits for two disks' worth: seventeen, and one more. *)
CounterValues == 2 * CountMax * DiskBytes
Owed(n) ==
  (n * DiskBytes + (IF n = 0 THEN CountMax * DiskBytes ELSE 0)) % CounterValues

IdeInit ==
  /\ sectors = 0 /\ wprot \in BOOLEAN
  /\ mode8 = FALSE /\ is_write = FALSE /\ ident = FALSE
  /\ counter = 0 /\ ptr = 0 /\ ide_buf = Empty
  /\ busy = FALSE /\ need = FALSE /\ xfer_lba = 0 /\ ide_rd = FALSE /\ ide_wr = FALSE
  /\ datareg = <<>> /\ job = NoJob /\ at = 0 /\ due = <<>>

-----------------------------------------------------------------------------
(* The SD path.  ack: the drive has it, and takes its request down again.  *)

IdeAcked ==
  /\ ide_rd' = FALSE /\ ide_wr' = FALSE
  /\ UNCHANGED <<sectors, wprot, busy, need, xfer_lba, dataVars, modeVars>>

IdeFetches(ack) ==
  /\ need /\ ~busy /\ ~is_write /\ counter # 0
  /\ busy' = TRUE /\ ide_rd' = ~ack
  /\ UNCHANGED <<sectors, wprot, need, xfer_lba, ide_wr, dataVars, modeVars>>

(* done, with the last of the bytes that came, if any. *)
AdvanceNot == xfer_lba
Advance == xfer_lba + 1

IdeDone(bytes) ==
  /\ ide_buf' = IF is_write THEN ide_buf ELSE bytes
  /\ IF busy
       THEN /\ busy' = FALSE
            /\ IF is_write THEN UNCHANGED <<ptr, need>> ELSE ptr' = 0 /\ need' = FALSE
            /\ xfer_lba' = Advance
       ELSE UNCHANGED <<busy, ptr, need, xfer_lba>>
  /\ UNCHANGED <<sectors, wprot, ide_rd, ide_wr, counter, datareg, at, due, modeVars>>

(* Not under reset, and nothing of a command that is on its way is given up. *)
IdeMount(s) == sectors' = s /\ UNCHANGED <<wprot, xferVars, dataVars, modeVars>>

-----------------------------------------------------------------------------
(* The software.  With a command, what the buffer and the data register    *)
(* hold is of no more use; it stays in the code and is forgotten here.     *)

IdeForgets == ide_buf' = Empty /\ datareg' = <<>> /\ due' = <<>>

Identify ==
  /\ Idle /\ IdeForgets
  /\ ident' = TRUE /\ is_write' = FALSE /\ ptr' = 0 /\ counter' = DiskBytes /\ need' = FALSE
  /\ at' = 0 /\ job' = [NoJob EXCEPT !.kind = "ident"]
  /\ UNCHANGED <<sectors, wprot, mode8, busy, xfer_lba, ide_rd, ide_wr>>

Sent(kind, image, lba, count, v) ==
  /\ job' = [kind |-> kind, image |-> image, first |-> lba * DiskBytes, value |-> v,
             bytes |-> (IF count = 0 THEN CountMax ELSE count) * DiskBytes]
  /\ at' = lba * DiskBytes

Read(image, lba, count) ==
  /\ Idle /\ present /\ IdeForgets
  /\ ident' = FALSE /\ is_write' = FALSE /\ xfer_lba' = lba
  /\ counter' = Owed(count) /\ need' = TRUE
  /\ Sent("read", image, lba, count, 0)
  /\ UNCHANGED <<sectors, wprot, mode8, ptr, busy, ide_rd, ide_wr>>

(* The bytes of one command are of one value. *)
Write(image, lba, count, v) ==
  /\ Idle /\ present /\ IdeForgets
  /\ ident' = FALSE /\ is_write' = TRUE /\ xfer_lba' = lba /\ ptr' = 0
  /\ counter' = Owed(count) /\ need' = FALSE
  /\ Sent("write", image, lba, count, v)
  /\ UNCHANGED <<sectors, wprot, mode8, busy, ide_rd, ide_wr>>

(* Between commands, so that no word is half read. *)
SetFeatures ==
  /\ Idle /\ present
  /\ mode8' = ~mode8
  /\ UNCHANGED <<sectors, wprot, is_write, ident, job, xferVars, dataVars>>

Clears ==
  /\ counter' = 0 /\ datareg' = <<>> /\ mode8' = FALSE /\ is_write' = FALSE /\ ident' = FALSE
  /\ need' = FALSE
  /\ job' = NoJob /\ at' = 0 /\ due' = <<>>
  /\ UNCHANGED <<sectors, wprot, ide_buf, xfer_lba>>

SoftResetUnasks  == Clears /\ ptr' = 0 /\ busy' = busy /\ ide_rd' = FALSE /\ ide_wr' = FALSE

(* A sector that is moved is moved to the end. *)
SoftReset == Clears /\ ptr' = 0 /\ UNCHANGED <<busy, ide_rd, ide_wr>>

(* The machine's reset, which gives the sector up. *)
IdeReset == Clears /\ ptr' = 0 /\ busy' = FALSE /\ ide_rd' = FALSE /\ ide_wr' = FALSE

-----------------------------------------------------------------------------
(* A word, or a byte. *)
Width == IF mode8 THEN 1 ELSE 2
next_ptr == (ptr + Width) % DiskBytes
cur_w == [j \in 1 .. Width |-> IF ident THEN <<"ident", ptr + j - 1>> ELSE ide_buf[ptr + j]]

(* The next sector is owed once this one is read, though it be the last. *)
NextOwedWords == (ptr + 2) % DiskBytes = 0 /\ ~ident
NextOwed == next_ptr = 0 /\ ~ident

Moves == ptr' = next_ptr /\ counter' = counter - Width /\ at' = at + Width

(* expected: what the image, or the identify block, has at that address. *)
DataRead(expected) ==
  /\ DRQ /\ ~is_write
  /\ datareg' = cur_w /\ due' = expected
  /\ Moves
  /\ need' = NextOwed
  /\ UNCHANGED <<sectors, wprot, ide_buf, busy, xfer_lba, ide_rd, ide_wr, modeVars>>

(* The last word fills a sector, which is flushed, or dropped. *)
DataWrite(ack, bytes) ==
  /\ DRQ /\ is_write
  /\ ide_buf' = [o \in 1 .. DiskBytes |->
                  IF o \in ptr + 1 .. ptr + Width THEN bytes[o - ptr] ELSE ide_buf[o]]
  /\ Moves
  /\ IF next_ptr # 0 THEN UNCHANGED <<busy, ide_wr, xfer_lba>>
     ELSE IF wprot
       THEN xfer_lba' = Advance /\ UNCHANGED <<busy, ide_wr>>
       ELSE busy' = TRUE /\ ide_wr' = ~ack /\ UNCHANGED xfer_lba
  /\ UNCHANGED <<sectors, wprot, datareg, due, need, ide_rd, modeVars>>
=============================================================================
