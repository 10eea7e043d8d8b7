------------------------------- MODULE SdPath -------------------------------
(***************************************************************************)
(* The SD path from end to end: the machine's peripherals, sd_arbiter.v,   *)
(* sd_card.v, sd_rw.v and the card in the FPGA, and the two firmware tasks *)
(* that use it, spi_task (the core's requests) and the OSD's task (its own *)
(* files).                                                                 *)
(*                                                                         *)
(* A step is one clock of the FPGA: every module moves at once, from the   *)
(* others' registers before the clock.  In a clock a task may do one       *)
(* thing: finish an SPI byte (a strobe of mcu_spi.v) or take a semaphore.  *)
(* A byte of 20 MHz SPI is a dozen clocks long, so MinGap clocks pass      *)
(* between two of them; how many more is open.  The SPI byte that only     *)
(* names the target is not a step, and neither is spi_end: it goes with    *)
(* the last byte.  The card is ready and well (SdTransfer.tla has the one  *)
(* that is not), the images are selected and their tables read.            *)
(***************************************************************************)
EXTENDS Naturals, FiniteSets

CONSTANTS
  NClients,  \* peripherals on the path
  Sector,    \* sectors of an image
  Beats,     \* beats of a sector
  NoBeat, NoLba,
  MinGap,    \* clocks between two SPI bytes, at the least
  Mixes      \* who uses the path: which clients, for which sectors, and what
             \* the OSD's task does: some of "read", "write", "insert"

ASSUME SdPathAssumption ==
  /\ NClients \in Nat \ {0}
  /\ Beats \in Nat \ {0}
  /\ MinGap \in Nat /\ MinGap >= 3
  /\ Mixes \subseteq [clients : SUBSET (0 .. NClients - 1), sectors : SUBSET Sector,
                      ops : SUBSET {"read", "write", "insert"}]
  /\ NoBeat \notin [lba : (0 .. NClients) \X Sector, ix : 0 .. Beats - 1]

VARIABLES
  (* sd_arbiter.v *)
  arb_state, owner, is_wr, rsector, a_rstart, a_wstart, c_done,
  (* sd_card.v *)
  command, byte_cnt, image_target, image_mounted,
  state, rstart_int, wstart_int, lsector, mcu_tx_cnt, dinb_we, buffer,
  data_out, irq, startD,
  (* sd_rw.v, sdcmd_ctrl.v *)
  sdcmd_stat, cmd8_cnt, sdv1_maybe, card_type, sectoraddr, cmd, sddat_stat,
  ridx, louten, outaddr, kind, bad, silent,
  (* sysctrl.v *)
  int_ack,   \* the acknowledge of sd_card.v's interrupt
  sys_out,   \* sd_card.v's bit in the answer of CMD 5
  (* the peripherals *)
  c_rd, c_wr,  \* their request levels
  c_sector,    \* and sectors
  c_got,       \* beats of the present request that came or went, and were right
  (* the firmware *)
  gap,       \* clocks until the next SPI byte may end
  spi_sem,   \* who holds the SPI bus
  sdc_sem,   \* who holds the file system
  task,      \* spi_task
  osd,       \* the OSD's task
  mix        \* one of Mixes, for good

arbVars == <<arb_state, owner, is_wr, rsector, a_rstart, a_wstart, c_done>>
cardVars == <<command, byte_cnt, image_target, image_mounted, state,
              rstart_int, wstart_int, lsector, mcu_tx_cnt, dinb_we, buffer,
              data_out, irq, startD>>
rwVars == <<sdcmd_stat, cmd8_cnt, sdv1_maybe, card_type, sectoraddr, cmd,
            sddat_stat, ridx, louten, outaddr, kind, bad, silent>>
sysVars == <<int_ack, sys_out>>
clientVars == <<c_rd, c_wr, c_sector, c_got>>
mcuVars == <<gap, spi_sem, sdc_sem, task, osd, mix>>
vars == <<arbVars, cardVars, rwVars, sysVars, clientVars, mcuVars>>

Client == 0 .. NClients - 1

(* Where clmt_clust puts a sector of a slot's image; the OSD's files are   *)
(* those of slot NClients.  No two files share a sector of the card.       *)
Lba == (0 .. NClients) \X Sector

Arb == INSTANCE SdArbiter WITH
         state <- arb_state, rstart <- a_rstart, wstart <- a_wstart

Card == INSTANCE SdCard

Rw == INSTANCE SdRw WITH
        rstart <- rstart_int, wstart <- wstart_int, sector <- lsector,
        outen <- louten, MaxBad <- 0, BadCmds <- {}, MaxSilent <- 0

Content(lba, i) == [lba |-> lba, ix |-> i]
Zero == Content(NoLba, 0)

-----------------------------------------------------------------------------
(* The peripherals.  One that is not at work may ask for a sector, in one  *)
(* direction; it drops the level on ack and is at work until its done.     *)
AtWork(c) == c \in c_rd \cup c_wr \/ c \in Arb!c_ack

Ask(c) ==
  /\ ~AtWork(c) /\ c \notin c_done
  /\ \/ c_rd' = (c_rd \ Arb!c_ack) \cup {c} /\ c_wr' = c_wr \ Arb!c_ack
     \/ c_wr' = (c_wr \ Arb!c_ack) \cup {c} /\ c_rd' = c_rd \ Arb!c_ack
  /\ \E s \in mix.sectors : c_sector' = [c_sector EXCEPT ![c] = s]

NobodyAsks ==
  /\ c_rd' = c_rd \ Arb!c_ack
  /\ c_wr' = c_wr \ Arb!c_ack
  /\ UNCHANGED c_sector

(* The byte a peripheral shows for outaddr when it writes, and the byte    *)
(* sd_rw.v puts on the lines: the core's only while the sector is its own. *)
Inbyte == Content(<<owner, c_sector[owner]>>, outaddr)
LineByte == IF state = "CORE_IO" THEN Inbyte ELSE buffer[outaddr]

(* The byte sd_rw.v has read. *)
Outbyte == Content(sectoraddr.lba, outaddr)

(* A beat goes to the card in this clock. *)
Writes == sddat_stat = "WDATA" /\ <<sddat_stat, ridx>>' # <<sddat_stat, ridx>>

(* A peripheral counts what comes in for it and what goes out from it,     *)
(* as long as it is the next beat of its sector.                           *)
Gets(c) == c \in Arb!c_outen(Card!outen(louten))
           /\ Outbyte = Content(<<c, c_sector[c]>>, c_got[c])
Puts(c) == Writes /\ c \in Arb!c_ack /\ is_wr
           /\ LineByte = Content(<<c, c_sector[c]>>, c_got[c])
           /\ sectoraddr.lba = <<c, c_sector[c]>>

CountClock ==
  c_got' = [c \in Client |-> IF Gets(c) \/ Puts(c) THEN c_got[c] + 1
                             ELSE IF AtWork(c) THEN c_got[c] ELSE 0]

ClientClock == (NobodyAsks \/ \E c \in mix.clients : Ask(c)) /\ CountClock

-----------------------------------------------------------------------------
(* One clock of the FPGA, with the SPI byte that ends in it for sd_card.v  *)
(* (byte) and with sysctrl.v's acknowledge (ack) if it is one.             *)
Fpga(byte, ack) ==
  /\ Arb!Clock(c_rd, c_wr, c_sector, Rw!rbusy, Rw!rdone)
  /\ Card!CardClock(byte, int_ack, a_rstart, a_wstart, rsector, Rw!rbusy, Rw!rdone,
                    louten, outaddr, Outbyte)
  /\ Rw!RwClock
  /\ ClientClock
  /\ int_ack' = ack
  /\ sys_out' = IF ack THEN irq ELSE sys_out

(* A clock in which a byte ends, and one in which none does. *)
Byte(byte)  == gap = 0 /\ gap' = MinGap /\ Fpga(byte, FALSE)
NoByte      == gap' = (IF gap = 0 THEN 0 ELSE gap - 1) /\ Fpga(Card!NoByte, FALSE)
AckByte     == gap = 0 /\ gap' = MinGap /\ Fpga(Card!NoByte, TRUE)
OtherByte   == gap = 0 /\ gap' = MinGap /\ Fpga(Card!NoByte, FALSE)

(* spi_begin waits for the bus and spi_end gives it back; a transaction of *)
(* several bytes keeps it.                                                 *)
Begins(me) == spi_sem = "free" /\ spi_sem' = me
Keeps(me)  == spi_sem = me /\ UNCHANGED spi_sem
Ends(me)   == spi_sem = me /\ spi_sem' = "free"

-----------------------------------------------------------------------------
(* spi_task.  The interrupt line is a level (LOW_LEVEL): the task wakes    *)
(* whenever it waits and sd_card.v's irq is up.                            *)
Goes(pc) == task' = [task EXCEPT !.pc = pc]

TaskWakes ==
  /\ task.pc = "wait" /\ irq
  /\ Goes("ack") /\ NoByte
  /\ UNCHANGED <<spi_sem, sdc_sem>>

(* sys_irq_ctrl: acknowledge everything, read what was pending. *)
TaskAcks ==
  /\ task.pc = "ack"
  /\ Begins("task") /\ AckByte
  /\ Goes("pending")
  /\ UNCHANGED sdc_sem

TaskReadsPending ==
  /\ task.pc = "pending"
  /\ Ends("task") /\ OtherByte
  /\ Goes(IF sys_out THEN "status" ELSE "wait")
  /\ UNCHANGED sdc_sem

(* sdc_handle_event: the status, in one transaction of which the answers   *)
(* come one byte after the byte that fetched them.                         *)
TaskStatus ==
  /\ task.pc = "status"
  /\ Begins("task") /\ Byte(Card!Command("STATUS"))
  /\ Goes("mask")
  /\ UNCHANGED sdc_sem

TaskFetchesMask ==
  /\ task.pc = "mask"
  /\ Keeps("task") /\ Byte(Card!More(Zero))
  /\ Goes("request")
  /\ UNCHANGED sdc_sem

TaskReadsRequest ==
  /\ task.pc = "request"
  /\ Keeps("task") /\ Byte(Card!More(Zero))
  /\ task' = [task EXCEPT !.pc = "rsector", !.request = data_out.mask]
  /\ UNCHANGED sdc_sem

TaskReadsSector ==
  /\ task.pc = "rsector"
  /\ Ends("task") /\ Byte(Card!More(Zero))
  /\ task' = [task EXCEPT !.pc = IF task.request = {} THEN "wait" ELSE "lock",
                          !.sector = data_out.sector]
  /\ UNCHANGED sdc_sem

(* Broken variant: the drive is not decoded. *)
FirstDrive == 0

(* request is one-hot, or the drive is 0. *)
Drive == IF Cardinality(task.request) = 1 THEN CHOOSE c \in task.request : TRUE ELSE 0

TaskLocks ==
  /\ task.pc = "lock"
  /\ sdc_sem = "free" /\ sdc_sem' = "task"
  /\ Goes("core_rw") /\ NoByte
  /\ UNCHANGED spi_sem

TaskCoreRw ==
  /\ task.pc = "core_rw"
  /\ Begins("task") /\ Byte(Card!Command("CORE_RW"))
  /\ Goes("address")
  /\ UNCHANGED sdc_sem

TaskAddress ==
  /\ task.pc = "address"
  /\ Keeps("task") /\ Byte(Card!More(<<Drive, task.sector>>))
  /\ task' = [task EXCEPT !.pc = "poll", !.request = {}]
  /\ UNCHANGED sdc_sem

(* Poll until the transfer is over, then give everything back. *)
TaskPolls ==
  /\ task.pc = "poll"
  /\ Byte(Card!More(Zero))
  /\ IF Card!Ready(data_out)
     THEN Ends("task") /\ sdc_sem' = "free" /\ Goes("wait")
     ELSE Keeps("task") /\ UNCHANGED <<sdc_sem, task>>

TaskStep ==
  \/ TaskWakes \/ TaskAcks \/ TaskReadsPending
  \/ TaskStatus \/ TaskFetchesMask \/ TaskReadsRequest \/ TaskReadsSector
  \/ TaskLocks \/ TaskCoreRw \/ TaskAddress \/ TaskPolls

-----------------------------------------------------------------------------
(* The OSD's task has the lower priority: it runs when spi_task cannot. *)
TaskBlocked ==
  \/ task.pc = "wait" /\ ~irq
  \/ task.pc = "lock" /\ sdc_sem = "osd"
  \/ task.pc \in {"ack", "status", "core_rw"} /\ spi_sem = "osd"

OsdGoes(pc) == osd' = [osd EXCEPT !.pc = pc]

(* A file operation: the lock, and sector after sector. *)
OsdLocks ==
  /\ osd.pc = "lock"
  /\ sdc_sem = "free" /\ sdc_sem' = "osd"
  /\ OsdGoes("status") /\ NoByte
  /\ UNCHANGED spi_sem

OsdBegins ==
  /\ osd.pc = "idle"
  /\ \/ \E op \in mix.ops \ {"insert"} : osd' = [osd EXCEPT !.pc = "lock", !.op = op]
     \/ "insert" \in mix.ops /\ osd' = [osd EXCEPT !.pc = "command", !.op = "insert"]
  /\ NoByte
  /\ UNCHANGED <<spi_sem, sdc_sem>>

(* sdc_read_sector and sdc_write_sector: ask until the card is not busy, *)
OsdStatus ==
  /\ osd.pc = "status"
  /\ Begins("osd") /\ Byte(Card!Command("STATUS"))
  /\ OsdGoes("busy")
  /\ UNCHANGED sdc_sem

OsdReadsBusy ==
  /\ osd.pc = "busy"
  /\ Ends("osd") /\ Byte(Card!More(Zero))
  /\ OsdGoes(IF data_out.busy THEN "status" ELSE "command")
  /\ UNCHANGED sdc_sem

(* then, in one transaction, the command, *)
OsdCommand ==
  /\ osd.pc = "command"
  /\ Begins("osd")
  /\ Byte(Card!Command(CASE osd.op = "read"   -> "MCU_READ"
                         [] osd.op = "write"  -> "MCU_WRITE"
                         [] osd.op = "insert" -> "INSERTED"))
  /\ OsdGoes("address")
  /\ UNCHANGED sdc_sem

(* the sector (of INSERTED the slot, outside the lock), *)
OsdAddress ==
  /\ osd.pc = "address"
  /\ Keeps("osd")
  /\ \/ /\ osd.op # "insert"
        /\ \E s \in mix.sectors :
             /\ Byte(Card!More(<<NClients, s>>))
             /\ osd' = [osd EXCEPT !.pc = IF osd.op = "read" THEN "poll" ELSE "data",
                                   !.sector = s, !.n = 0]
     \/ /\ osd.op = "insert"
        /\ \E c \in mix.clients : Byte(Card!More(c))
        /\ OsdGoes("size")
  /\ UNCHANGED sdc_sem

(* the wait for "ready" (before the data of a read, after that of a write), *)
OsdPolls ==
  /\ osd.pc = "poll"
  /\ Byte(Card!More(Zero))
  /\ IF ~Card!Ready(data_out)
     THEN Keeps("osd") /\ UNCHANGED <<sdc_sem, osd>>
     ELSE IF osd.op = "read"
     THEN Keeps("osd") /\ OsdGoes("data") /\ UNCHANGED sdc_sem
     ELSE /\ Ends("osd")
          /\ \/ OsdGoes("idle") /\ sdc_sem' = "free"
             \/ OsdGoes("status") /\ UNCHANGED sdc_sem

(* the data of a write, *)
OsdSends ==
  /\ osd.pc = "data" /\ osd.op = "write"
  /\ Keeps("osd")
  /\ Byte(Card!More(Content(<<NClients, osd.sector>>, osd.n)))
  /\ osd' = IF osd.n = Beats - 1 THEN [osd EXCEPT !.pc = "poll", !.n = 0]
            ELSE [osd EXCEPT !.n = osd.n + 1]
  /\ UNCHANGED sdc_sem

(* and of a read; after the last, another sector or the end of the work. *)
OsdReceives ==
  /\ osd.pc = "data" /\ osd.op = "read"
  /\ Byte(Card!More(Zero))
  /\ IF osd.n < Beats - 1
     THEN Keeps("osd") /\ osd' = [osd EXCEPT !.n = osd.n + 1] /\ UNCHANGED sdc_sem
     ELSE /\ Ends("osd")
          /\ \/ osd' = [osd EXCEPT !.pc = "idle", !.n = 0] /\ sdc_sem' = "free"
             \/ osd' = [osd EXCEPT !.pc = "status", !.n = 0] /\ UNCHANGED sdc_sem

(* sdc_image_inserted's last bytes. *)
OsdSize ==
  /\ osd.pc = "size"
  /\ Ends("osd")
  /\ Byte(Card!More(Zero))
  /\ OsdGoes("idle")
  /\ UNCHANGED sdc_sem

OsdStep ==
  /\ TaskBlocked
  /\ \/ OsdBegins \/ OsdLocks \/ OsdStatus \/ OsdReadsBusy \/ OsdCommand
     \/ OsdAddress \/ OsdPolls \/ OsdSends \/ OsdReceives \/ OsdSize

-----------------------------------------------------------------------------
Init ==
  /\ mix \in Mixes
  /\ Arb!Init /\ rsector \in mix.sectors
  /\ Card!CardInit
  /\ Rw!RwReady("SDHCv2")
  /\ int_ack = FALSE /\ sys_out = FALSE
  /\ c_rd = {} /\ c_wr = {}
  /\ c_sector = [c \in Client |-> CHOOSE s \in mix.sectors : TRUE]
  /\ c_got = [c \in Client |-> 0]
  /\ gap = 0
  /\ spi_sem = "free" /\ sdc_sem = "free"
  /\ task = [pc |-> "wait", request |-> {}, sector |-> CHOOSE s \in mix.sectors : TRUE]
  /\ osd = [pc |-> "idle", op |-> "read", sector |-> CHOOSE s \in mix.sectors : TRUE, n |-> 0]

(* A clock in which no task does anything the FPGA sees. *)
QuietClock == NoByte /\ UNCHANGED <<spi_sem, sdc_sem, task, osd>>

Next ==
  /\ \/ QuietClock
     \/ TaskStep /\ UNCHANGED osd
     \/ OsdStep /\ UNCHANGED task
  /\ UNCHANGED mix

Spec == Init /\ [][Next]_vars

(* The clock runs; a task that can run does, when the FPGA is ready for    *)
(* its byte; a command and a wait on the data lines come to their end.     *)
TaskProceeds    == TaskStep /\ UNCHANGED <<osd, mix>>
OsdProceeds     == OsdStep /\ UNCHANGED <<task, mix>>
CommandAnswered == cmd = "run" /\ Next /\ cmd' # "run"
DataAnswered    == Next /\ <<sddat_stat, ridx>>' # <<sddat_stat, ridx>>

FairSpec ==
  Spec /\ WF_vars(Next) /\ WF_vars(TaskProceeds) /\ WF_vars(OsdProceeds)
       /\ WF_vars(CommandAnswered) /\ WF_vars(DataAnswered)

-----------------------------------------------------------------------------
(* sd_arbiter.v:11-13, the arbiter hands the path to a client and "keeps   *)
(* it until sd_card.v reports the transfer done": a client that is told    *)
(* done has had every beat of its sector, in order, from or to the sector  *)
(* it asked for.                                                           *)
DoneIsServed == \A c \in c_done : c_got[c] = Beats

(* The same while the firmware leaves the card to the clients.             *)
ClientsAlone == mix.ops = {}
ServedDone == ClientsAlone => DoneIsServed

(* The byte stream is "gated to the owner" and is the owner's: no client   *)
(* is given a byte of another file's sector.                               *)
OwnBytes ==
  \A c \in Arb!c_outen(Card!outen(louten)) : Outbyte.lba = <<c, c_sector[c]>>

(* The same while the firmware leaves the card to the clients.             *)
OwnBytesOnly == ClientsAlone => OwnBytes

(* What goes on the data lines is what belongs in the sector written, beat *)
(* for beat, be the sectors the clients' or the firmware's alone: with     *)
(* both the lock does not keep them apart (SdMcuWrite).                    *)
RightBytesWritten ==
  (ClientsAlone \/ mix.clients = {}) /\ sddat_stat = "WDATA" => LineByte = Content(sectoraddr.lba, ridx)

(* The request spi_task starts is the request the arbiter still waits to   *)
(* see started, although the mask, the sector and the start of the         *)
(* transfer are milliseconds apart; unless the firmware's own transfer     *)
(* ends the lease meanwhile (SdFalseDone).                                 *)
ServesTheRequest ==
  ClientsAlone /\ task.pc \in {"lock", "core_rw", "address"} =>
    /\ arb_state = "S_REQ"
    /\ task.request = {owner}
    /\ task.sector = rsector

(* A request shown to the MCU is never forgotten: it is new, or its        *)
(* interrupt is up, or spi_task is on its way to it.                       *)
NoRequestForgotten ==
  a_rstart \cup a_wstart # {} /\ startD /\ ~irq => task.pc # "wait"

(* A sector read for the firmware arrives beat for beat, although the      *)
(* buffer, its counter and sd_rw.v serve the core too.                     *)
McuReadsItsSector ==
  osd.pc = "data" /\ osd.op = "read" =>
    data_out = Card!BeatIs(Content(<<NClients, osd.sector>>, osd.n))

(* The lock covers the transfer (sdc.c:331-334, "wait while core is busy   *)
(* to make sure we don't start requesting data for ourselves while the     *)
(* core is still doing its own io", and 114-115, "wait for ready"): when   *)
(* neither task holds the file system, no transfer is asked for or under   *)
(* way.                                                                    *)
LockCoversTransfer ==
  sdc_sem = "free" => ~rstart_int /\ ~wstart_int /\ ~Rw!rbusy

(* Every lease ends: the interrupt is seen, the sector is found, moved,    *)
(* and reported.                                                           *)
LeaseEnds == arb_state = "S_REQ" ~> arb_state = "S_IDLE"

(* The firmware's file operation gets through to its sector.               *)
OsdIsServed == osd.pc = "status" ~> osd.pc = "data"
=============================================================================
