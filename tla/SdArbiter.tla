------------------------------ MODULE SdArbiter ------------------------------
(***************************************************************************)
(* sd_arbiter.v: one owner at a time on the SD path, clock by clock.       *)
(*                                                                         *)
(* The one-hot vectors of the Verilog are sets of clients.  The inputs of  *)
(* the module (the clients' request levels and sectors, sd_card.v's rbusy  *)
(* and rdone) are parameters of Clock, so that SdPath.tla can connect them *)
(* to the other modules' registers, and the specification below leaves     *)
(* them free: what is shown of it holds whatever the clients and the card  *)
(* do.                                                                     *)
(***************************************************************************)
EXTENDS Naturals, FiniteSets

CONSTANTS
  NClients,  \* clients on the path (top.v connects five)
  Sector     \* sectors within an image

ASSUME NClientsAssumption == NClients \in Nat \ {0}

VARIABLES
  state,    \* S_IDLE, S_REQ, S_XFER
  owner,    \* the client that holds the path when the state is not S_IDLE
  is_wr,    \* its direction, latched at the grant
  rsector,  \* its sector, latched at the grant
  rstart,   \* the read request shown to sd_card.v
  wstart,   \* the write request shown to sd_card.v
  c_done    \* who is told that its transfer is done

vars == <<state, owner, is_wr, rsector, rstart, wstart, c_done>>

Client == 0 .. NClients - 1

TypeOK ==
  /\ state \in {"S_IDLE", "S_REQ", "S_XFER"}
  /\ owner \in Client
  /\ is_wr \in BOOLEAN
  /\ rsector \in Sector
  /\ rstart \in SUBSET Client
  /\ wstart \in SUBSET Client
  /\ c_done \in SUBSET Client

(* The outputs that are wires. *)
c_ack == IF state = "S_IDLE" THEN {} ELSE {owner}

c_outen(outen) == IF state = "S_XFER" /\ outen THEN {owner} ELSE {}

(* The lowest-numbered client that asks. *)
Grant(want) == CHOOSE c \in want : \A d \in want : c <= d

-----------------------------------------------------------------------------
(* is_wr and rsector have no initial value in the Verilog. *)
Init ==
  /\ state = "S_IDLE"
  /\ owner = 0
  /\ is_wr = FALSE
  /\ rsector \in Sector
  /\ rstart = {}
  /\ wstart = {}
  /\ c_done = {}

Reset ==
  /\ state' = "S_IDLE"
  /\ owner' = 0
  /\ rstart' = {}
  /\ wstart' = {}
  /\ c_done' = {}
  /\ UNCHANGED <<is_wr, rsector>>

(* Broken variants, for the runs to reject: a grant that leaves the last    *)
(* done up; a request shown in both directions, one that blinks, and one    *)
(* that is a strobe and not held (as sd_arbiter.v first did); a done that   *)
(* goes one slot up, and one that goes to everybody.                        *)
IdleKeepsDone(rd, wr, sector, rbusy) ==
  /\ state = "S_IDLE"
  /\ rstart' = {} /\ wstart' = {}
  /\ UNCHANGED c_done
  /\ IF ~rbusy /\ rd \cup wr # {}
     THEN /\ owner' = Grant(rd \cup wr)
          /\ is_wr' = (Grant(rd \cup wr) \in wr)
          /\ rsector' = sector[Grant(rd \cup wr)]
          /\ state' = "S_REQ"
     ELSE UNCHANGED <<state, owner, is_wr, rsector>>

ReqShape(rbusy, shownRd, shownWr, leaves) ==
  /\ state = "S_REQ"
  /\ rstart' = IF shownRd THEN {owner} ELSE {}
  /\ wstart' = IF shownWr THEN {owner} ELSE {}
  /\ state' = IF leaves THEN "S_XFER" ELSE "S_REQ"
  /\ c_done' = {}
  /\ UNCHANGED <<owner, is_wr, rsector>>

ReqBothWays(rbusy) == ReqShape(rbusy, ~rbusy, ~rbusy /\ is_wr, rbusy)
ReqBlinks(rbusy)   == ReqShape(rbusy, ~rbusy /\ ~is_wr /\ rstart = {},
                                      ~rbusy /\ is_wr /\ wstart = {}, rbusy)
ReqStrobes(rbusy)  == ReqShape(rbusy, ~rbusy /\ ~is_wr, ~rbusy /\ is_wr,
                               rbusy \/ rstart \cup wstart # {})

XferTells(rdone, who) ==
  /\ state = "S_XFER"
  /\ c_done' = IF rdone THEN who ELSE {}
  /\ state' = IF rdone THEN "S_IDLE" ELSE "S_XFER"
  /\ UNCHANGED <<owner, is_wr, rsector, rstart, wstart>>

XferTellsNext(rdone) == XferTells(rdone, {owner + 1})
XferTellsAll(rdone)  == XferTells(rdone, Client)

(* A clock in S_IDLE: grant the path if somebody asks and the card is free. *)
IdleClock(rd, wr, sector, rbusy) ==
  /\ state = "S_IDLE"
  /\ rstart' = {}
  /\ wstart' = {}
  /\ c_done' = {}
  /\ IF ~rbusy /\ rd \cup wr # {}
     THEN /\ owner' = Grant(rd \cup wr)
          /\ is_wr' = (Grant(rd \cup wr) \in wr)
          /\ rsector' = sector[Grant(rd \cup wr)]
          /\ state' = "S_REQ"
     ELSE UNCHANGED <<state, owner, is_wr, rsector>>

(* A clock in S_REQ: show the request until the card is busy. *)
ReqClock(rbusy) ==
  /\ state = "S_REQ"
  /\ rstart' = IF rbusy \/ is_wr THEN {} ELSE {owner}
  /\ wstart' = IF rbusy \/ ~is_wr THEN {} ELSE {owner}
  /\ state' = IF rbusy THEN "S_XFER" ELSE "S_REQ"
  /\ c_done' = {}
  /\ UNCHANGED <<owner, is_wr, rsector>>

(* A clock in S_XFER: wait for sd_card.v's rdone, and pass it on. *)
XferClock(rdone) ==
  /\ state = "S_XFER"
  /\ c_done' = IF rdone THEN {owner} ELSE {}
  /\ state' = IF rdone THEN "S_IDLE" ELSE "S_XFER"
  /\ UNCHANGED <<owner, is_wr, rsector, rstart, wstart>>

Clock(rd, wr, sector, rbusy, rdone) ==
  \/ IdleClock(rd, wr, sector, rbusy)
  \/ ReqClock(rbusy)
  \/ XferClock(rdone)

Next ==
  \/ Reset
  \/ \E rd, wr \in SUBSET Client, sector \in [Client -> Sector],
        rbusy, rdone \in BOOLEAN : Clock(rd, wr, sector, rbusy, rdone)

Spec == Init /\ [][Next]_vars

-----------------------------------------------------------------------------
(* The header's reason for the module: sd_card.v and the MCU never see two *)
(* requesters at once, nor one in both directions; the one they see is the *)
(* client that holds the path and waits for the card, in the direction it  *)
(* was granted.                                                            *)
OneRequester ==
  /\ rstart \cap wstart = {}
  /\ \A c \in rstart \cup wstart : c = owner
  /\ rstart \cup wstart # {} => state = "S_REQ"
  /\ rstart # {} => ~is_wr
  /\ wstart # {} => is_wr

(* Nobody is told of a transfer while the path is held: a done that arrives *)
(* belongs to a lease that has just ended, and never to two clients.  So it *)
(* comes with ack already down, as lines 64 and 104-107 make it; the header *)
(* (line 22) has it "one clock at the end of the transfer, with ack still   *)
(* up", which is not so: README.md, "Seen while modelling".                 *)
DoneAfterLease ==
  /\ c_done # {} => state = "S_IDLE"
  /\ \A c \in c_done : c = owner

(* Between the grant and the end of the transfer, whatever the clients do  *)
(* with their levels ("dropping rd/wr after ack changes nothing"), the     *)
(* owner, the direction and the sector stay those of the grant, a request  *)
(* withdrawn from the card is not shown to it again, and the lease ends    *)
(* only by the reset or with the owner told.                               *)
LeaseIsFrozen ==
  [][state # "S_IDLE" =>
       \/ Reset
       \/ /\ UNCHANGED <<owner, is_wr, rsector>>
          /\ rstart \cup wstart # {} /\ rstart' \cup wstart' = {} => state' = "S_XFER"
          /\ state = "S_XFER" => rstart' \cup wstart' = {}
          /\ state' = "S_IDLE" => c_done' = {owner}]_vars

(* The arbiter implements the lease. *)
NoClient == NClients

Lease == INSTANCE PathLease WITH
           holder   <- IF state = "S_IDLE" THEN NoClient ELSE owner,
           job      <- IF state = "S_IDLE" THEN [idle |-> TRUE]
                       ELSE [wr |-> is_wr, sector |-> rsector],
           finished <- c_done

(* Every behaviour of the registers is a behaviour of PathLease: the path  *)
(* is leased, never passed on or shared, and done goes once to its holder. *)
ImplementsLease == Lease!Spec
=============================================================================
