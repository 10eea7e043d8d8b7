--------------------------- MODULE SdArbiterProofs ---------------------------
(***************************************************************************)
(* What sd_arbiter.v guarantees for any number of clients, any sectors and *)
(* whatever the clients and the card do: the invariants of SdArbiter.tla,  *)
(* the frozen lease, and that it implements PathLease.tla.                 *)
(***************************************************************************)
EXTENDS SdArbiter, WellFoundedInduction, TLAPS

-----------------------------------------------------------------------------
(* The grant is one of the clients that ask, and no lower-numbered client *)
(* asks: the priority chain of the wire `grant`.                          *)
LEMMA GrantIsLowest ==
  ASSUME NEW want \in SUBSET Client, want # {}
  PROVE  /\ Grant(want) \in want
         /\ Grant(want) \in Client
         /\ \A c \in want : Grant(want) <= c
<1>1. want \in SUBSET Nat
  BY NClientsAssumption DEF Client
<1>2. \E c \in want : \A d \in want : c <= d
  <2>1. PICK c \in want : \A d \in want : <<d, c>> \notin OpToRel(<, Nat)
    BY <1>1, NatLessThanWellFounded, WFMin, Zenon
  <2>2. \A d \in want : ~(d < c)
    BY <1>1, <2>1 DEF OpToRel
  <2>3. QED
    BY <1>1, <2>2
<1>3. QED
  BY <1>2 DEF Grant

(* The initial state of owner is a client. *)
LEMMA ZeroIsClient == 0 \in Client
BY NClientsAssumption DEF Client

-----------------------------------------------------------------------------
(* What the registers keep among themselves, clock by clock. *)
ArbiterInv == TypeOK /\ OneRequester /\ DoneAfterLease

LEMMA ArbiterStarts == ASSUME Init PROVE ArbiterInv
BY ZeroIsClient DEF Init, ArbiterInv, TypeOK, OneRequester, DoneAfterLease

(* S_IDLE: a grant is to a client; a clock without one leaves no report. *)
LEMMA IdleKeeps ==
  ASSUME ArbiterInv,
         NEW rd \in SUBSET Client, NEW wr \in SUBSET Client,
         NEW sector \in [Client -> Sector], NEW rbusy \in BOOLEAN,
         IdleClock(rd, wr, sector, rbusy)
  PROVE  ArbiterInv'
<1>1. TypeOK'
  <2>1. CASE ~rbusy /\ rd \cup wr # {}
    <3>1. Grant(rd \cup wr) \in Client
      BY <2>1, GrantIsLowest
    <3> QED BY <2>1, <3>1 DEF IdleClock, ArbiterInv, TypeOK
  <2>2. CASE rbusy \/ rd \cup wr = {}
    BY <2>2 DEF IdleClock, ArbiterInv, TypeOK
  <2> QED BY <2>1, <2>2
<1>2. OneRequester' /\ DoneAfterLease'
  BY DEF IdleClock, ArbiterInv, OneRequester, DoneAfterLease
<1> QED BY <1>1, <1>2 DEF ArbiterInv

(* S_REQ and S_XFER leave the lease as it is. *)
LEMMA ReqKeeps ==
  ASSUME ArbiterInv, NEW rbusy \in BOOLEAN, ReqClock(rbusy)
  PROVE  ArbiterInv'
BY DEF ReqClock, ArbiterInv, TypeOK, OneRequester, DoneAfterLease

LEMMA XferKeeps ==
  ASSUME ArbiterInv, NEW rdone \in BOOLEAN, XferClock(rdone)
  PROVE  ArbiterInv'
BY DEF XferClock, ArbiterInv, TypeOK, OneRequester, DoneAfterLease

LEMMA ArbiterKept == ArbiterInv /\ [Next]_vars => ArbiterInv'
<1> SUFFICES ASSUME ArbiterInv PROVE [Next]_vars => ArbiterInv'
  OBVIOUS
<1>1. Reset \/ UNCHANGED vars => ArbiterInv'
  BY ZeroIsClient DEF Reset, vars, ArbiterInv, TypeOK, OneRequester, DoneAfterLease
<1>2. ASSUME NEW rd \in SUBSET Client, NEW wr \in SUBSET Client,
             NEW sector \in [Client -> Sector], NEW rbusy \in BOOLEAN, NEW rdone \in BOOLEAN,
             Clock(rd, wr, sector, rbusy, rdone)
      PROVE  ArbiterInv'
  BY <1>2, IdleKeeps, ReqKeeps, XferKeeps DEF Clock
<1> QED BY <1>1, <1>2 DEF Next

LEMMA ArbiterInvHolds == Spec => []ArbiterInv
BY ArbiterStarts, ArbiterKept, PTL DEF Spec

(* Every register keeps its type, whatever the inputs. *)
THEOREM TypeCorrect == Spec => []TypeOK
<1>1. ArbiterInv => TypeOK
  BY DEF ArbiterInv
<1> QED BY <1>1, ArbiterInvHolds, PTL

(* The request shown to sd_card.v is the owner's alone, in its direction,  *)
(* and only while the path waits for the card.                             *)
THEOREM OneRequesterHolds == Spec => []OneRequester
<1>1. ArbiterInv => OneRequester
  BY DEF ArbiterInv
<1> QED BY <1>1, ArbiterInvHolds, PTL

(* Done is only ever up in S_IDLE, and only for the client of the lease    *)
(* that ended there.                                                       *)
THEOREM DoneAfterLeaseHolds == Spec => []DoneAfterLease
<1>1. ArbiterInv => DoneAfterLease
  BY DEF ArbiterInv
<1> QED BY <1>1, ArbiterInvHolds, PTL

-----------------------------------------------------------------------------
(* Nothing the clients do between the grant and the end moves the owner,   *)
(* the direction or the sector, and only the owner's done ends the lease.  *)
THEOREM LeaseIsFrozenHolds == Spec => LeaseIsFrozen
<1> DEFINE Frozen ==
      state # "S_IDLE" =>
        \/ Reset
        \/ /\ UNCHANGED <<owner, is_wr, rsector>>
           /\ rstart \cup wstart # {} /\ rstart' \cup wstart' = {} => state' = "S_XFER"
           /\ state = "S_XFER" => rstart' \cup wstart' = {}
           /\ state' = "S_IDLE" => c_done' = {owner}
<1>1. OneRequester /\ [Next]_vars => [Frozen]_vars
  <2> SUFFICES ASSUME OneRequester, Next, state # "S_IDLE"
               PROVE  Frozen
    OBVIOUS
  <2>1. CASE Reset
    BY <2>1
  <2>2. ASSUME NEW rbusy, ReqClock(rbusy)
        PROVE  Frozen
    BY <2>2 DEF ReqClock, OneRequester
  <2>3. ASSUME NEW rdone, XferClock(rdone)
        PROVE  Frozen
    BY <2>3 DEF XferClock, OneRequester
  <2>4. QED
    BY <2>1, <2>2, <2>3 DEF Next, Clock, IdleClock
<1>2. QED
  BY <1>1, OneRequesterHolds, PTL DEF Spec, LeaseIsFrozen

-----------------------------------------------------------------------------
(* NoClient is no client, so that a free path is told from a held one. *)
LEMMA NoClientIsNoClient == NoClient \notin Client
BY NClientsAssumption DEF NoClient, Client

(* The registers implement the lease: every clock is a lease, its end, the *)
(* end of a report, or nothing that a client can tell.                     *)
THEOREM ImplementsLeaseHolds == Spec => ImplementsLease
<1> USE DEF Lease!leaseVars, Lease!NoJob
<1>1. Init => Lease!Init
  BY DEF Init, Lease!Init
<1>2. TypeOK /\ DoneAfterLease /\ [Next]_vars => [Lease!Next]_(Lease!leaseVars)
  <2> SUFFICES ASSUME TypeOK, DoneAfterLease, [Next]_vars
               PROVE  [Lease!Next]_(Lease!leaseVars)
    OBVIOUS
  <2>1. CASE Reset
    <3>1. Lease!Revoke
      BY <2>1 DEF Reset, Lease!Revoke
    <3>2. QED
      BY <3>1 DEF Lease!Next
  <2>2. ASSUME NEW rd \in SUBSET Client, NEW wr \in SUBSET Client,
               NEW sector \in [Client -> Sector], NEW rbusy \in BOOLEAN,
               IdleClock(rd, wr, sector, rbusy)
        PROVE  Lease!Next
    <3>1. CASE ~rbusy /\ rd \cup wr # {}
      <4>1. Grant(rd \cup wr) \in Client
        BY <3>1, GrantIsLowest
      <4>2. Lease!Lease
        BY <2>2, <3>1, <4>1 DEF IdleClock, Lease!Lease, Lease!Job
      <4>3. QED
        BY <4>2 DEF Lease!Next
    <3>2. CASE ~(~rbusy /\ rd \cup wr # {})
      <4>1. Lease!Settle
        BY <2>2, <3>2 DEF IdleClock, Lease!Settle
      <4>2. QED
        BY <4>1 DEF Lease!Next
    <3>3. QED
      BY <3>1, <3>2
  <2>3. ASSUME NEW rbusy, ReqClock(rbusy)
        PROVE  Lease!Next
    <3>1. Lease!Settle
      BY <2>3 DEF ReqClock, Lease!Settle
    <3>2. QED
      BY <3>1 DEF Lease!Next
  <2>4. ASSUME NEW rdone \in BOOLEAN, XferClock(rdone)
        PROVE  Lease!Next
    <3>1. CASE rdone
      <4>1. owner # NoClient
        BY NoClientIsNoClient DEF TypeOK
      <4>2. Lease!Finish
        BY <2>4, <3>1, <4>1 DEF XferClock, Lease!Finish
      <4>3. QED
        BY <4>2 DEF Lease!Next
    <3>2. CASE ~rdone
      <4>1. Lease!Settle
        BY <2>4, <3>2 DEF XferClock, Lease!Settle
      <4>2. QED
        BY <4>1 DEF Lease!Next
    <3>3. QED
      BY <3>1, <3>2
  <2> QED BY <2>1, <2>2, <2>3, <2>4 DEF Next, Clock, vars
<1> QED
  BY <1>1, <1>2, TypeCorrect, DoneAfterLeaseHolds, PTL
  DEF Spec, ImplementsLease, Lease!Spec
=============================================================================
