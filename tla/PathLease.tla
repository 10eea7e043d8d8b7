------------------------------ MODULE PathLease ------------------------------
(***************************************************************************)
(* What sd_arbiter.v promises its clients, with none of its registers: the *)
(* SD path is leased to one client at a time, for one job (a direction and *)
(* a sector) that is fixed when the lease starts, and a lease that ends    *)
(* with the job done is reported once, to the client that held it.         *)
(***************************************************************************)
CONSTANTS
  Client,   \* whoever may hold the path
  Sector,   \* sectors within an image
  NoClient  \* not a client: the path is free

VARIABLES
  holder,   \* the client that holds the path, or NoClient
  job,      \* its job while it holds the path
  finished  \* the clients told this instant that their job is done

leaseVars == <<holder, job, finished>>

Job   == [wr : BOOLEAN, sector : Sector]
NoJob == [idle |-> TRUE]

Init == /\ holder = NoClient
        /\ job = NoJob
        /\ finished = {}

(* A free path is leased to some client; nobody is told anything. *)
Lease == /\ holder = NoClient
         /\ holder' \in Client
         /\ job' \in Job
         /\ finished' = {}

(* The holder's job is done: it alone is told, and the path is free. *)
Finish == /\ holder # NoClient
          /\ holder' = NoClient
          /\ job' = NoJob
          /\ finished' = {holder}

(* The report lasts an instant; the lease stays as it is. *)
Settle == /\ finished' = {}
          /\ UNCHANGED <<holder, job>>

(* The power-on reset takes the path back and reports nothing. *)
Revoke == /\ holder' = NoClient
          /\ job' = NoJob
          /\ finished' = {}

Next == Lease \/ Finish \/ Settle \/ Revoke

Spec == Init /\ [][Next]_leaseVars
=============================================================================
