------------------------------ MODULE PokeQueue ------------------------------
(***************************************************************************)
(* What poke.v promises of the bytes it accepts: a queue of bounded length *)
(* that gives them out in order, each once.  A byte that finds the queue   *)
(* full is not accepted, which here is no step at all.                     *)
(***************************************************************************)
EXTENDS Naturals, Sequences

CONSTANTS
  Entry,  \* an address and a byte
  Length  \* how many the queue holds

VARIABLE queue

Init == queue = <<>>

Put(e) == /\ Len(queue) < Length
          /\ queue' = Append(queue, e)

Take == /\ queue # <<>>
        /\ queue' = Tail(queue)

PutAndTake(e) == /\ queue # <<>> /\ Len(queue) < Length
                 /\ queue' = Append(Tail(queue), e)

Next == Take \/ \E e \in Entry : Put(e) \/ PutAndTake(e)

Spec == Init /\ [][Next]_queue
=============================================================================
