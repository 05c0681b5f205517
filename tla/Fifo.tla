-------------------------------- MODULE Fifo --------------------------------
(***************************************************************************)
(* What mor1kx_store_buffer promises to the load store unit: a queue of at *)
(* most Depth entries, one of which a cycle may take while it puts         *)
(* another.  The entry taken last stays at the output until the next one   *)
(* is taken; an entry put into an empty queue may be taken in the same     *)
(* cycle.  What is put is seen in put, so that the order in which entries  *)
(* come out is tied to the order in which they went in.                    *)
(***************************************************************************)
EXTENDS Naturals, Sequences

CONSTANTS Entry,   \* what one slot holds
          Depth    \* how many entries fit

VARIABLES queue,   \* the entries put and not yet taken, oldest first
          out,     \* the entry taken last
          put      \* the entry put last

FifoInit == /\ queue = <<>>
            /\ out \in Entry /\ put \in Entry

\* A cycle that may put an entry and may take one.
Put(e)     == /\ Len(queue) < Depth
              /\ queue' = Append(queue, e)
              /\ out' = out /\ put' = e

Take       == /\ queue # <<>>
              /\ out' = Head(queue)
              /\ queue' = Tail(queue)
              /\ put' = put

PutTake(e) == /\ Len(queue) < Depth
              /\ out' = Head(Append(queue, e))
              /\ queue' = Tail(Append(queue, e))
              /\ put' = e

FifoNext == \/ put' \in Entry /\ (Put(put') \/ PutTake(put'))
            \/ Take

FifoSpec == FifoInit /\ [][FifoNext]_<<queue, out, put>>
=============================================================================
