------------------------------ MODULE BoundedFifo ------------------------------
(***************************************************************************)
(* What a ring promises its two ends: a queue of bounded length.  What is  *)
(* put in comes out once, whole and in order.  A refused put and a look    *)
(* into an empty queue change nothing, so they are stuttering steps.       *)
(***************************************************************************)
EXTENDS Integers, Sequences

CONSTANTS
    Items,   \* what travels through the queue
    Size     \* how much of it the queue holds

VARIABLES
    queue,   \* what was put in and not taken out
    got      \* everything taken out, in the order it was

fifoVars == <<queue, got>>

FifoInit == queue = <<>> /\ got = <<>>

Put(x) ==
    /\ Len(queue) < Size
    /\ queue' = Append(queue, x)
    /\ UNCHANGED got

Take ==
    /\ queue # <<>>
    /\ got' = Append(got, Head(queue))
    /\ queue' = Tail(queue)

FifoNext == Take \/ \E x \in Items : Put(x)

FifoSpec == FifoInit /\ [][FifoNext]_fifoVars
=============================================================================
