----------------------------- MODULE BoundedFifo -----------------------------
(***************************************************************************)
(* What LockFreeSpscQueue (src/NMEA/lock_free_queue.h) promises its two    *)
(* clients, without indices, slots or memory order: a FIFO queue of at     *)
(* most Capacity packets.  A Push or Pop that returns false changes        *)
(* nothing, so it is a stuttering step here.                               *)
(***************************************************************************)
EXTENDS Naturals, Sequences

CONSTANTS
    Items,      \* the packets the producer may push
    Blank,      \* what the consumer's packet holds before the first Pop
    Capacity    \* the most packets the queue holds

VARIABLES
    queue,   \* the packets pushed and not yet popped, oldest first
    out      \* the packet the last successful Pop handed to its caller

vars == <<queue, out>>

Init == queue = <<>> /\ out = Blank

\* Push(x) that returns true.
Put(x) ==
    /\ Len(queue) < Capacity
    /\ queue' = Append(queue, x)
    /\ out' = out

\* Pop that returns true.
Take ==
    /\ queue # <<>>
    /\ out' = Head(queue)
    /\ queue' = Tail(queue)

Next == Take \/ \E x \in Items : Put(x)

Spec == Init /\ [][Next]_vars
==============================================================================
