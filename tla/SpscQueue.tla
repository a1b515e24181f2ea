------------------------------ MODULE SpscQueue ------------------------------
(***************************************************************************)
(* LockFreeSpscQueue<T, Capacity> of src/NMEA/lock_free_queue.h: a ring of *)
(* Capacity slots, one producer thread calling Push, one consumer thread   *)
(* calling Pop, and two atomic indices that are never reduced modulo       *)
(* Capacity but run through the whole range of size_t and wrap.            *)
(*                                                                         *)
(* Memory model.  Each index has a single writer, so its modification      *)
(* order is 0, 1, 2, ... (mod IndexRange); position n of the order is the  *)
(* value after n stores.  The other thread may read any position it has    *)
(* not already gone past: w_view and r_view are the positions visible to   *)
(* the producer and to the consumer, and Propagate moves them up.  An      *)
(* acquire load of position n makes everything before the n-th release     *)
(* store happen before the code after the load: w_sync and r_sync record   *)
(* how far each thread has synchronised that way.                          *)
(*                                                                         *)
(* The slots are plain memory and a packet is some 530 bytes, so a copy    *)
(* has a beginning and an end: the slot holds Junk while it is half        *)
(* written, and a reader whose slot changes under it ends with Junk.       *)
(***************************************************************************)
EXTENDS Integers

CONSTANTS
    Items,      \* the packets the producer may push
    Junk,       \* a half-copied or default-constructed NetPacket
    Capacity,   \* the template argument
    Laps,       \* how often Capacity fits in the range of size_t
    MaxPush     \* bound: the number of successful pushes of a behaviour

\* The static_assert of line 19 makes Capacity a power of two, and a power
\* of two that fits in size_t is at most half of its range.
ASSUME CapacityAssumption == Capacity \in Nat \ {0}
ASSUME LapsAssumption     == Laps \in Nat /\ Laps >= 2
ASSUME ItemsAssumption    == Junk \notin Items
ASSUME MaxPushAssumption  == MaxPush \in Nat

VARIABLES
    buffer,       \* m_buffer: slot number -> packet
    m_write_idx,  \* the atomic the producer stores
    m_read_idx,   \* the atomic the consumer stores
    wpc,          \* where the producer is inside Push, "idle" outside it
    w_item,       \* its argument: the caller's packet
    rpc,          \* where the consumer is inside Pop, "idle" outside it
    r_item,       \* its reference argument, the destination of the copy
    out,          \* r_item when Pop last returned true
    w_view, r_view,    \* positions visible to the other thread's loads
    w_sync, r_sync,    \* positions acquired: what happens before the reader
    n_write, n_read    \* history: stores made to m_write_idx, m_read_idx

wvars == <<wpc, w_item, w_sync>>
rvars == <<rpc, r_item, r_sync, out>>
views == <<w_view, r_view>>
vars  == <<buffer, m_write_idx, m_read_idx, wvars, rvars, views,
           n_write, n_read>>

Slots == 0 .. Capacity - 1

\* Seeded fault: indices reduced modulo the capacity, so that a full ring and
\* an empty one look the same.
IndexRangeOneLap == Capacity

\* size_t arithmetic: 2^64 is Laps times Capacity.
IndexRange == Capacity * Laps

Word(n) == n % IndexRange

\* i & (Capacity - 1), which is i % Capacity for a power of two (34, 48).
SlotOf(i) == i % Capacity

\* The slot of the n-th packet, counted from 0 over the whole run.
SlotAt(n) == SlotOf(Word(n))

\* Seeded fault: the comparison promoted to a wider type, so that it does not
\* wrap with the indices.
IsFullPromoted(cur_write, cur_read) == cur_write - cur_read = Capacity

\* Line 30; IsEmpty is line 44.
IsFull(cur_write, cur_read) == (cur_write - cur_read) % IndexRange = Capacity

\* Seeded fault: the last packet is left in the ring.
IsEmptyEarly(cur_read, cur_write) ==
    cur_read = cur_write \/ Word(cur_read + 1) = cur_write

IsEmpty(cur_read, cur_write) == cur_read = cur_write

\* Seeded fault: the loads of lines 28 and 42 relaxed, as those of the
\* thread's own index are.
AcquireRelaxed(view, sync) == sync

\* memory_order_acquire against the release stores of lines 35 and 49.
Acquire(view, sync) == view

Init ==
    /\ buffer = [s \in Slots |-> Junk]
    /\ m_write_idx = 0 /\ m_read_idx = 0
    /\ wpc = "idle" /\ w_item = Junk
    /\ rpc = "idle" /\ r_item = Junk /\ out = Junk
    /\ w_view = 0 /\ r_view = 0
    /\ w_sync = 0 /\ r_sync = 0
    /\ n_write = 0 /\ n_read = 0
------------------------------------------------------------------------------
(***************************************************************************)
(* The producer: Push, lines 26-37.                                        *)
(***************************************************************************)

\* The loads of 27-28 and the test of 30; the ring looks full, return false.
PushFull ==
    /\ wpc = "idle"
    /\ IsFull(m_write_idx, Word(w_view))
    /\ w_sync' = Acquire(w_view, w_sync)
    /\ UNCHANGED <<buffer, m_write_idx, m_read_idx, wpc, w_item, rvars,
                   views, n_write, n_read>>

\* The loads of 27-28 and the test of 30; there is room for x.
PushAccept(x) ==
    /\ wpc = "idle"
    /\ n_write < MaxPush
    /\ ~ IsFull(m_write_idx, Word(w_view))
    /\ w_sync' = Acquire(w_view, w_sync)
    /\ wpc' = "begin"
    /\ w_item' = x
    /\ UNCHANGED <<buffer, m_write_idx, m_read_idx, rvars, views,
                   n_write, n_read>>

\* Line 34: the copy starts to overwrite the slot ...
PushCopyBegin ==
    /\ wpc = "begin"
    /\ buffer' = [buffer EXCEPT ![SlotOf(m_write_idx)] = Junk]
    /\ wpc' = "copy"
    /\ UNCHANGED <<m_write_idx, m_read_idx, w_item, w_sync, rvars, views,
                   n_write, n_read>>

\* ... and ends.
PushCopyEnd ==
    /\ wpc = "copy"
    /\ buffer' = [buffer EXCEPT ![SlotOf(m_write_idx)] = w_item]
    /\ wpc' = "store"
    /\ UNCHANGED <<m_write_idx, m_read_idx, w_item, w_sync, rvars, views,
                   n_write, n_read>>

\* Line 35: the release store; return true.
PushStore ==
    /\ wpc = "store"
    /\ m_write_idx' = Word(m_write_idx + 1)
    /\ n_write' = n_write + 1
    /\ wpc' = "idle"
    /\ UNCHANGED <<buffer, m_read_idx, w_item, w_sync, rvars, views, n_read>>
------------------------------------------------------------------------------
(***************************************************************************)
(* The consumer: Pop, lines 40-51.                                         *)
(***************************************************************************)

\* The loads of 41-42 and the test of 44; the ring looks empty, return false.
PopEmpty ==
    /\ rpc = "idle"
    /\ IsEmpty(m_read_idx, Word(r_view))
    /\ r_sync' = Acquire(r_view, r_sync)
    /\ UNCHANGED <<buffer, m_write_idx, m_read_idx, wvars, rpc, r_item, out,
                   views, n_write, n_read>>

\* The loads of 41-42 and the test of 44; there is a packet.
PopAccept ==
    /\ rpc = "idle"
    /\ ~ IsEmpty(m_read_idx, Word(r_view))
    /\ r_sync' = Acquire(r_view, r_sync)
    /\ rpc' = "begin"
    /\ UNCHANGED <<buffer, m_write_idx, m_read_idx, wvars, r_item, out,
                   views, n_write, n_read>>

\* Line 48: the copy out of the slot starts ...
PopCopyBegin ==
    /\ rpc = "begin"
    /\ r_item' = buffer[SlotOf(m_read_idx)]
    /\ rpc' = "copy"
    /\ UNCHANGED <<buffer, m_write_idx, m_read_idx, wvars, r_sync, out,
                   views, n_write, n_read>>

\* ... and ends: whole only if the slot still holds what it held.
PopCopyEnd ==
    /\ rpc = "copy"
    /\ r_item' = IF buffer[SlotOf(m_read_idx)] = r_item THEN r_item ELSE Junk
    /\ rpc' = "store"
    /\ UNCHANGED <<buffer, m_write_idx, m_read_idx, wvars, r_sync, out,
                   views, n_write, n_read>>

\* Line 49: the release store; return true.
PopStore ==
    /\ rpc = "store"
    /\ m_read_idx' = Word(m_read_idx + 1)
    /\ n_read' = n_read + 1
    /\ out' = r_item
    /\ rpc' = "idle"
    /\ UNCHANGED <<buffer, m_write_idx, wvars, r_item, r_sync, views, n_write>>
------------------------------------------------------------------------------
(***************************************************************************)
(* The memory system: a store becomes visible to the other core.           *)
(***************************************************************************)
PropagateRead ==
    /\ w_view < n_read
    /\ w_view' = w_view + 1
    /\ UNCHANGED <<buffer, m_write_idx, m_read_idx, wvars, rvars, r_view,
                   n_write, n_read>>

PropagateWrite ==
    /\ r_view < n_write
    /\ r_view' = r_view + 1
    /\ UNCHANGED <<buffer, m_write_idx, m_read_idx, wvars, rvars, w_view,
                   n_write, n_read>>

PushSteps == PushCopyBegin \/ PushCopyEnd \/ PushStore
PopSteps  == PopAccept \/ PopCopyBegin \/ PopCopyEnd \/ PopStore

Next ==
    \/ PushFull
    \/ \E x \in Items : PushAccept(x)
    \/ PushSteps
    \/ PopEmpty
    \/ PopSteps
    \/ PropagateRead
    \/ PropagateWrite

Spec == Init /\ [][Next]_vars
------------------------------------------------------------------------------
Packets == Items \cup {Junk}
Steps   == {"idle", "begin", "copy", "store"}

\* Every variable keeps its type; the indices stay inside a size_t.
TypeOK ==
    /\ buffer \in [Slots -> Packets]
    /\ m_write_idx \in 0 .. IndexRange - 1
    /\ m_read_idx \in 0 .. IndexRange - 1
    /\ wpc \in Steps /\ rpc \in Steps
    /\ w_item \in Packets /\ r_item \in Packets /\ out \in Packets
    /\ w_view \in Nat /\ r_view \in Nat
    /\ w_sync \in Nat /\ r_sync \in Nat
    /\ n_write \in Nat /\ n_read \in Nat

\* The producer has started to write the slot for packet n (34) ...
Written(n) == n < n_write \/ (n = n_write /\ wpc \in {"copy", "store"})
\* ... and the consumer to read it (48).
Read(n) == n < n_read \/ (n = n_read /\ rpc \in {"copy", "store"})

\* No data race on m_buffer in the sense of the C++ memory model.  While the
\* producer writes a slot, every read of that slot so far happens before the
\* write: the producer has acquired the consumer's release store that follows
\* it.  While the consumer reads a slot, every write of it happens before.
RaceFree ==
    /\ wpc = "copy" =>
         \A k \in 0 .. n_read :
             Read(k) /\ SlotAt(k) = SlotAt(n_write) => k < w_sync
    /\ rpc = "copy" =>
         \A k \in 0 .. n_write :
             Written(k) /\ SlotAt(k) = SlotAt(n_read) => k < r_sync

\* The tests of lines 30 and 44, made on wrapping words of which one may be
\* stale, say exactly what they mean: Push gives up only when Capacity
\* packets lie between its packet and the last pop it can see, and Pop only
\* when it has popped every packet it can see.  Never more than Capacity
\* packets are in the ring.
IndexTestsExact ==
    /\ IsFull(m_write_idx, Word(w_view)) <=> n_write - w_view = Capacity
    /\ IsEmpty(m_read_idx, Word(r_view)) <=> n_read = r_view
    /\ n_read <= n_write /\ n_write - n_read <= Capacity

\* The queue is a bounded FIFO: every packet pushed is popped once, whole, in
\* the order of the pushes, across any number of laps of the ring.
Fifo == INSTANCE BoundedFifo WITH
            Blank <- Junk,
            queue <- [i \in 1 .. n_write - n_read |->
                        buffer[SlotAt(n_read + i - 1)]]
Refinement == Fifo!Spec

\* The inductive invariant behind RaceFree, IndexTestsExact and Refinement.
\* The positions are ordered as the memory model lets them be; a call past its
\* test has room for its packet, or a packet to take, by what it has acquired;
\* and every slot between the two indices holds a whole packet.
IInv ==
    /\ TypeOK
    /\ m_write_idx = Word(n_write) /\ m_read_idx = Word(n_read)
    /\ w_sync <= w_view /\ w_view <= n_read
    /\ n_read <= r_sync /\ r_sync <= r_view /\ r_view <= n_write
    /\ n_write - w_sync <= Capacity
    /\ wpc # "idle" => n_write - w_sync < Capacity /\ w_item \in Items
    /\ rpc # "idle" => n_read < r_sync
    /\ \A n \in n_read .. n_write - 1 : buffer[SlotAt(n)] \in Items
    /\ wpc = "store" => buffer[SlotAt(n_write)] = w_item
    /\ rpc \in {"copy", "store"} => r_item = buffer[SlotAt(n_read)]
==============================================================================
