------------------------------- MODULE Pipeline ------------------------------
(***************************************************************************)
(* The program of src/NMEA/main.cpp: a network thread that pushes packets  *)
(* into g_net_queue, a processing thread that pops them and gives them to  *)
(* the parsers, and a main thread that stops both through g_running.       *)
(*                                                                         *)
(* The steps of Push and Pop are those of SpscQueue; the threads decide    *)
(* when they are taken.  g_running is loaded relaxed: a thread may read    *)
(* TRUE for a while after main has stored FALSE, and FALSE from then on.   *)
(* ProcPacket is left out (Nmea450Parser): processed is what it is given.  *)
(***************************************************************************)
EXTENDS SpscQueue, Sequences

CONSTANT Script    \* the packets the network thread sends, in this order

ASSUME ScriptAssumption == Script \in Seq(Items) /\ MaxPush = Len(Script)

VARIABLES
    g_running,    \* the atomic flag
    producer,     \* where NetReceiveThreadLoop is
    consumer,     \* where ProcThreadLoop is
    main,         \* where main is
    processed     \* history: the packets given to ProcPacket

queue == vars
pvars == <<queue, g_running, producer, consumer, main, processed>>

PInit ==
    /\ Init
    /\ g_running = TRUE
    /\ producer = "send" /\ consumer = "test" /\ main = "sleep"
    /\ processed = <<>>
------------------------------------------------------------------------------
\* Lines 44, 52, 57: push the next packet, again and again while the queue is
\* full.  g_running is not looked at.
SendBegin ==
    /\ producer = "send" /\ n_write < Len(Script)
    /\ PushFull \/ PushAccept(Script[n_write + 1])
    /\ UNCHANGED <<g_running, producer, consumer, main, processed>>

SendStep ==
    /\ producer = "send"
    /\ PushSteps
    /\ UNCHANGED <<g_running, producer, consumer, main, processed>>

\* Line 60 is reached.
SendDone ==
    /\ producer = "send" /\ n_write = Len(Script)
    /\ producer' = "hold"
    /\ UNCHANGED <<queue, g_running, consumer, main, processed>>

\* Seeded fault: the thread waits for the queue to be drained as well.
HoldEndDrained ==
    /\ producer = "hold" /\ ~ g_running /\ n_read = n_write
    /\ producer' = "ended"
    /\ UNCHANGED <<queue, g_running, consumer, main, processed>>

\* Lines 60-64: FALSE is read; while TRUE is read the thread sleeps.
HoldEnd ==
    /\ producer = "hold" /\ ~ g_running
    /\ producer' = "ended"
    /\ UNCHANGED <<queue, g_running, consumer, main, processed>>
------------------------------------------------------------------------------
\* Line 117: TRUE is read, perhaps stale ...
PollTest ==
    /\ consumer = "test"
    /\ consumer' = "pop"
    /\ UNCHANGED <<queue, g_running, producer, main, processed>>

\* ... or FALSE, and packets may stay in the queue (129-131).
PollEnd ==
    /\ consumer = "test" /\ ~ g_running
    /\ consumer' = "ended"
    /\ UNCHANGED <<queue, g_running, producer, main, processed>>

\* Lines 119, 125-127: nothing to pop, yield.
PollEmpty ==
    /\ consumer = "pop" /\ PopEmpty
    /\ consumer' = "test"
    /\ UNCHANGED <<g_running, producer, main, processed>>

PollStep ==
    /\ consumer = "pop"
    /\ PopAccept \/ PopCopyBegin \/ PopCopyEnd
    /\ UNCHANGED <<g_running, producer, consumer, main, processed>>

PollPopped ==
    /\ consumer = "pop" /\ PopStore
    /\ consumer' = "proc"
    /\ UNCHANGED <<g_running, producer, main, processed>>

\* Line 124: local_packet goes to ProcPacket.
Proc ==
    /\ consumer = "proc"
    /\ processed' = Append(processed, r_item)
    /\ consumer' = "test"
    /\ UNCHANGED <<queue, g_running, producer, main>>
------------------------------------------------------------------------------
\* Lines 146-151.
MainStop ==
    /\ main = "sleep"
    /\ g_running' = FALSE
    /\ main' = "join"
    /\ UNCHANGED <<queue, producer, consumer, processed>>

\* Lines 153-157: both joins return.
MainExit ==
    /\ main = "join" /\ producer = "ended" /\ consumer = "ended"
    /\ main' = "exit"
    /\ UNCHANGED <<queue, g_running, producer, consumer, processed>>

Propagate ==
    /\ PropagateRead \/ PropagateWrite
    /\ UNCHANGED <<g_running, producer, consumer, main, processed>>

PNext ==
    \/ SendBegin \/ SendStep \/ SendDone \/ HoldEnd
    \/ PollTest \/ PollEnd \/ PollEmpty \/ PollStep \/ PollPopped \/ Proc
    \/ MainStop \/ MainExit
    \/ Propagate

PSpec == PInit /\ [][PNext]_pvars

\* The threads are scheduled and a store is seen in finite time: a thread that
\* keeps testing g_running after the store reads FALSE in the end.  Main may let
\* the threads run as long as it likes.
PFairSpec ==
    /\ PSpec
    /\ WF_pvars(SendBegin \/ SendStep \/ SendDone) /\ WF_pvars(HoldEnd)
    /\ WF_pvars(PollTest \/ PollEmpty \/ PollStep \/ PollPopped \/ Proc)
    /\ SF_pvars(PollEnd)
    /\ WF_pvars(MainExit)
    /\ WF_pvars(PropagateRead /\ Propagate)
    /\ WF_pvars(PropagateWrite /\ Propagate)
------------------------------------------------------------------------------
\* Every variable keeps its type, and neither thread leaves its loop in the
\* middle of a Push or a Pop.
PTypeOK ==
    /\ g_running \in BOOLEAN
    /\ producer \in {"send", "hold", "ended"}
    /\ consumer \in {"test", "pop", "proc", "ended"}
    /\ main \in {"sleep", "join", "exit"}
    /\ processed \in Seq(Items)
    /\ wpc # "idle" => producer = "send"
    /\ rpc # "idle" => consumer = "pop"

\* ProcPacket is given the packets of the script, whole and in order, none
\* twice and none skipped, up to the moment the processing thread stops.
ProcessedInOrder ==
    /\ Len(processed) <= Len(Script)
    /\ processed = SubSeq(Script, 1, Len(processed))
    /\ Len(processed) = n_read - (IF consumer = "proc" THEN 1 ELSE 0)

\* The inductive invariant behind it, on top of that of the queue: the slots
\* between the two indices hold the packets of the script that are on their
\* way, the producer has the next one in its hands and the consumer the last
\* one it popped.
InFlight(n) == buffer[SlotAt(n)] = Script[n + 1]

PInv ==
    /\ IInv
    /\ PTypeOK
    /\ ProcessedInOrder
    /\ n_write <= Len(Script)
    /\ \A n \in n_read .. n_write - 1 : InFlight(n)
    /\ wpc # "idle" => n_write < Len(Script) /\ w_item = Script[n_write + 1]
    /\ consumer = "proc" => n_read > 0 /\ r_item = Script[n_read]

\* A packet that was pushed is processed, or the processing thread has been
\* stopped with it still in the queue.
Processed ==
    \A n \in 1 .. MaxPush :
        n_write >= n ~> Len(processed) >= n \/ consumer = "ended"

\* The program ends once main has asked for it, with one exception: the
\* processing thread has left a full queue behind and packets are left to send,
\* so that the network thread, which does not look at g_running in the loops of
\* lines 44, 52 and 57, pushes in vain and the join of line 153 never returns.
EndsOrFull ==
    main = "join" ~>
        \/ main = "exit"
        \/ /\ consumer = "ended" /\ producer = "send"
           /\ n_write < Len(Script) /\ n_write - n_read = Capacity
==============================================================================
