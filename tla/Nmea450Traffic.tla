---------------------------- MODULE Nmea450Traffic ---------------------------
(***************************************************************************)
(* Nmea450Parser at work: talkers that send groups line by line and use    *)
(* group ids again, a network that loses, duplicates and reorders          *)
(* datagrams, and a caller of CleanupTimeouts, the cleaner thread of       *)
(* GcService or NmeaDecoder::timing of the plug-in.                        *)
(*                                                                         *)
(* Time is counted in whole seconds (Tick).  A datagram is delivered or    *)
(* lost in the second in which it is sent.  Of each datagram it is noted   *)
(* how many copies have come, so that what is promised of a message can    *)
(* be said of its own datagrams, whatever happened to those of others.     *)
(***************************************************************************)
EXTENDS Nmea450Parser

CONSTANTS
    Messages,     \* the groups sent, numbered
    Deployments   \* the surroundings of the parser, records of what follows

VARIABLE deployment

GroupOf == deployment.groupOf          \* message -> its group id
LinesOf == deployment.linesOf          \* -> the total of its g: tag, 0 if it has none
HasCleaner == deployment.cleaner       \* FALSE in main.cpp: nothing calls CleanupTimeouts
CleanPeriod == deployment.cleanPeriod  \* seconds between two of its calls at most
ReuseGap == deployment.reuseGap        \* that a talker leaves before it uses an id again
LineGap == deployment.lineGap          \* between two lines of a group at most
Losses == deployment.losses            \* bound: datagrams the network loses
Copies == deployment.copies            \* bound: datagrams the network duplicates

\* The number of datagrams of a message, and its sentences.
Size(m) == Max({1, LinesOf[m]})
SentencesOf(m) == {<<m, i>> : i \in 1 .. Size(m)}
Whole(m) == [i \in 1 .. Size(m) |-> <<m, i>>]

ASSUME TrafficAssumption ==
    /\ Sentences \subseteq Messages \X (Nat \ {0})
    /\ \A d \in Deployments :
        /\ \A m \in Messages :
             /\ d.groupOf[m] \in Groups /\ d.linesOf[m] \in Nat
             /\ {<<m, i>> : i \in 1 .. Max({1, d.linesOf[m]})} \subseteq Sentences
        /\ d.cleanPeriod \in Nat \ {0} /\ d.cleaner \in BOOLEAN
        /\ d.reuseGap \in Nat /\ d.lineGap \in Nat
        /\ d.losses \in Nat /\ d.copies \in Nat

VARIABLES
    sent,     \* message -> the number of its datagrams sent
    quiet,    \* id -> seconds since it was last used, counted up to MaxQuiet
    net,      \* sentence -> copies of its datagram in flight
    losses,   \* datagrams lost so far
    copies,   \* datagrams duplicated so far
    uncleaned,\* seconds since CleanupTimeouts last ran
    arrived,  \* history: sentence -> copies of its datagram that have come
    count     \* history: message -> times it was handed on whole

MaxQuiet == Max({ReuseGap, LineGap})

parser == <<pool, out, thrown>>
vars == <<deployment, parser, sent, quiet, net, losses, copies, uncleaned,
          arrived, count>>

Init ==
    /\ deployment \in Deployments
    /\ ParserInit
    /\ sent = [m \in Messages |-> 0]
    /\ quiet = [g \in Groups |-> MaxQuiet]
    /\ net = [s \in Sentences |-> 0]
    /\ losses = 0 /\ copies = 0
    /\ uncleaned = 0
    /\ arrived = [s \in Sentences |-> 0]
    /\ count = [m \in Messages |-> 0]
------------------------------------------------------------------------------
\* A talker starts a message when its id is free, or sends its next line.
Send(m) ==
    /\ ~ thrown
    /\ sent[m] < Size(m)
    /\ sent[m] = 0 =>
         /\ \A n \in Messages : n < m => sent[n] > 0
         /\ \A n \in Messages \ {m} :
              GroupOf[n] = GroupOf[m] => sent[n] \in {0, Size(n)}
         /\ quiet[GroupOf[m]] >= ReuseGap
    /\ sent' = [sent EXCEPT ![m] = @ + 1]
    /\ quiet' = [quiet EXCEPT ![GroupOf[m]] = 0]
    /\ net' = [net EXCEPT ![<<m, sent[m] + 1>>] = @ + 1]
    /\ UNCHANGED <<deployment, parser, losses, copies, uncleaned, arrived, count>>

Lose(s) ==
    /\ net[s] > 0 /\ losses < Losses
    /\ net' = [net EXCEPT ![s] = @ - 1]
    /\ losses' = losses + 1
    /\ UNCHANGED <<deployment, parser, sent, quiet, copies, uncleaned, arrived, count>>

Duplicate(s) ==
    /\ net[s] > 0 /\ copies < Copies
    /\ net' = [net EXCEPT ![s] = @ + 1]
    /\ copies' = copies + 1
    /\ UNCHANGED <<deployment, parser, sent, quiet, losses, uncleaned, arrived, count>>

Arrive(s) ==
    /\ net[s] > 0
    /\ net' = [net EXCEPT ![s] = @ - 1]
    /\ arrived' = [arrived EXCEPT ![s] = @ + 1]

\* ProcPacket on the datagram (lines 7-34): a case of HandleTagBlock.
Deliver(m, i) ==
    LET s == <<m, i>>  g == GroupOf[m]  total == LinesOf[m]
    IN  /\ Arrive(s)
        /\ \/ /\ IF total = 0 THEN ProcSingle(s) ELSE Assemble(g, total, i, s)
              /\ count' = IF out'.parts = Whole(m)
                          THEN [count EXCEPT ![m] = @ + 1] ELSE count
           \/ /\ total # 0
              /\ KeepLine(g, total, i, s) \/ SpliceThrows(g, total, i, s)
              /\ UNCHANGED count
        /\ UNCHANGED <<deployment, sent, quiet, losses, copies, uncleaned>>

\* A datagram comes when an exception has ended the thread of ProcPacket.
Unheard(s) ==
    /\ thrown
    /\ Arrive(s)
    /\ UNCHANGED <<deployment, parser, sent, quiet, losses, copies, uncleaned, count>>

Clean ==
    /\ HasCleaner
    /\ CleanupTimeouts
    /\ uncleaned' = 0
    /\ UNCHANGED <<deployment, sent, quiet, net, losses, copies, arrived, count>>

Tick ==
    /\ ~ thrown
    /\ \A s \in Sentences : net[s] = 0
    /\ \A m \in Messages :
         sent[m] \in {0, Size(m)} \/ quiet[GroupOf[m]] < LineGap
    /\ HasCleaner => uncleaned < CleanPeriod
    /\ GrowOlder
    /\ quiet' = [g \in Groups |-> Min({quiet[g] + 1, MaxQuiet})]
    /\ uncleaned' = IF HasCleaner THEN uncleaned + 1 ELSE 0
    /\ UNCHANGED <<deployment, sent, net, losses, copies, arrived, count>>

Next ==
    \/ \E m \in Messages : Send(m)
    \/ \E s \in Sentences : Lose(s)
    \/ \E s \in Sentences : Duplicate(s)
    \/ \E s \in Sentences : Deliver(s[1], s[2])
    \/ \E s \in Sentences : Unheard(s)
    \/ Clean
    \/ Tick

Spec == Init /\ [][Next]_vars

\* Time goes on, the cleaner runs, talkers finish what they have to send and
\* the network delivers or loses every datagram.
FairSpec ==
    /\ Spec
    /\ WF_vars(Tick)
    /\ WF_vars(Clean)
    /\ WF_vars(\E m \in Messages : Send(m))
    /\ \A s \in Sentences : WF_vars(Deliver(s[1], s[2]))
------------------------------------------------------------------------------
\* A cleaner runs, a talker leaves an id alone until the cleaner has dropped what
\* is left of a group, and does not let one wait for its lines for too long.
Patient ==
    /\ HasCleaner /\ LineGap <= Timeout
    /\ ReuseGap >= Timeout + CleanPeriod + 1

\* What is handed to the text layer is one whole message, its lines in order:
\* lines of different messages that used the same id never meet, although
\* the pool holds what loss and duplication left behind.
WholeMessages ==
    Patient => out = Nothing \/ \E m \in Messages : out.parts = Whole(m)

\* No exception leaves ProcPacket.
NeverThrows == ~ thrown

\* None does where a cleaner has the time to drop what is left of a group.
ThrowsNotIfPatient == Patient => NeverThrows

\* Under the same hypothesis a message each of whose datagrams has come, be it as
\* a copy, has been handed on, as slow as talkers may be with its lines and in
\* whatever order, and whatever the network did to other messages under the same
\* id.  Under none is one handed on more often than each of its datagrams has come.
HasCome(m) == \A s \in SentencesOf(m) : arrived[s] > 0
HandedOn ==
    \A m \in Messages :
        /\ Patient /\ HasCome(m) => count[m] >= 1
        /\ \A s \in SentencesOf(m) : count[m] <= arrived[s]

\* What goes wrong at one id stays there, but for the exception that ends the
\* thread.  A message whose id no other message uses is handed on whole or not at
\* all; it is handed on when each of its datagrams has come, with or without a
\* cleaner, if that cleaner does not drop it between two of its lines and if the
\* thread of ProcPacket has not been ended before; and its group is never the one
\* that ends it, the one that counts as complete and is still in the pool.  So it
\* is whatever others do with their ids and however often its own datagrams come.
Unshared(m) == \A n \in Messages \ {m} : GroupOf[n] # GroupOf[m]
OwnIdUnharmed ==
    \A m \in {n \in Messages : Unshared(n)} :
        /\ (\E k \in DOMAIN out.parts : out.parts[k] \in SentencesOf(m))
              => out.parts = Whole(m)
        /\ HasCome(m) /\ (HasCleaner => LineGap <= Timeout)
              => count[m] >= 1 \/ thrown
        /\ GroupOf[m] \in DOMAIN pool =>
              ~ IsComplete(pool[GroupOf[m]].lines, pool[GroupOf[m]].total)

\* The checksum a sentence is handed on with is the one the text layer will
\* compute (Nmea0183Parser::ValidateChecksum).
ChecksumHolds ==
    out.sum = FoldSeq(SymDiff, {}, [i \in 1 .. Len(out.parts) |->
                                      BodyXor[out.parts[i]]])

\* With a cleaner nothing stays in the pool for ever.
Drained == <>[](HasCleaner => DOMAIN pool = {})
==============================================================================
