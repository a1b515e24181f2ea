---------------------------- MODULE Nmea450Parser ----------------------------
(***************************************************************************)
(* Nmea450Parser of src/NMEA/nmea450_parser.cpp.  An IEC 61162-450         *)
(* datagram is "UdPbC", a TAG block and one sentence.  A g:line-total-id   *)
(* tag makes the sentence one line of a group; the parser keeps the lines  *)
(* of a group in m_nmea_group_pool until it has as many as the tag says,   *)
(* splices them into one sentence and hands that to m_assembled_cb.        *)
(*                                                                         *)
(* Left out: how a TAG block is spelled (SplitStr, stoi).  Tags arrive     *)
(* parsed, and the line number of a g: tag lies between 1 and its total.   *)
(***************************************************************************)
EXTENDS Integers, Sequences, SequencesExt, FiniteSetsExt, TLC

CONSTANTS
    Groups,      \* internal_group_id values: the source and the g: id
    Sentences,   \* the sentences on the network
    BodyXor,     \* sentence -> XOR of its bytes from the first comma to '*'
    Timeout      \* seconds a group may go without a line (106)

\* A byte is the set of its 1 bits; XOR is then the symmetric difference.
ASSUME ParserAssumption ==
    /\ Timeout \in Nat
    /\ \A s \in Sentences : BodyXor[s] \subseteq 0 .. 7

VARIABLES
    pool,     \* m_nmea_group_pool: id -> [total, lines, age], for its keys
    out,      \* what m_assembled_cb was last called with
    thrown    \* an exception has left ProcPacket

NoLines == <<>>

\* A sentence handed on: the sentences it is spliced from and, after its '*',
\* the checksum it carries (both without the "!AIVDM" all of them start with).
Sentence(parts, sum) == [parts |-> parts, sum |-> sum]
Nothing == Sentence(<<>>, {})

\* The k-th of a set of line numbers, in ascending order.
Nth(numbers, k) ==
    CHOOSE i \in numbers : Cardinality({j \in numbers : j <= i}) = k

\* Seeded fault: a loop that stops one line short.
SpliceOneShort(lines, total) ==
    LET there == DOMAIN lines \cap 1 .. total - 1
    IN  [k \in 1 .. Cardinality(there) |-> lines[Nth(there, k)]]

\* Lines 79-91: line 1, then what the others have between their first comma
\* and '*', inserted before the '*' of line 1.  A line the map lacks, for
\* which line 80 makes a "", has no comma and is passed over.
Splice(lines, total) ==
    LET there == DOMAIN lines \cap 1 .. total
    IN  [k \in 1 .. Cardinality(there) |-> lines[Nth(there, k)]]

\* What the pool holds of a group.
Held(g) == IF g \in DOMAIN pool THEN pool[g].lines ELSE NoLines

\* group.lines after line 73, with the entry operator[] creates at line 70.
LinesWith(g, i, s) ==
    [k \in DOMAIN Held(g) \cup {i} |-> IF k = i THEN s ELSE Held(g)[k]]

\* The pool after line 73: the newest line decides the total and the age.
PoolWith(g, total, i, s) ==
    [h \in DOMAIN pool \cup {g} |->
       IF h = g THEN [total |-> total, lines |-> LinesWith(g, i, s), age |-> 0]
                ELSE pool[h]]

\* Seeded fault: the highest line number taken for the number of lines.
IsCompleteByNumber(lines, total) == total \in DOMAIN lines

\* Line 76.
IsComplete(lines, total) == Cardinality(DOMAIN lines) = total

ParserInit ==
    /\ pool = <<>>
    /\ out = Nothing
    /\ thrown = FALSE

\* Lines 55-59: a sentence without a g: tag is handed on as it is.
ProcSingle(s) ==
    /\ ~ thrown
    /\ out' = Sentence(<<s>>, BodyXor[s])
    /\ UNCHANGED <<pool, thrown>>

\* Lines 66-76: line i of total of group g, and more lines to come.
KeepLine(g, total, i, s) ==
    /\ ~ thrown
    /\ ~ IsComplete(LinesWith(g, i, s), total)
    /\ pool' = PoolWith(g, total, i, s)
    /\ UNCHANGED <<out, thrown>>

\* Seeded fault: the group stays in the pool after it was handed on.
AssembleNoErase(g, total, i, s) ==
    /\ ~ thrown
    /\ LET lines == LinesWith(g, i, s)
       IN  /\ IsComplete(lines, total)
           /\ 1 \in DOMAIN lines
           /\ out' = Sentence(Splice(lines, total), BodyXor[lines[1]])
    /\ pool' = PoolWith(g, total, i, s)
    /\ UNCHANGED thrown

\* Lines 66-97: the line that makes the group complete.  The checksum of the
\* spliced sentence is the one line 1 came with.
Assemble(g, total, i, s) ==
    /\ ~ thrown
    /\ LET lines == LinesWith(g, i, s)
       IN  /\ IsComplete(lines, total)
           /\ 1 \in DOMAIN lines
           /\ out' = Sentence(Splice(lines, total), BodyXor[lines[1]])
    /\ pool' = [h \in DOMAIN pool \ {g} |-> pool[h]]
    /\ UNCHANGED thrown

\* Line 88 on a group that counts as complete without its line 1: the sentence
\* spliced so far is "", find('*') is npos and insert throws out_of_range.
\* Nothing on the way to the thread's entry point catches it.  The blank lines
\* that line 80 has put into the group by then are left out.
SpliceThrows(g, total, i, s) ==
    /\ ~ thrown
    /\ IsComplete(LinesWith(g, i, s), total)
    /\ 1 \notin DOMAIN LinesWith(g, i, s)
    /\ thrown' = TRUE
    /\ pool' = PoolWith(g, total, i, s)
    /\ UNCHANGED out

\* Seeded fault: a group is dropped a second after its latest line.
CleanupTimeoutsEarly ==
    /\ ~ thrown
    /\ pool' = [g \in {h \in DOMAIN pool : pool[h].age >= 1} |-> pool[g]]
    /\ UNCHANGED <<out, thrown>>

\* Seeded fault: the limit taken for minutes.
CleanupTimeoutsMinutes ==
    /\ ~ thrown
    /\ pool' = [g \in {h \in DOMAIN pool : pool[h].age <= 60 * Timeout} |->
                  pool[g]]
    /\ UNCHANGED <<out, thrown>>

\* Lines 102-112.
CleanupTimeouts ==
    /\ ~ thrown
    /\ pool' = [g \in {h \in DOMAIN pool : pool[h].age <= Timeout} |-> pool[g]]
    /\ UNCHANGED <<out, thrown>>

\* A second passes on steady_clock.  Ages above Timeout are all alike.
GrowOlder ==
    /\ pool' = [g \in DOMAIN pool |->
                  [pool[g] EXCEPT !.age = Min({@ + 1, Timeout + 1})]]
    /\ UNCHANGED <<out, thrown>>
==============================================================================
