---------------------------- MODULE NetProcessor -----------------------------
(***************************************************************************)
(* The TCP sessions of src/NMEA/net_processor.cpp: ProcTcpSegment cuts the *)
(* byte stream of each connection into lines and gives them to             *)
(* m_raw_chunk_cb, among clients that close, vanish, pause and come back   *)
(* with the same addresses and ports, a callback that may throw, and the   *)
(* cleaner thread of GcService.                                            *)
(*                                                                         *)
(* A byte is <<c, p>>: the p-th of the c-th connection of its client.  Of  *)
(* what it holds only this matters: whether it is '\n'.  m_mutex is locked *)
(* exactly while serving # NoKey; the other methods are single steps,      *)
(* taken when it is free.  ProcUdpDatagram uses no session: see GcService. *)
(***************************************************************************)
EXTENDS Naturals, Sequences, FiniteSets, Functions

CONSTANTS
    Keys,         \* TcpSessionKey: the clients
    NoKey,
    Script,       \* key -> its connections: [len, ends], ends where '\n' is
    MaxSegment,   \* bytes in a segment
    Limit,        \* DDOS_PROTECTION_BUFFER_LIMIT
    Timeout,      \* TCP_INACTIVITY_TIMEOUT
    CleanPeriod,  \* the cleaner comes at least this often
    ReuseGap,     \* a client that vanished comes back after this time
    MaxThrows     \* bounds the exceptions of the callback

ASSUME NetAssumption ==
    /\ NoKey \notin Keys
    /\ \A k \in Keys : \A c \in DOMAIN Script[k] :
         Script[k][c].ends \subseteq 1 .. Script[k][c].len
    /\ {MaxSegment, Limit, Timeout, CleanPeriod} \subseteq Nat \ {0}
    /\ MaxThrows \in Nat
    /\ ReuseGap \in Nat

VARIABLES
    m_tcp_pool,      \* key -> [data, age]: the session; age for last_activity
    m_raw_chunk_cb,  \* whether a callback is registered
    serving,         \* the key of the ProcTcpSegment under way, or NoKey
    conn, sent,      \* key -> its connection, and how much of it was sent
    quiet,           \* key -> time since its client sent, up to MaxQuiet
    unclean,         \* time since the cleaner came
    out,             \* history: key -> the chunks given to the callback
    ended,           \* history: key -> the '\n' received
    gaps,            \* history: key -> bytes that follow a pause or a deaf time
    throws           \* history: how often the callback has thrown

clients == <<conn, sent, quiet>>
history == <<out, ended, gaps, throws>>
vars == <<m_tcp_pool, m_raw_chunk_cb, serving, clients, unclean, history>>

Stream(k, c)     == Script[k][c]
IsNewline(k, b)  == b[2] \in Stream(k, b[1]).ends
Newlines(k, s)   == {s[i] : i \in {j \in DOMAIN s : IsNewline(k, s[j])}}
Connected(k)     == conn[k] \in DOMAIN Script[k]
AtMost(bound, n) == IF n > bound THEN bound ELSE n
MaxQuiet         == IF ReuseGap > Timeout THEN ReuseGap ELSE Timeout + 1

Init ==
    /\ m_tcp_pool = << >>
    /\ m_raw_chunk_cb = FALSE
    /\ serving = NoKey
    /\ conn = [k \in Keys |-> 1]
    /\ sent = [k \in Keys |-> 0]
    /\ quiet = [k \in Keys |-> 0]
    /\ unclean = 0
    /\ out = [k \in Keys |-> << >>]
    /\ ended = [k \in Keys |-> {}]
    /\ gaps = [k \in Keys |-> {}]
    /\ throws = 0
------------------------------------------------------------------------------
\* Line 9, at start-up, but perhaps after the first segments.
SetOnRawDataChunkReady ==
    /\ ~ m_raw_chunk_cb /\ serving = NoKey
    /\ m_raw_chunk_cb' = TRUE
    /\ UNCHANGED <<m_tcp_pool, serving, clients, unclean, history>>

\* The next n bytes of k's client.
Payload(k, n) == [i \in 1 .. n |-> <<conn[k], sent[k] + i>>]

ClientSends(k, n) ==
    /\ Connected(k) /\ sent[k] + n <= Stream(k, conn[k]).len
    /\ sent' = [sent EXCEPT ![k] = @ + n]
    /\ quiet' = [quiet EXCEPT ![k] = 0]
    /\ UNCHANGED conn

\* Line 25: nobody is there to listen; the next byte is the first heard.
SegmentIgnored(k, n) ==
    /\ serving = NoKey /\ ~ m_raw_chunk_cb
    /\ ClientSends(k, n)
    /\ gaps' = [gaps EXCEPT ![k] = {<<conn[k], sent[k] + n + 1>>}]
    /\ UNCHANGED <<m_tcp_pool, m_raw_chunk_cb, serving, unclean, out, ended,
                   throws>>

\* Line 30: operator[] makes a session where there is none.
DataOf(k) == IF k \in DOMAIN m_tcp_pool THEN m_tcp_pool[k].data ELSE << >>

WithSession(k, session) ==
    [j \in DOMAIN m_tcp_pool \cup {k} |->
        IF j = k THEN session ELSE m_tcp_pool[j]]

\* Lines 27-34: lock, touch the session, append.
SegmentBegin(k, n) ==
    /\ serving = NoKey /\ m_raw_chunk_cb
    /\ ClientSends(k, n)
    /\ serving' = k
    /\ m_tcp_pool' = WithSession(k, [data |-> DataOf(k) \o Payload(k, n), age |-> 0])
    /\ ended' = [ended EXCEPT ![k] = @ \cup Newlines(k, Payload(k, n))]
    /\ gaps' = IF quiet[k] > Timeout
               THEN [gaps EXCEPT ![k] = @ \cup {<<conn[k], sent[k] + 1>>}]
               ELSE gaps
    /\ UNCHANGED <<m_raw_chunk_cb, unclean, out, throws>>

\* Line 38: the position of the first '\n', if there is one.
NewlinePos(k, data) == {i \in DOMAIN data :
    IsNewline(k, data[i]) /\ \A j \in 1 .. i - 1 : ~ IsNewline(k, data[j])}

\* Lines 38-44: the first line is cut off and then given to the callback.
CutLine(k) ==
    /\ serving = k
    /\ \E i \in NewlinePos(k, m_tcp_pool[k].data) :
         LET data == m_tcp_pool[k].data
         IN  /\ m_tcp_pool' = [m_tcp_pool EXCEPT
                                 ![k].data = SubSeq(data, i + 1, Len(data))]
             /\ out' = [out EXCEPT ![k] = Append(@, SubSeq(data, 1, i))]
    /\ UNCHANGED <<m_raw_chunk_cb, clients, unclean, ended, gaps>>

\* Seeded fault: the line is erased after the callback, thrown or not.
CallbackThrowsFirst(k) ==
    /\ serving = k /\ throws < MaxThrows
    /\ \E i \in NewlinePos(k, m_tcp_pool[k].data) :
         out' = [out EXCEPT ![k] = Append(@, SubSeq(m_tcp_pool[k].data, 1, i))]
    /\ serving' = NoKey
    /\ throws' = throws + 1
    /\ UNCHANGED <<m_tcp_pool, m_raw_chunk_cb, clients, unclean, ended, gaps>>

CallbackReturns(k) ==
    /\ CutLine(k)
    /\ UNCHANGED <<serving, throws>>

\* Line 44: an exception leaves the loop and the lock_guard unlocks; lines may
\* stay in the session, and line 49 is not reached.
CallbackThrows(k) ==
    /\ throws < MaxThrows
    /\ CutLine(k)
    /\ serving' = NoKey
    /\ throws' = throws + 1

\* Seeded fault: one byte too many.
LimitedLate(data) == IF Len(data) > Limit + 1 THEN << >> ELSE data

\* Lines 49-51.
Limited(data) == IF Len(data) > Limit THEN << >> ELSE data

\* Seeded fault: one line is cut off each segment, if instead of while.
SegmentEndAnyway(k) ==
    /\ serving = k
    /\ m_tcp_pool' = [m_tcp_pool EXCEPT ![k].data = Limited(@)]
    /\ serving' = NoKey
    /\ UNCHANGED <<m_raw_chunk_cb, clients, unclean, history>>

\* Lines 49-52: no '\n' is left.
SegmentEnd(k) ==
    /\ serving = k
    /\ NewlinePos(k, m_tcp_pool[k].data) = {}
    /\ m_tcp_pool' = [m_tcp_pool EXCEPT ![k].data = Limited(@)]
    /\ serving' = NoKey
    /\ UNCHANGED <<m_raw_chunk_cb, clients, unclean, history>>
------------------------------------------------------------------------------
\* A new connection, the same key.
Reconnect(k) ==
    /\ conn' = [conn EXCEPT ![k] = @ + 1]
    /\ sent' = [sent EXCEPT ![k] = 0]
    /\ UNCHANGED quiet

\* Seeded fault: the session survives the connection.
TerminateNothing(k) ==
    /\ serving = NoKey /\ Connected(k)
    /\ Reconnect(k)
    /\ UNCHANGED <<m_tcp_pool, m_raw_chunk_cb, serving, unclean, history>>

\* Lines 54-58: k's client has closed or reset its connection.
TerminateTcpSession(k) ==
    /\ serving = NoKey /\ Connected(k)
    /\ m_tcp_pool' = Restrict(m_tcp_pool, DOMAIN m_tcp_pool \ {k})
    /\ Reconnect(k)
    /\ UNCHANGED <<m_raw_chunk_cb, serving, unclean, history>>

\* k's client is gone and comes back later, with no FIN or RST in between.
Vanish(k) ==
    /\ serving # k /\ Connected(k) /\ quiet[k] >= ReuseGap
    /\ Reconnect(k)
    /\ UNCHANGED <<m_tcp_pool, m_raw_chunk_cb, serving, unclean, history>>

\* Seeded fault: a session with the beginning of a line is kept.
StaleAndEmpty == {k \in DOMAIN m_tcp_pool :
                    m_tcp_pool[k].age > Timeout /\ m_tcp_pool[k].data = << >>}

\* Line 66.
Stale == {k \in DOMAIN m_tcp_pool : m_tcp_pool[k].age > Timeout}

\* Lines 60-72.
CleanupTimeouts ==
    /\ serving = NoKey
    /\ m_tcp_pool' = Restrict(m_tcp_pool, DOMAIN m_tcp_pool \ Stale)
    /\ unclean' = 0
    /\ UNCHANGED <<m_raw_chunk_cb, serving, clients, history>>

\* A unit of time passes; the cleaner is not more than CleanPeriod late.
Tick ==
    /\ unclean < CleanPeriod
    /\ unclean' = unclean + 1
    /\ m_tcp_pool' = [k \in DOMAIN m_tcp_pool |->
                        [m_tcp_pool[k] EXCEPT !.age = AtMost(Timeout + 1, @ + 1)]]
    /\ quiet' = [k \in Keys |-> AtMost(MaxQuiet, quiet[k] + 1)]
    /\ UNCHANGED <<m_raw_chunk_cb, serving, conn, sent, history>>

Serve(k) == CallbackReturns(k) \/ CallbackThrows(k) \/ SegmentEnd(k)

Next ==
    \/ SetOnRawDataChunkReady
    \/ \E k \in Keys, n \in 1 .. MaxSegment :
         SegmentIgnored(k, n) \/ SegmentBegin(k, n)
    \/ \E k \in Keys : Serve(k) \/ TerminateTcpSession(k) \/ Vanish(k)
    \/ CleanupTimeouts
    \/ Tick

Spec == Init /\ [][Next]_vars

\* A call that was made runs to its end, time passes, and the cleaner comes.
\* No client has to send, to close or to come back.
FairSpec ==
    /\ Spec
    /\ \A k \in Keys : WF_vars(Serve(k))
    /\ WF_vars(Tick)
    /\ SF_vars(CleanupTimeouts)
------------------------------------------------------------------------------
\* The position after the '\n' before p, where p's line begins.
BeginsLine(k, c, s, p) ==
    /\ s = 1 \/ s - 1 \in Stream(k, c).ends
    /\ \A q \in s .. p - 1 : q \notin Stream(k, c).ends

LineBegin(k, c, p) == CHOOSE s \in 1 .. p : BeginsLine(k, c, s, p)

End(chunk) == chunk[Len(chunk)]

\* Why a chunk that ends at last may begin at first, after its line's begin:
\* the line has more than Limit bytes before its '\n', or it was interrupted by
\* a pause of more than Timeout or began before there was a callback.
TailExplained(c, begin, first, last, breaks) ==
    \/ first = begin
    \/ last - begin > Limit
    \/ \E p \in begin + 1 .. first : <<c, p>> \in breaks

IsLineOrTail(k, chunk, breaks) ==
    LET c     == chunk[1][1]
        first == chunk[1][2]
        last  == End(chunk)[2]
        begin == LineBegin(k, c, last)
    IN  /\ chunk = [i \in 1 .. last - first + 1 |-> <<c, first + i - 1>>]
        /\ first >= begin /\ last \in Stream(k, c).ends
        /\ TailExplained(c, begin, first, last, breaks)

\* What the callback is given is one line of one connection, or the tail of
\* one.  Lines of two connections are never mixed, nor two lines joined,
\* although the key may come back and sessions come and go.
LineOrTail ==
    \A k \in Keys : \A n \in DOMAIN out[k] : IsLineOrTail(k, out[k][n], gaps[k])

\* A chunk ends with a '\n' that was received, and when ProcTcpSegment has
\* returned nothing that is complete is kept back: each '\n' has its chunk.
Ends(chunks) == {End(chunks[n]) : n \in DOMAIN chunks}

AllHandedOn ==
    \A k \in Keys :
        /\ Ends(out[k]) \subseteq ended[k]
        /\ throws = 0 /\ serving # k => Ends(out[k]) = ended[k]

\* Also when callbacks throw: no line is handed on twice or out of order, and
\* those left in the session come after those handed on.  Nobody takes the
\* session away to which ProcTcpSegment has a reference.
Before(a, b) == a[1] < b[1] \/ (a[1] = b[1] /\ a[2] < b[2])

InOrderOnce ==
    /\ serving = NoKey \/ serving \in DOMAIN m_tcp_pool
    /\ \A k \in Keys :
         /\ \A i, j \in DOMAIN DataOf(k) :
              i < j => Before(DataOf(k)[i], DataOf(k)[j])
         /\ \A m, n \in DOMAIN out[k] :
              m < n => Before(End(out[k][m]), End(out[k][n]))
         /\ \A b \in Newlines(k, DataOf(k)), e \in Ends(out[k]) : Before(e, b)

\* What a session keeps between two calls is bounded, whatever the client
\* sends; each exception may leave the rest of one more segment.
MemoryBounded ==
    \A k \in DOMAIN m_tcp_pool :
        serving # k => Len(m_tcp_pool[k].data) <= Limit + throws * MaxSegment

\* A session whose client is gone for good leaves the pool.
SessionsLeave ==
    \A k \in Keys :
        k \in DOMAIN m_tcp_pool /\ ~ Connected(k) ~> k \notin DOMAIN m_tcp_pool
==============================================================================
