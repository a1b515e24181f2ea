------------------------------ MODULE DhfModule ------------------------------
(***************************************************************************)
(* The DHF plug-in NmeaDecoder of src/nmea_decoder.cpp with its Nmea450-   *)
(* Parser: the host initialises and frees it, gives it pieces of a byte    *)
(* stream and IEC 61162-450 datagrams (workData), lets it clean up         *)
(* (timing), reads and writes its settings; it sends what its filters let  *)
(* through and keeps statistics.  The host makes one call at a time.       *)
(*                                                                         *)
(* A byte of the stream is its position in Raw, which says what it is.     *)
(* Left out: recv, send and m_src, which nothing in the plug-in reads, and *)
(* the form, apart from the clicks that change the settings.               *)
(***************************************************************************)
EXTENDS Nmea450Parser

CONSTANTS
    Raw,         \* the byte stream: LineEnd, or some other byte
    LineEnd,     \* '\r' or '\n'
    Text,        \* sentence -> its bytes
    Kind,        \* sentence -> [ais, type, pos], see below
    NoType,      \* the type of a sentence whose AIS payload cannot be read
    Datagrams,   \* [g, total, i, s]: line i of total of g; total 0, no g: tag
    MaxChunk,    \* bytes in a piece of the stream
    MaxStarts    \* bounds the calls of Initialize

\* Kind[s].ais: s is a VDM or VDO; type: its AIS message type, or its
\* sentenceType; pos: it has a position.
ASSUME ModuleAssumption ==
    /\ \A s \in Sentences : Kind[s].ais \in BOOLEAN
    /\ \A s \in Sentences : Kind[s].pos \in BOOLEAN /\ Text[s] # << >>
    /\ \A d \in Datagrams : d.g \in Groups /\ d.s \in Sentences
    /\ MaxChunk \in Nat \ {0} /\ MaxStarts \in Nat

VARIABLES
    phase,          \* the host has made, initialised or freed the module
    busy,           \* ProcRawBytes is in its loop
    m_lineBuffer,
    settings,       \* [filter, coordinatesOnly]: m_filter, m_coordinatesOnly
    saved,          \* the settings the host has read, as text
    stats,          \* the eight counters
    fed, left,      \* bytes and datagrams the host has given, has to give
    starts,         \* calls of Initialize
    begin,          \* history: fed when m_lineBuffer was last cleared
    lines,          \* history: the lines given to ProcMsg since then
    given, failed,  \* history: messages and failed sends since Initialize
    sent,           \* history: {what the host was last sent under these settings}
    chosen,         \* history: the settings last chosen
    meant           \* history: what was chosen when saved was read

parser  == <<pool, out, thrown>>
setup   == <<settings, saved, chosen, meant>>
stream  == <<m_lineBuffer, fed, begin, lines>>
results == <<stats, given, failed, sent>>
vars == <<parser, phase, busy, stream, setup, results, left, starts>>

Filters == {"all", "nmea", "ais"}
Default == [filter |-> "all", coordinatesOnly |-> FALSE]
NoCounts == [t \in {} |-> 0]
Zero == [processed |-> 0, rejected |-> 0, aisDecoded |-> 0, pos |-> 0,
         nmeaPos |-> 0, aisPos |-> 0, byType |-> NoCounts, byAis |-> NoCounts]

Init ==
    /\ ParserInit
    /\ phase = "made" /\ busy = FALSE
    /\ m_lineBuffer = << >>
    /\ settings = Default /\ saved = << >>
    /\ chosen = Default /\ meant = Default
    /\ stats = Zero
    /\ fed = 0 /\ left = Datagrams /\ starts = 0 /\ begin = 0
    /\ lines = << >> /\ given = 0 /\ failed = 0 /\ sent = {}

Idle == ~ busy /\ ~ thrown
------------------------------------------------------------------------------
(***************************************************************************)
(* ProcMsg, lines 237-261.                                                 *)
(***************************************************************************)
XorOf(parts) == FoldSeq(SymDiff, {}, [i \in DOMAIN parts |-> BodyXor[parts[i]]])
Garbage == Nothing

\* Lines 245-246: Nmea0183Parser::ParseMsg has called m_header_cb.
Parsed(msg) ==
    msg # Garbage /\ XorOf(msg.parts) = msg.sum

IsAis(msg)  == Kind[msg.parts[1]].ais
TypeOf(msg) == Kind[msg.parts[1]].type
HasPos(msg) == Kind[msg.parts[1]].pos

\* Seeded fault: && and || without the parentheses.
IsAllowedLoose(msg) ==
    \/ (settings.coordinatesOnly => HasPos(msg)) /\ settings.filter = "all"
    \/ settings.filter = "ais" /\ IsAis(msg)
    \/ settings.filter = "nmea" /\ ~ IsAis(msg)

\* Line 263.
IsAllowed(msg) ==
    /\ settings.coordinatesOnly => HasPos(msg)
    /\ \/ settings.filter = "all"
       \/ settings.filter = "ais" /\ IsAis(msg)
       \/ settings.filter = "nmea" /\ ~ IsAis(msg)

\* operator[] of std::map and ++.
Increment(counts, t) ==
    [u \in DOMAIN counts \cup {t} |->
        (IF u \in DOMAIN counts THEN counts[u] ELSE 0) + (IF u = t THEN 1 ELSE 0)]

\* Lines 249-258.
Counted(msg) ==
    LET ais == IF IsAis(msg) THEN 1 ELSE 0
        pos == IF HasPos(msg) THEN 1 ELSE 0
    IN  [stats EXCEPT
            !.processed = @ + 1,
            !.byType = Increment(@, IF IsAis(msg) THEN "VDM" ELSE TypeOf(msg)),
            !.aisDecoded = @ + ais,
            !.byAis = IF IsAis(msg) THEN Increment(@, TypeOf(msg)) ELSE @,
            !.pos = @ + pos,
            !.aisPos = @ + pos * ais,
            !.nmeaPos = @ + pos * (1 - ais)]

Rejected(counters) == [counters EXCEPT !.rejected = @ + 1]

\* Lines 245 and 251.
IsAccepted(msg) == Parsed(msg) /\ (IsAis(msg) => TypeOf(msg) # NoType)

\* SendDataProc may take all of the packet or not (264); a sentence that could
\* not be sent is counted as rejected besides (259).
ProcMsg(msg) ==
    /\ given' = given + 1
    /\ \/ /\ ~ IsAccepted(msg)
          /\ stats' = Rejected(stats)
          /\ UNCHANGED <<sent, failed>>
       \/ /\ IsAccepted(msg) /\ ~ IsAllowed(msg)
          /\ stats' = Counted(msg)
          /\ UNCHANGED <<sent, failed>>
       \/ /\ IsAccepted(msg) /\ IsAllowed(msg)
          /\ stats' = Counted(msg)
          /\ sent' = {msg}
          /\ UNCHANGED failed
       \/ /\ IsAccepted(msg) /\ IsAllowed(msg)
          /\ stats' = Rejected(Counted(msg))
          /\ failed' = failed + 1
          /\ UNCHANGED sent
------------------------------------------------------------------------------
(***************************************************************************)
(* Data: workData, lines 203-235, and timing.                              *)
(***************************************************************************)
IsEnd(p) == Raw[p] = LineEnd

\* Lines 203-211 and 229: n more bytes of the stream.
WorkRaw(n) ==
    /\ phase = "ready" /\ Idle /\ fed + n <= Len(Raw)
    /\ m_lineBuffer' = m_lineBuffer \o [i \in 1 .. n |-> fed + i]
    /\ fed' = fed + n
    /\ busy' = TRUE
    /\ UNCHANGED <<parser, phase, begin, lines, setup, results, left, starts>>

\* The sentence a line is, if it is one.
MsgOf(line) ==
    LET text == [i \in DOMAIN line |-> Raw[line[i]]]
        is   == {s \in Sentences : Text[s] = text}
    IN  IF is = {} THEN Garbage
        ELSE LET s == CHOOSE t \in is : TRUE IN Sentence(<<s>>, BodyXor[s])

\* Line 230: the first line end, if there is one.
LineEndPos == {i \in DOMAIN m_lineBuffer :
    IsEnd(m_lineBuffer[i]) /\ \A j \in 1 .. i - 1 : ~ IsEnd(m_lineBuffer[j])}

\* Seeded fault: all of the buffer is erased with the line.
RestDropped(end) == << >>

\* Lines 231-233: what is left behind the line end and those next to it.
Rest(end) ==
    LET behind == {i \in end + 1 .. Len(m_lineBuffer) : ~ IsEnd(m_lineBuffer[i])}
    IN  IF behind = {} THEN << >>
        ELSE SubSeq(m_lineBuffer, Min(behind), Len(m_lineBuffer))

\* Lines 230-233: one round of the loop.
CutLine ==
    /\ busy
    /\ \E end \in LineEndPos :
         LET line == SubSeq(m_lineBuffer, 1, end - 1)
         IN  /\ m_lineBuffer' = Rest(end)
             /\ IF line = << >> THEN UNCHANGED <<lines, results>>
                ELSE /\ lines' = Append(lines, line)
                     /\ ProcMsg(MsgOf(line))
    /\ UNCHANGED <<parser, phase, busy, fed, begin, setup, left, starts>>

RawDone ==
    /\ busy /\ LineEndPos = {}
    /\ busy' = FALSE
    /\ UNCHANGED <<parser, phase, stream, setup, results, left, starts>>

\* Line 208: a datagram.  Initialize has made ProcMsg the parser's callback.
Work450(d) ==
    /\ phase = "ready" /\ Idle /\ d \in left
    /\ left' = left \ {d}
    /\ \/ /\ IF d.total = 0 THEN ProcSingle(d.s)
                            ELSE Assemble(d.g, d.total, d.i, d.s)
          /\ ProcMsg(out')
       \/ /\ d.total # 0
          /\ KeepLine(d.g, d.total, d.i, d.s) \/ SpliceThrows(d.g, d.total, d.i, d.s)
          /\ UNCHANGED results
    /\ UNCHANGED <<phase, busy, stream, setup, starts>>

\* Line 212.
Timing ==
    /\ phase = "ready" /\ ~ busy /\ CleanupTimeouts
    /\ UNCHANGED <<phase, busy, stream, setup, results, left, starts>>

Tick ==
    /\ Idle /\ GrowOlder
    /\ UNCHANGED <<phase, busy, stream, setup, results, left, starts>>
------------------------------------------------------------------------------
(***************************************************************************)
(* Life cycle, lines 99-110, and settings, lines 149-196.                  *)
(***************************************************************************)

\* m_lineBuffer.clear(), lines 106 and 110.
BufferCleared == begin' = fed /\ lines' = << >> /\ m_lineBuffer' = << >>

\* Seeded fault: the statistics by type are not reset.
Fresh == [Zero EXCEPT !.byType = stats.byType]

\* Lines 102-105.
Reset == Zero

\* Lines 99-109.  The groups in the pool of m_nmea450 stay where they are.
Initialize ==
    /\ Idle /\ phase # "ready" /\ starts < MaxStarts
    /\ phase' = "ready" /\ starts' = starts + 1
    /\ BufferCleared
    /\ stats' = Reset /\ given' = 0 /\ failed' = 0
    /\ UNCHANGED <<parser, busy, fed, setup, left, sent>>

\* Line 110, which Destructor does as well.
Free ==
    /\ Idle /\ phase = "ready"
    /\ phase' = "freed"
    /\ BufferCleared
    /\ UNCHANGED <<parser, busy, fed, setup, results, left, starts>>

\* A click on the form, line 288.  It may come between any two calls: that
\* the controls are disabled while the host processes (279) is left out.
Click ==
    /\ Idle
    /\ \E f \in Filters, c \in BOOLEAN :
         /\ settings' = [filter |-> f, coordinatesOnly |-> c]
         /\ chosen' = settings'
    /\ sent' = {}
    /\ UNCHANGED <<parser, phase, busy, stream, stats, given, failed, left, starts>>
    /\ UNCHANGED <<saved, meant>>

\* Lines 178-180: the settings as text.
Printed(s) == << s.filter, IF s.coordinatesOnly THEN "true" ELSE "false" >>

\* Seeded fault: an unknown value leaves the filter as it is, and "all" is one.
FilterOfKnown(value) == IF value \in {"nmea", "ais"} THEN value ELSE settings.filter

\* Lines 155-157.
FilterOf(value) == IF value \in {"nmea", "ais"} THEN value ELSE "all"

\* Lines 27-30.
GetBool(value) == value \in {"true", "1"}

\* getModuleParamsSetting, lines 169-182.
GetSettings ==
    /\ Idle
    /\ saved' = Printed(settings) /\ meant' = chosen
    /\ UNCHANGED <<parser, phase, busy, stream, results, left, starts, settings, chosen>>

\* Seeded fault: one of the two settings is not put back.
GetDefaultsHalfRestored ==
    /\ Idle
    /\ settings' = [settings EXCEPT !.coordinatesOnly = FALSE]
    /\ saved' = Printed(Default) /\ meant' = Default
    /\ UNCHANGED <<parser, phase, busy, stream, results, left, starts, chosen>>

\* getDefaultModuleParams, lines 189-196: the settings are put aside, the
\* defaults printed and the settings put back.
GetDefaults ==
    /\ Idle
    /\ saved' = Printed(Default) /\ meant' = Default
    /\ UNCHANGED <<parser, phase, busy, stream, results, left, starts, settings, chosen>>

\* setGuiModuleSettings, setProcModuleSettings: ApplySettings, lines 149-163.
ApplySettings ==
    /\ Idle /\ saved # << >>
    /\ settings' = [filter |-> FilterOf(saved[1]),
                    coordinatesOnly |-> GetBool(saved[2])]
    /\ chosen' = meant
    /\ sent' = {}
    /\ UNCHANGED <<parser, phase, busy, stream, stats, given, failed, left, starts>>
    /\ UNCHANGED <<saved, meant>>

Next ==
    \/ \E n \in 1 .. MaxChunk : WorkRaw(n)
    \/ CutLine \/ RawDone
    \/ \E d \in Datagrams : Work450(d)
    \/ Timing \/ Tick
    \/ Initialize \/ Free
    \/ Click \/ GetSettings \/ GetDefaults \/ ApplySettings

Spec == Init /\ [][Next]_vars
------------------------------------------------------------------------------
\* The lines of the stream since the buffer was cleared, by their first and
\* last byte: the longest runs without a line end that a line end follows.
LinesOfStream ==
    {r \in (begin + 1 .. fed) \X (begin + 1 .. fed) :
        /\ r[1] <= r[2] /\ r[2] < fed /\ IsEnd(r[2] + 1)
        /\ r[1] = begin + 1 \/ IsEnd(r[1] - 1)
        /\ \A p \in r[1] .. r[2] : ~ IsEnd(p)}

\* However the stream is cut into pieces and whatever calls come between them,
\* ProcRawBytes gives ProcMsg each line of the stream once, whole and in order.
LinesCut ==
    ~ busy =>
        /\ Len(lines) = Cardinality(LinesOfStream)
        /\ \A n \in DOMAIN lines :
             LET first == Head(lines[n])  last == Last(lines[n])
             IN  /\ <<first, last>> \in LinesOfStream
                 /\ lines[n] = [i \in 1 .. last - first + 1 |-> first + i - 1]
                 /\ n > 1 => Last(lines[n - 1]) < first

\* The sum of the counters of a map.
Total(counts) == FoldSet(LAMBDA t, sum : sum + counts[t], 0, DOMAIN counts)

\* The statistics agree with one another and with what happened since they were
\* reset: each message was counted once, a sentence that could not be sent twice.
Accounting ==
    /\ stats.processed + stats.rejected = given + failed
    /\ stats.processed = Total(stats.byType)
    /\ stats.aisDecoded = Total(stats.byAis)
    /\ stats.pos = stats.nmeaPos + stats.aisPos
    /\ stats.aisPos <= stats.aisDecoded
    /\ stats.nmeaPos <= stats.processed - stats.aisDecoded

\* Nothing is sent that the settings the user or the host last chose do not let
\* through: with coordinatesOnly only positions, with a filter only its kind.
SentAsChosen ==
    \A msg \in sent :
        /\ chosen.coordinatesOnly => HasPos(msg)
        /\ chosen.filter = "ais" => IsAis(msg)
        /\ chosen.filter = "nmea" => ~ IsAis(msg)

\* The settings survive being read, being saved as text and loaded again, and
\* being asked for the defaults.
SettingsKept == settings = chosen
==============================================================================
