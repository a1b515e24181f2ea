------------------------- MODULE NetProcessor_proofs -------------------------
(***************************************************************************)
(* For every number of clients, every script of theirs and every limit and *)
(* time-out: what ProcTcpSegment hands on.  First what a step does to the  *)
(* session of one key, whoever takes it; every invariant is then a         *)
(* statement about one key and is proved along these cases.                *)
(***************************************************************************)
EXTENDS NetProcessor, NumberLemmas, SequenceTheorems, TLAPS

Byte    == Nat \X Nat
Session == [data : Seq(Byte), age : 0 .. Timeout + 1]

TypeOK ==
    /\ m_tcp_pool \in [DOMAIN m_tcp_pool -> Session]
    /\ DOMAIN m_tcp_pool \subseteq Keys
    /\ m_raw_chunk_cb \in BOOLEAN
    /\ serving \in Keys \cup {NoKey}
    /\ conn \in [Keys -> Nat] /\ sent \in [Keys -> Nat]
    /\ quiet \in [Keys -> 0 .. MaxQuiet]
    /\ unclean \in 0 .. CleanPeriod
    /\ out \in [Keys -> Seq(Seq(Byte) \ {<< >>})]
    /\ ended \in [Keys -> SUBSET Byte]
    /\ gaps \in [Keys -> SUBSET Byte]
    /\ throws \in 0 .. MaxThrows

\* The session ProcTcpSegment has a reference to stays in the pool, and
\* without a callback there is neither a session nor a chunk.
Held ==
    /\ serving = NoKey \/ serving \in DOMAIN m_tcp_pool
    /\ m_raw_chunk_cb \/ (DOMAIN m_tcp_pool = {} /\ \A k \in Keys : out[k] = << >>)

LEMMA Numbers ==
    /\ MaxSegment \in Nat /\ Limit \in Nat /\ Timeout \in Nat
    /\ CleanPeriod \in Nat /\ ReuseGap \in Nat /\ MaxThrows \in Nat
    /\ MaxSegment > 0 /\ Limit > 0 /\ Timeout > 0 /\ CleanPeriod > 0
    /\ MaxQuiet \in Nat /\ MaxQuiet > Timeout /\ MaxQuiet >= ReuseGap
BY NetAssumption DEF MaxQuiet

LEMMA DataType == ASSUME TypeOK, NEW k \in Keys PROVE DataOf(k) \in Seq(Byte)
BY DEF TypeOK, DataOf, Session

LEMMA FunctionIsSeq ==
    ASSUME NEW S, NEW n \in Nat, NEW f \in [1 .. n -> S]
    PROVE  f \in Seq(S) /\ Len(f) = n
OBVIOUS

LEMMA PayloadType ==
    ASSUME TypeOK, NEW k \in Keys, NEW n \in Nat
    PROVE  /\ Payload(k, n) \in Seq(Byte) /\ Len(Payload(k, n)) = n
           /\ \A i \in 1 .. n : Payload(k, n)[i] = <<conn[k], sent[k] + i>>
<1>1. \A i \in 1 .. n : <<conn[k], sent[k] + i>> \in Byte
  BY DEF TypeOK, Byte
<1>2. Payload(k, n) \in [1 .. n -> Byte]
  BY <1>1 DEF Payload
<1>3. Payload(k, n) \in Seq(Byte) /\ Len(Payload(k, n)) = n
  BY <1>2, FunctionIsSeq
<1> QED BY <1>3 DEF Payload

LEMMA SessionType ==
    ASSUME NEW s \in Session
    PROVE  /\ s.data \in Seq(Byte) /\ s.age \in 0 .. Timeout + 1
           /\ \A d \in Seq(Byte) :
                /\ [s EXCEPT !.data = d] \in Session
                /\ [s EXCEPT !.data = d].data = d
                /\ [s EXCEPT !.data = d].age = s.age
           /\ \A a \in 0 .. Timeout + 1 :
                /\ [s EXCEPT !.age = a] \in Session
                /\ [s EXCEPT !.age = a].data = s.data
                /\ [s EXCEPT !.age = a].age = a
BY DEF Session

LEMMA SegmentType ==
    ASSUME TypeOK, NEW k \in Keys, NEW n \in Nat
    PROVE  DataOf(k) \o Payload(k, n) \in Seq(Byte)
BY DataType, PayloadType

LEMMA CutType ==
    ASSUME NEW data \in Seq(Byte), NEW i \in 1 .. Len(data)
    PROVE  /\ SubSeq(data, i + 1, Len(data)) \in Seq(Byte)
           /\ Len(SubSeq(data, i + 1, Len(data))) = Len(data) - i
           /\ \A j \in 1 .. Len(data) - i :
                SubSeq(data, i + 1, Len(data))[j] = data[i + j]
           /\ SubSeq(data, 1, i) \in Seq(Byte) \ {<< >>}
           /\ Len(SubSeq(data, 1, i)) = i
           /\ \A j \in 1 .. i : SubSeq(data, 1, i)[j] = data[j]
OBVIOUS

LEMMA Cutting ==
    ASSUME TypeOK, NEW k \in Keys, serving = k, Held, NEW i \in NewlinePos(k, m_tcp_pool[k].data)
    PROVE  /\ k \in DOMAIN m_tcp_pool /\ DataOf(k) = m_tcp_pool[k].data
           /\ DataOf(k) \in Seq(Byte) /\ i \in 1 .. Len(DataOf(k))
BY DataType, NetAssumption DEF NewlinePos, DataOf, Held

\* Where the clients are, as numbers.
LEMMA ClientType ==
    ASSUME TypeOK
    PROVE  /\ conn \in [Keys -> Nat] /\ sent \in [Keys -> Nat]
           /\ quiet \in [Keys -> 0 .. MaxQuiet]
           /\ \A k \in Keys : /\ conn[k] \in Nat /\ sent[k] \in Nat
                             /\ quiet[k] \in 0 .. MaxQuiet
BY DEF TypeOK

LEMMA InitTypeOK == Init => TypeOK /\ Held
<1> SUFFICES ASSUME Init PROVE TypeOK /\ Held
  OBVIOUS
<1>1. m_tcp_pool = << >> /\ DOMAIN m_tcp_pool = {}
  BY DEF Init
<1>2. m_tcp_pool \in [DOMAIN m_tcp_pool -> Session]
  BY <1>1
<1>3. out \in [Keys -> Seq(Seq(Byte) \ {<< >>})]
  BY DEF Init
<1>4. Held
  BY <1>1 DEF Init, Held
<1>5. /\ conn \in [Keys -> Nat] /\ sent \in [Keys -> Nat]
      /\ quiet \in [Keys -> 0 .. MaxQuiet]
      /\ unclean \in 0 .. CleanPeriod /\ throws \in 0 .. MaxThrows
  BY Numbers DEF Init
<1>6. ended \in [Keys -> SUBSET Byte] /\ gaps \in [Keys -> SUBSET Byte]
  BY DEF Init
<1> QED BY <1>1, <1>2, <1>3, <1>4, <1>5, <1>6 DEF Init, TypeOK

LEMMA NextTypeOK == TypeOK /\ Held /\ [Next]_vars => TypeOK' /\ Held'
<1> SUFFICES ASSUME TypeOK, Held, [Next]_vars PROVE TypeOK' /\ Held'
  OBVIOUS
<1> USE Numbers
<1>1. CASE SetOnRawDataChunkReady
  BY <1>1 DEF SetOnRawDataChunkReady, TypeOK, Held, clients, history
<1>2. ASSUME NEW k \in Keys, NEW n \in 1 .. MaxSegment, SegmentIgnored(k, n)
      PROVE  TypeOK' /\ Held'
  <2>1. /\ UNCHANGED <<m_tcp_pool, m_raw_chunk_cb, serving, unclean, out, ended, throws, conn>>
        /\ sent' = [sent EXCEPT ![k] = @ + n]
        /\ quiet' = [quiet EXCEPT ![k] = 0]
        /\ gaps' = [gaps EXCEPT ![k] = {<<conn[k], sent[k] + n + 1>>}]
    BY <1>2 DEF SegmentIgnored, ClientSends
  <2>2. conn[k] \in Nat /\ sent[k] \in Nat /\ n \in Nat
    BY DEF TypeOK
  <2>3. <<conn[k], sent[k] + n + 1>> \in Byte
    BY <2>2 DEF Byte
  <2>4. sent' \in [Keys -> Nat] /\ quiet' \in [Keys -> 0 .. MaxQuiet]
    <3>1. /\ sent \in [Keys -> Nat] /\ quiet \in [Keys -> 0 .. MaxQuiet]
          /\ 0 \in 0 .. MaxQuiet
      BY DEF TypeOK
    <3>2. sent[k] + n \in Nat
      BY <2>2
    <3> QED BY ONLY <2>1, <3>1, <3>2
  <2>5. gaps' \in [Keys -> SUBSET Byte]
    BY <2>1, <2>3 DEF TypeOK
  <2> QED BY <2>1, <2>4, <2>5 DEF TypeOK, Held
<1>3. ASSUME NEW k \in Keys, NEW n \in 1 .. MaxSegment, SegmentBegin(k, n)
      PROVE  TypeOK' /\ Held'
  <2> DEFINE session == [data |-> DataOf(k) \o Payload(k, n), age |-> 0]
  <2>1. session \in Session
    <3>1. DataOf(k) \o Payload(k, n) \in Seq(Byte) /\ 0 \in 0 .. Timeout + 1
      BY SegmentType
    <3> QED BY ONLY <3>1 DEF Session
  <2>2. /\ m_tcp_pool' = [j \in DOMAIN m_tcp_pool \cup {k} |->
                            IF j = k THEN session ELSE m_tcp_pool[j]]
        /\ serving' = k /\ UNCHANGED <<m_raw_chunk_cb, conn, unclean, out, throws>>
        /\ sent' = [sent EXCEPT ![k] = @ + n]
        /\ quiet' = [quiet EXCEPT ![k] = 0]
        /\ m_raw_chunk_cb
    BY <1>3 DEF SegmentBegin, WithSession, ClientSends
  <2> HIDE DEF session
  <2>3. /\ DOMAIN m_tcp_pool' = DOMAIN m_tcp_pool \cup {k}
        /\ m_tcp_pool' \in [DOMAIN m_tcp_pool' -> Session]
    BY <2>1, <2>2 DEF TypeOK
  <2>4. ended' \in [Keys -> SUBSET Byte]
    <3>1. Newlines(k, Payload(k, n)) \subseteq Byte
      BY PayloadType DEF Newlines
    <3> QED BY <1>3, <3>1 DEF SegmentBegin, TypeOK
  <2>5. gaps' \in [Keys -> SUBSET Byte]
    <3>1. <<conn[k], sent[k] + 1>> \in Byte
      <4>1. conn[k] \in Nat /\ sent[k] \in Nat
        BY ClientType
      <4> QED BY ONLY <4>1 DEF Byte
    <3> QED BY <1>3, <3>1 DEF SegmentBegin, TypeOK
  <2>6. /\ conn' \in [Keys -> Nat] /\ sent' \in [Keys -> Nat]
        /\ quiet' \in [Keys -> 0 .. MaxQuiet]
    BY <2>2 DEF TypeOK
  <2>7. Held'
    BY <2>2, <2>3 DEF Held
  <2> QED BY <2>2, <2>3, <2>4, <2>5, <2>6, <2>7 DEF TypeOK
<1>4. ASSUME NEW k \in Keys, CallbackReturns(k) \/ CallbackThrows(k)
      PROVE  TypeOK' /\ Held'
  <2>1. serving = k /\ UNCHANGED <<m_raw_chunk_cb, clients, unclean, ended, gaps>>
    BY <1>4 DEF CallbackReturns, CallbackThrows, CutLine
  <2>2. PICK i \in NewlinePos(k, m_tcp_pool[k].data) :
          /\ m_tcp_pool' = [m_tcp_pool EXCEPT ![k].data =
                SubSeq(m_tcp_pool[k].data, i + 1, Len(m_tcp_pool[k].data))]
          /\ out' = [out EXCEPT ![k] = Append(@, SubSeq(m_tcp_pool[k].data, 1, i))]
    BY <1>4 DEF CallbackReturns, CallbackThrows, CutLine
  <2>3. /\ k \in DOMAIN m_tcp_pool /\ m_tcp_pool[k].data \in Seq(Byte)
        /\ i \in 1 .. Len(m_tcp_pool[k].data)
    BY <2>1, Cutting
  <2>4. /\ m_tcp_pool' \in [DOMAIN m_tcp_pool' -> Session]
        /\ DOMAIN m_tcp_pool' = DOMAIN m_tcp_pool
    <3>1. [m_tcp_pool[k] EXCEPT !.data = 
             SubSeq(m_tcp_pool[k].data, i + 1, Len(m_tcp_pool[k].data))] \in Session
      <4>1. m_tcp_pool[k] \in Session
        BY <2>3 DEF TypeOK
      <4>2. \A d \in Seq(Byte) : [m_tcp_pool[k] EXCEPT !.data = d] \in Session
        BY ONLY <4>1, SessionType
      <4>3. SubSeq(m_tcp_pool[k].data, i + 1, Len(m_tcp_pool[k].data)) \in Seq(Byte)
        BY ONLY <2>3, CutType
      <4> QED BY ONLY <4>2, <4>3
    <3> QED BY <2>2, <2>3, <3>1 DEF TypeOK
  <2>5. out' \in [Keys -> Seq(Seq(Byte) \ {<< >>})]
    <3>1. SubSeq(m_tcp_pool[k].data, 1, i) \in Seq(Byte) \ {<< >>}
      BY <2>3, CutType
    <3>2. Append(out[k], SubSeq(m_tcp_pool[k].data, 1, i))
             \in Seq(Seq(Byte) \ {<< >>})
      <4>1. out[k] \in Seq(Seq(Byte) \ {<< >>})
        BY DEF TypeOK
      <4> QED BY ONLY <3>1, <4>1
    <3> QED BY <2>2, <3>2 DEF TypeOK
  <2>6. serving' \in {k, NoKey} /\ throws' \in 0 .. MaxThrows
    BY <1>4, <2>1 DEF CallbackReturns, CallbackThrows, TypeOK
  <2> QED BY <2>1, <2>3, <2>4, <2>5, <2>6 DEF TypeOK, Held, clients
<1>5. ASSUME NEW k \in Keys, SegmentEnd(k)
      PROVE  TypeOK' /\ Held'
  <2>1. k \in DOMAIN m_tcp_pool
    BY <1>5, NetAssumption DEF Held, SegmentEnd
  <2>2. [m_tcp_pool[k] EXCEPT !.data = Limited(@)] \in Session
    <3>1. m_tcp_pool[k] \in Session
      BY <2>1 DEF TypeOK
    <3>2. Limited(m_tcp_pool[k].data) \in Seq(Byte)
      BY <3>1, SessionType DEF Limited
    <3> QED BY <3>1, <3>2, SessionType
  <2>3. /\ DOMAIN m_tcp_pool' = DOMAIN m_tcp_pool
        /\ m_tcp_pool' \in [DOMAIN m_tcp_pool' -> Session]
    BY <1>5, <2>1, <2>2 DEF SegmentEnd, TypeOK
  <2> QED BY <1>5, <2>3 DEF SegmentEnd, TypeOK, Held, clients, history
<1>6. ASSUME NEW k \in Keys, TerminateTcpSession(k) \/ Vanish(k)
      PROVE  TypeOK' /\ Held'
  <2>1. UNCHANGED <<m_raw_chunk_cb, serving, unclean, history, quiet>>
    BY <1>6 DEF TerminateTcpSession, Vanish, Reconnect
  <2>2. conn' \in [Keys -> Nat] /\ sent' \in [Keys -> Nat]
    <3>1. Reconnect(k)
      BY <1>6 DEF TerminateTcpSession, Vanish
    <3> QED BY <3>1 DEF Reconnect, TypeOK
  <2>3. /\ m_tcp_pool' \in [DOMAIN m_tcp_pool' -> Session]
        /\ DOMAIN m_tcp_pool' \subseteq DOMAIN m_tcp_pool
        /\ serving = NoKey \/ DOMAIN m_tcp_pool' = DOMAIN m_tcp_pool
    BY <1>6 DEF TerminateTcpSession, Vanish, Restrict, TypeOK
  <2> QED BY <2>1, <2>2, <2>3 DEF TypeOK, Held, history
<1>7. CASE CleanupTimeouts
  BY <1>7 DEF CleanupTimeouts, Restrict, TypeOK, Held, clients, history
<1>8. CASE Tick
  <2>1. \A k \in DOMAIN m_tcp_pool :
          [m_tcp_pool[k] EXCEPT !.age = AtMost(Timeout + 1, @ + 1)] \in Session
    <3> SUFFICES ASSUME NEW k \in DOMAIN m_tcp_pool
                 PROVE  [m_tcp_pool[k] EXCEPT !.age = AtMost(Timeout + 1, @ + 1)] \in Session
      OBVIOUS
    <3>1. m_tcp_pool[k] \in Session
      BY DEF TypeOK
    <3>2. AtMost(Timeout + 1, m_tcp_pool[k].age + 1) \in 0 .. Timeout + 1
      BY <3>1 DEF AtMost, Session
    <3> QED BY <3>1, <3>2 DEF Session
  <2>2. \A k \in Keys : AtMost(MaxQuiet, quiet[k] + 1) \in 0 .. MaxQuiet
    BY ONLY Numbers, ClientType, TypeOK DEF AtMost
  <2>3. /\ DOMAIN m_tcp_pool' = DOMAIN m_tcp_pool
        /\ m_tcp_pool' \in [DOMAIN m_tcp_pool' -> Session]
    <3>1. m_tcp_pool' = [k \in DOMAIN m_tcp_pool |->
                           [m_tcp_pool[k] EXCEPT !.age = AtMost(Timeout + 1, @ + 1)]]
      BY <1>8 DEF Tick
    <3> QED BY ONLY <2>1, <3>1
  <2>4. quiet' \in [Keys -> 0 .. MaxQuiet]
    <3>1. quiet' = [k \in Keys |-> AtMost(MaxQuiet, quiet[k] + 1)]
      BY <1>8 DEF Tick
    <3> QED BY ONLY <2>2, <3>1
  <2>5. /\ unclean' \in 0 .. CleanPeriod
        /\ UNCHANGED <<m_raw_chunk_cb, serving, conn, sent, out, ended, gaps, throws>>
    BY <1>8 DEF Tick, TypeOK, history
  <2> QED BY <2>3, <2>4, <2>5 DEF TypeOK, Held
<1>9. CASE UNCHANGED vars
  BY <1>9 DEF vars, clients, history, TypeOK, Held
<1> QED BY <1>1, <1>2, <1>3, <1>4, <1>5, <1>6, <1>7, <1>8, <1>9 DEF Next, Serve
------------------------------------------------------------------------------
(***************************************************************************)
(* One key.                                                                *)
(***************************************************************************)
\* std::string::find misses no '\n'.
LEMMA FirstIsFound ==
    ASSUME NEW k, NEW data \in Seq(Byte), NEW j \in DOMAIN data, IsNewline(k, data[j])
    PROVE  NewlinePos(k, data) # {}
<1> DEFINE T == {i \in 1 .. Len(data) : IsNewline(k, data[i])}
<1>1. T \in SUBSET Nat /\ j \in T
  OBVIOUS
<1>2. PICK i \in T : \A h \in T : i <= h
  BY <1>1, LeastNumber
<1>3. \A h \in 1 .. i - 1 : h \notin T
  BY <1>2
<1> QED BY <1>2, <1>3 DEF NewlinePos

LEMMA NoneIsFound ==
    ASSUME NEW k, NEW data \in Seq(Byte)
    PROVE  NewlinePos(k, data) = {} <=> Newlines(k, data) = {}
BY FirstIsFound DEF Newlines, NewlinePos

\* What a step may do to the session of k and to what was handed on of it.
NothingDone(k) == out'[k] = out[k] /\ ended'[k] = ended[k]

Returned(k) == serving = k /\ serving' # k /\ NewlinePos(k, DataOf(k)) = {}

Kept(k) ==
    /\ DataOf(k)' = DataOf(k) /\ NothingDone(k)
    /\ \/ serving' = k <=> serving = k
       \/ Returned(k) /\ Len(DataOf(k)) <= Limit

Dropped(k) ==
    /\ DataOf(k)' = << >> /\ NothingDone(k) /\ serving' # k
    /\ serving # k \/ Returned(k)

Heard(k) ==
    /\ serving # k /\ serving' = k
    /\ \E n \in 1 .. MaxSegment :
         /\ DataOf(k)' = DataOf(k) \o Payload(k, n)
         /\ ended'[k] = ended[k] \cup Newlines(k, Payload(k, n))
         /\ conn'[k] = conn[k] /\ sent'[k] = sent[k] + n
    /\ out'[k] = out[k]

LineCut(k) ==
    /\ serving = k
    /\ \E i \in NewlinePos(k, DataOf(k)) :
         /\ DataOf(k)' = SubSeq(DataOf(k), i + 1, Len(DataOf(k)))
         /\ out'[k] = Append(out[k], SubSeq(DataOf(k), 1, i))
    /\ ended'[k] = ended[k]
    /\ serving' = k \/ (serving' # k /\ throws' = throws + 1)

KeyStep(k) ==
    /\ \/ conn'[k] > conn[k]
       \/ conn'[k] = conn[k] /\ sent'[k] >= sent[k]
    /\ throws' \in {throws, throws + 1}
    /\ Kept(k) \/ Dropped(k) \/ Heard(k) \/ LineCut(k)

LEMMA NextKeyStep ==
    ASSUME TypeOK, Held, [Next]_vars, NEW k \in Keys
    PROVE  KeyStep(k)
<1> USE Numbers, NetAssumption
<1> throws \in Nat /\ conn[k] \in Nat /\ sent[k] \in Nat
  BY DEF TypeOK
<1>1. CASE SetOnRawDataChunkReady \/ UNCHANGED vars
  BY <1>1 DEF SetOnRawDataChunkReady, vars, clients, history, KeyStep, Kept, NothingDone, DataOf
<1>2. ASSUME NEW j \in Keys, NEW n \in 1 .. MaxSegment, SegmentIgnored(j, n)
      PROVE  KeyStep(k)
  <2>1. DataOf(k)' = DataOf(k) /\ NothingDone(k) /\ serving' = serving /\ throws' = throws
    BY <1>2 DEF SegmentIgnored, DataOf, NothingDone
  <2>2. conn'[k] = conn[k] /\ sent'[k] >= sent[k]
    <3>1. conn' = conn /\ sent' = [sent EXCEPT ![j] = @ + n]
      BY <1>2 DEF SegmentIgnored, ClientSends
    <3> QED BY ONLY <3>1, TypeOK, ClientType, Numbers
  <2> QED BY <2>1, <2>2 DEF KeyStep, Kept
<1>3. ASSUME NEW j \in Keys, NEW n \in 1 .. MaxSegment, SegmentBegin(j, n)
      PROVE  KeyStep(k)
  <2>1. /\ conn' = conn /\ sent' = [sent EXCEPT ![j] = @ + n]
        /\ out' = out /\ throws' = throws /\ serving = NoKey /\ serving' = j
        /\ ended' = [ended EXCEPT ![j] = @ \cup Newlines(j, Payload(j, n))]
    BY <1>3 DEF SegmentBegin, ClientSends
  <2>2. conn'[k] = conn[k] /\ sent'[k] >= sent[k]
    BY ONLY <2>1, TypeOK, ClientType, Numbers
  <2>3. CASE j = k
    <3>1. DataOf(k)' = DataOf(k) \o Payload(k, n)
      BY <1>3, <2>3 DEF SegmentBegin, WithSession, DataOf
    <3>2. sent'[k] = sent[k] + n /\ ended'[k] = ended[k] \cup Newlines(k, Payload(k, n))
      BY <2>1, <2>3 DEF TypeOK
    <3> QED BY <2>1, <2>2, <2>3, <3>1, <3>2 DEF KeyStep, Heard
  <2>4. CASE j # k
    <3>1. DataOf(k)' = DataOf(k)
      BY <1>3, <2>4 DEF SegmentBegin, WithSession, DataOf
    <3> QED BY <2>1, <2>2, <2>4, <3>1 DEF KeyStep, Kept, NothingDone, TypeOK
  <2> QED BY <2>3, <2>4
<1>4. ASSUME NEW j \in Keys, CallbackReturns(j) \/ CallbackThrows(j)
      PROVE  KeyStep(k)
  <2>1. serving = j /\ UNCHANGED <<conn, sent, ended>>
    BY <1>4 DEF CallbackReturns, CallbackThrows, CutLine, clients
  <2>2. \/ serving' = j /\ throws' = throws
        \/ serving' = NoKey /\ throws' = throws + 1
    BY <1>4, <2>1 DEF CallbackReturns, CallbackThrows
  <2>3. PICK i \in NewlinePos(j, m_tcp_pool[j].data) :
          /\ m_tcp_pool' = [m_tcp_pool EXCEPT ![j].data =
                SubSeq(m_tcp_pool[j].data, i + 1, Len(m_tcp_pool[j].data))]
          /\ out' = [out EXCEPT ![j] = Append(@, SubSeq(m_tcp_pool[j].data, 1, i))]
    BY <1>4 DEF CallbackReturns, CallbackThrows, CutLine
  <2>4. j \in DOMAIN m_tcp_pool /\ DataOf(j) = m_tcp_pool[j].data
    BY <2>1, <2>3, Cutting
  <2>5. CASE j = k
    <3>1. DataOf(k)' = SubSeq(DataOf(k), i + 1, Len(DataOf(k)))
      <4>1. m_tcp_pool[k] \in Session
        BY <2>4, <2>5 DEF TypeOK
      <4>2. m_tcp_pool'[k].data = SubSeq(m_tcp_pool[k].data, i + 1, Len(m_tcp_pool[k].data))
        BY <2>3, <2>4, <2>5, <4>1 DEF TypeOK, Session
      <4> QED BY <2>3, <2>4, <2>5, <4>2 DEF DataOf
    <3>2. out'[k] = Append(out[k], SubSeq(DataOf(k), 1, i))
      BY <2>3, <2>4, <2>5 DEF TypeOK
    <3>3. LineCut(k)
      BY <2>1, <2>2, <2>3, <2>4, <2>5, <3>1, <3>2 DEF LineCut
    <3>4. conn'[k] = conn[k] /\ sent'[k] = sent[k] /\ throws' \in {throws, throws + 1}
      BY <2>1, <2>2
    <3> QED BY <3>3, <3>4 DEF KeyStep
  <2>6. CASE j # k
    <3>1. DataOf(k)' = DataOf(k) /\ out'[k] = out[k]
      BY <2>3, <2>4, <2>6 DEF DataOf, TypeOK
    <3> QED BY <2>1, <2>2, <2>6, <3>1 DEF KeyStep, Kept, NothingDone
  <2> QED BY <2>5, <2>6
<1>5. ASSUME NEW j \in Keys, SegmentEnd(j)
      PROVE  KeyStep(k)
  <2>1. /\ serving = j /\ serving' = NoKey
        /\ UNCHANGED <<conn, sent, out, ended, throws>> /\ NothingDone(k)
        /\ NewlinePos(j, m_tcp_pool[j].data) = {}
    BY <1>5 DEF SegmentEnd, clients, history, NothingDone
  <2>2. j \in DOMAIN m_tcp_pool /\ DataOf(j) = m_tcp_pool[j].data
    BY <2>1 DEF Held, DataOf
  <2>3. CASE j = k
    <3>1. DataOf(k)' = Limited(DataOf(k))
      <4>1. m_tcp_pool[k] \in Session
        BY <2>2, <2>3 DEF TypeOK
      <4>2. m_tcp_pool'[k].data = Limited(m_tcp_pool[k].data)
        BY <1>5, <2>2, <2>3, <4>1 DEF SegmentEnd, TypeOK, Session
      <4> QED BY <1>5, <2>2, <2>3, <4>2 DEF SegmentEnd, DataOf, TypeOK
    <3>2. Len(DataOf(k)) \in Nat
      BY DataType
    <3> QED BY <2>1, <2>2, <2>3, <3>1, <3>2 DEF KeyStep, Kept, Dropped, Returned, Limited
  <2>4. CASE j # k
    <3>1. DataOf(k)' = DataOf(k)
      BY <1>5, <2>2, <2>4 DEF SegmentEnd, DataOf, TypeOK
    <3> QED BY <2>1, <2>4, <3>1 DEF KeyStep, Kept
  <2> QED BY <2>3, <2>4
<1>6. ASSUME NEW j \in Keys, TerminateTcpSession(j) \/ Vanish(j)
      PROVE  KeyStep(k)
  <2>1. serving' = serving /\ throws' = throws /\ NothingDone(k)
    BY <1>6 DEF TerminateTcpSession, Vanish, history, NothingDone
  <2>2. \/ conn'[k] > conn[k]
        \/ conn'[k] = conn[k] /\ sent'[k] >= sent[k]
    <3>1. Reconnect(j)
      BY <1>6 DEF TerminateTcpSession, Vanish
    <3> QED BY <3>1 DEF Reconnect, TypeOK
  <2>3. DataOf(k)' = DataOf(k) \/ (DataOf(k)' = << >> /\ serving = NoKey)
    BY <1>6 DEF TerminateTcpSession, Vanish, Restrict, DataOf
  <2> QED BY <2>1, <2>2, <2>3 DEF KeyStep, Kept, Dropped
<1>7. CASE CleanupTimeouts
  <2>1. DataOf(k)' = DataOf(k) \/ DataOf(k)' = << >>
    BY <1>7 DEF CleanupTimeouts, Restrict, DataOf
  <2> QED BY <1>7, <2>1 DEF CleanupTimeouts, clients, history, KeyStep, Kept, Dropped, NothingDone
<1>8. CASE Tick
  <2>1. DataOf(k)' = DataOf(k)
    <3>1. CASE k \in DOMAIN m_tcp_pool
      <4>1. m_tcp_pool[k] \in Session
        BY <3>1 DEF TypeOK
      <4>2. m_tcp_pool'[k].data = m_tcp_pool[k].data
        BY <1>8, <3>1, <4>1, SessionType DEF Tick, Session
      <4> QED BY <1>8, <3>1, <4>2 DEF Tick, DataOf
    <3> QED BY <1>8, <3>1 DEF Tick, DataOf
  <2> QED BY <1>8, <2>1 DEF Tick, history, KeyStep, Kept, NothingDone
<1> QED BY <1>1, <1>2, <1>3, <1>4, <1>5, <1>6, <1>7, <1>8 DEF Next, Serve
------------------------------------------------------------------------------
(***************************************************************************)
(* The invariants.                                                         *)
(***************************************************************************)
\* While a segment is served its own bytes come on top.
Bounded(k) ==
    Len(DataOf(k)) <= Limit + throws * MaxSegment
                            + (IF serving = k THEN MaxSegment ELSE 0)

\* What is buffered is in the order of the streams, behind what was handed on
\* and before what comes next.
NextByte(k) == <<conn[k], sent[k] + 1>>

Ordered(k) ==
    /\ \A i, j \in DOMAIN DataOf(k) : i < j => Before(DataOf(k)[i], DataOf(k)[j])
    /\ \A i \in DOMAIN DataOf(k) : Before(DataOf(k)[i], NextByte(k))
    /\ \A m, n \in DOMAIN out[k] : m < n => Before(End(out[k][m]), End(out[k][n]))
    /\ \A n \in DOMAIN out[k] :
         /\ Before(End(out[k][n]), NextByte(k))
         /\ \A i \in DOMAIN DataOf(k) : Before(End(out[k][n]), DataOf(k)[i])

\* Each '\n' received has its chunk or is still buffered.
Accounted(k) ==
    /\ Ends(out[k]) \subseteq ended[k] /\ Newlines(k, DataOf(k)) \subseteq ended[k]
    /\ throws = 0 =>
         /\ ended[k] = Ends(out[k]) \cup Newlines(k, DataOf(k))
         /\ serving # k => Newlines(k, DataOf(k)) = {}

IInv == TypeOK /\ Held /\ \A k \in Keys : Bounded(k) /\ Ordered(k) /\ Accounted(k)

LEMMA InitIInv == Init => IInv
<1> SUFFICES ASSUME Init, NEW k \in Keys
             PROVE  Bounded(k) /\ Ordered(k) /\ Accounted(k)
  BY InitTypeOK DEF IInv
<1>1. /\ DataOf(k) = << >> /\ out[k] = << >> /\ ended[k] = {} /\ throws = 0
      /\ serving # k
  BY NetAssumption DEF Init, DataOf
<1>2. Bounded(k)
  BY <1>1, Numbers DEF Bounded
<1>3. Ordered(k)
  BY <1>1 DEF Ordered
<1>4. Accounted(k)
  BY <1>1 DEF Accounted, Ends, Newlines
<1> QED BY <1>2, <1>3, <1>4

LEMMA OneMore ==
    ASSUME NEW t \in Nat, NEW m \in Nat
    PROVE  t * m \in Nat /\ (t + 1) * m = t * m + m
OBVIOUS

LEMMA KeyTypes ==
    ASSUME TypeOK, NEW k \in Keys
    PROVE  /\ DataOf(k) \in Seq(Byte) /\ conn[k] \in Nat /\ sent[k] \in Nat
           /\ throws \in Nat /\ out[k] \in Seq(Seq(Byte) \ {<< >>})
           /\ ended[k] \in SUBSET Byte
           /\ \A n \in DOMAIN out[k] : End(out[k][n]) \in Byte
<1>1. /\ conn[k] \in Nat /\ sent[k] \in Nat /\ throws \in Nat
      /\ out[k] \in Seq(Seq(Byte) \ {<< >>}) /\ ended[k] \in SUBSET Byte
  BY Numbers DEF TypeOK
<1>2. ASSUME NEW n \in DOMAIN out[k] PROVE End(out[k][n]) \in Byte
  <2>1. out[k][n] \in Seq(Byte) /\ out[k][n] # << >>
    BY <1>1
  <2> QED BY <2>1 DEF End
<1> QED BY <1>1, <1>2, DataType

LEMMA Longer ==
    ASSUME TypeOK, NEW k \in Keys, NEW n \in 1 .. MaxSegment, NEW e,
           e = DataOf(k) \o Payload(k, n)
    PROVE  /\ e \in Seq(Byte) /\ Len(e) = Len(DataOf(k)) + n
           /\ Len(DataOf(k)) \in Nat /\ n \in Nat
           /\ \A i \in 1 .. Len(DataOf(k)) : e[i] = DataOf(k)[i]
           /\ \A i \in Len(DataOf(k)) + 1 .. Len(DataOf(k)) + n :
                e[i] = <<conn[k], sent[k] + (i - Len(DataOf(k)))>>
<1> DEFINE d == DataOf(k)
           q == Payload(k, n)
<1>1. n \in Nat /\ d \in Seq(Byte) /\ Len(d) \in Nat
  BY Numbers, DataType
<1>2. /\ q \in Seq(Byte) /\ Len(q) = n
      /\ \A i \in 1 .. n : q[i] = <<conn[k], sent[k] + i>>
  BY <1>1, PayloadType
<1> HIDE DEF d, q
<1>3. /\ d \o q \in Seq(Byte) /\ Len(d \o q) = Len(d) + n
      /\ \A i \in 1 .. Len(d) + n :
           (d \o q)[i] = IF i <= Len(d) THEN d[i] ELSE q[i - Len(d)]
  BY <1>1, <1>2, ConcatProperties
<1>4. e = d \o q
  BY DEF d, q
<1>5. /\ \A i \in 1 .. Len(d) : e[i] = d[i]
      /\ \A i \in Len(d) + 1 .. Len(d) + n : e[i] = q[i - Len(d)]
  BY <1>1, <1>3, <1>4
<1>6. \A i \in Len(d) + 1 .. Len(d) + n : i - Len(d) \in 1 .. n
  BY <1>1
<1> QED BY <1>1, <1>2, <1>3, <1>4, <1>5, <1>6 DEF d

LEMMA OneLonger ==
    ASSUME NEW S, NEW o \in Seq(S), NEW x
    PROVE  /\ DOMAIN Append(o, x) = 1 .. Len(o) + 1
           /\ DOMAIN o = 1 .. Len(o) /\ Len(o) \in Nat
           /\ Append(o, x)[Len(o) + 1] = x
           /\ \A m \in 1 .. Len(o) : Append(o, x)[m] = o[m]
OBVIOUS

LEMMA BoundedStep ==
    ASSUME TypeOK, NEW k \in Keys, Bounded(k), KeyStep(k)
    PROVE  Bounded(k)'
<1> USE Numbers, KeyTypes
<1> DEFINE spare == throws * MaxSegment
           len   == Len(DataOf(k))
<1>1. /\ spare \in Nat /\ len \in Nat
      /\ throws' = throws => throws' * MaxSegment = spare
      /\ throws' = throws + 1 => throws' * MaxSegment = spare + MaxSegment
  BY OneMore
<1>2. throws' * MaxSegment \in {spare, spare + MaxSegment}
  BY <1>1 DEF KeyStep
<1>3. len <= Limit + spare + (IF serving = k THEN MaxSegment ELSE 0)
  BY DEF Bounded
<1>4. CASE Kept(k)
  <2>1. DataOf(k)' = DataOf(k)
    BY <1>4 DEF Kept
  <2>2. (serving' = k <=> serving = k) \/ (serving' # k /\ len <= Limit)
    BY <1>4 DEF Kept, Returned
  <2> HIDE DEF spare
  <2> QED BY <1>1, <1>2, <1>3, <2>1, <2>2 DEF Bounded
<1>5. CASE Dropped(k)
  <2> HIDE DEF spare
  <2> QED BY <1>1, <1>2, <1>5 DEF Dropped, Bounded
<1>6. CASE Heard(k)
  <2>1. PICK n \in 1 .. MaxSegment : DataOf(k)' = DataOf(k) \o Payload(k, n)
    BY <1>6 DEF Heard
  <2>2. Len(DataOf(k)') = len + n
    BY <2>1, Longer
  <2>3. serving # k /\ serving' = k
    BY <1>6 DEF Heard
  <2> HIDE DEF spare, len
  <2> QED BY <1>1, <1>2, <1>3, <2>2, <2>3 DEF Bounded
<1>7. CASE LineCut(k)
  <2>1. PICK i \in NewlinePos(k, DataOf(k)) :
          DataOf(k)' = SubSeq(DataOf(k), i + 1, Len(DataOf(k)))
    BY <1>7 DEF LineCut
  <2>2. i \in 1 .. len
    BY DEF NewlinePos
  <2>3. Len(DataOf(k)') = len - i
    BY <2>1, <2>2, CutType
  <2>4. serving = k /\ (serving' = k \/ throws' = throws + 1)
    BY <1>7 DEF LineCut
  <2> HIDE DEF spare, len
  <2> QED BY <1>1, <1>2, <1>3, <2>2, <2>3, <2>4 DEF Bounded
<1> QED BY <1>4, <1>5, <1>6, <1>7 DEF KeyStep

LEMMA BeforeIsTransitive ==
    ASSUME NEW a \in Byte, NEW b \in Byte, NEW c \in Byte, Before(a, b), Before(b, c)
    PROVE  Before(a, c)
BY DEF Byte, Before

LEMMA OrderedStep ==
    ASSUME TypeOK, TypeOK', NEW k \in Keys, Ordered(k), KeyStep(k)
    PROVE  Ordered(k)'
<1> DEFINE d == DataOf(k)
           o == out[k]
<1>1. /\ NextByte(k) \in Byte /\ NextByte(k)' \in Byte
      /\ NextByte(k)' = NextByte(k) \/ Before(NextByte(k), NextByte(k)')
      /\ \A b \in Byte : Before(b, NextByte(k)) => Before(b, NextByte(k)')
  <2>1. NextByte(k) \in Byte /\ NextByte(k)' \in Byte
    <3>1. conn[k] \in Nat /\ sent[k] \in Nat /\ conn'[k] \in Nat /\ sent'[k] \in Nat
      BY DEF TypeOK
    <3> QED BY <3>1 DEF NextByte, Byte
  <2>2. NextByte(k)' = NextByte(k) \/ Before(NextByte(k), NextByte(k)')
    BY DEF TypeOK, NextByte, Before, KeyStep
  <2> QED BY <2>1, <2>2, BeforeIsTransitive
<1>2. d \in Seq(Byte) /\ \A n \in DOMAIN o : End(o[n]) \in Byte
  BY KeyTypes
<1>3. CASE Kept(k)
  BY <1>1, <1>2, <1>3 DEF Kept, NothingDone, Ordered
<1>4. CASE Dropped(k)
  BY <1>1, <1>2, <1>4 DEF Dropped, NothingDone, Ordered
<1>5. CASE Heard(k)
  <2>1. PICK n \in 1 .. MaxSegment :
          DataOf(k)' = d \o Payload(k, n) /\ conn'[k] = conn[k] /\ sent'[k] = sent[k] + n
    BY <1>5 DEF Heard
  <2> DEFINE e == DataOf(k)'
  <2>2. /\ Len(e) = Len(d) + n /\ Len(d) \in Nat
        /\ \A i \in 1 .. Len(d) : e[i] = d[i]
        /\ \A i \in Len(d) + 1 .. Len(d) + n : e[i] = <<conn[k], sent[k] + (i - Len(d))>>
    BY <2>1, Longer
  <2>3. e \in Seq(Byte) /\ o' = o /\ conn[k] \in Nat /\ sent[k] \in Nat /\ n \in Nat
    BY <1>5, <2>1, KeyTypes, Longer DEF Heard
  <2>4. \A i \in Len(d) + 1 .. Len(d) + n :
          /\ NextByte(k) = e[i] \/ Before(NextByte(k), e[i])
          /\ Before(e[i], NextByte(k)')
    <3> SUFFICES ASSUME NEW i \in Len(d) + 1 .. Len(d) + n
                 PROVE  /\ NextByte(k) = e[i] \/ Before(NextByte(k), e[i])
                        /\ Before(e[i], NextByte(k)')
      OBVIOUS
    <3>1. e[i] = <<conn[k], sent[k] + (i - Len(d))>> /\ i - Len(d) \in 1 .. n
      BY <2>2, <2>3
    <3>2. NextByte(k) = <<conn[k], sent[k] + 1>>
      BY DEF NextByte
    <3>3. NextByte(k)' = <<conn[k], sent[k] + n + 1>>
      BY <2>1 DEF NextByte
    <3> HIDE DEF e, d
    <3> QED BY <2>2, <2>3, <3>1, <3>2, <3>3 DEF Before
  <2>5. \A i, j \in Len(d) + 1 .. Len(d) + n : i < j => Before(e[i], e[j])
    BY <2>2, <2>3 DEF Before
  <2>6. \A b \in Byte : Before(b, NextByte(k)) =>
          \A i \in Len(d) + 1 .. Len(d) + n : Before(b, e[i])
    BY <1>1, <2>2, <2>3, <2>4, BeforeIsTransitive
  <2> HIDE DEF e, d
  <2>7. DOMAIN e = 1 .. Len(d) + n /\ DOMAIN d = 1 .. Len(d)
    BY <1>2, <2>2, <2>3
  <2>8. \A i \in 1 .. Len(d) : Before(d[i], NextByte(k)) /\ d[i] \in Byte
    BY <1>2, <2>7 DEF Ordered, d
  <2>9. \A i, j \in DOMAIN e : i < j => Before(e[i], e[j])
    <3> SUFFICES ASSUME NEW i \in DOMAIN e, NEW j \in DOMAIN e, i < j
                 PROVE  Before(e[i], e[j])
      OBVIOUS
    <3>1. CASE j <= Len(d)
      BY <2>2, <2>7, <3>1 DEF Ordered, d
    <3>2. CASE i <= Len(d) /\ j > Len(d)
      BY <2>2, <2>6, <2>7, <2>8, <3>2
    <3>3. CASE i > Len(d)
      BY <2>2, <2>5, <2>7, <3>3
    <3> QED BY <2>2, <2>7, <3>1, <3>2, <3>3
  <2>10. \A i \in DOMAIN e : Before(e[i], NextByte(k)')
    BY <1>1, <2>2, <2>4, <2>7, <2>8
  <2>11. ASSUME NEW m \in DOMAIN o
         PROVE  /\ Before(End(o[m]), NextByte(k)')
                /\ \A i \in DOMAIN e : Before(End(o[m]), e[i])
    BY <1>1, <1>2, <2>2, <2>6, <2>7 DEF Ordered, d
  <2> QED BY <2>3, <2>9, <2>10, <2>11 DEF Ordered, e
<1>6. CASE LineCut(k)
  <2>1. PICK i \in NewlinePos(k, d) :
          /\ DataOf(k)' = SubSeq(d, i + 1, Len(d))
          /\ out'[k] = Append(o, SubSeq(d, 1, i))
    BY <1>6 DEF LineCut
  <2> DEFINE e == DataOf(k)'
             line == SubSeq(d, 1, i)
             p == out'[k]
  <2>2. i \in 1 .. Len(d) /\ Len(d) \in Nat
    BY <1>2 DEF NewlinePos
  <2>3. /\ DOMAIN e = 1 .. Len(d) - i
        /\ \A j \in 1 .. Len(d) - i : e[j] = d[i + j]
        /\ End(line) = d[i]
    BY <1>2, <2>1, <2>2, CutType DEF End
  <2>4. /\ DOMAIN p = 1 .. Len(o) + 1 /\ DOMAIN o = 1 .. Len(o) /\ Len(o) \in Nat
        /\ p[Len(o) + 1] = line /\ \A m \in 1 .. Len(o) : p[m] = o[m]
    <3>1. o \in Seq(Seq(Byte) \ {<< >>}) /\ p = Append(o, line)
      BY <2>1, KeyTypes
    <3> HIDE DEF o, line
    <3> QED BY <3>1, OneLonger
  <2>5. \A m \in 1 .. Len(o) : Before(End(o[m]), d[i])
    <3>1. \A n \in DOMAIN o : \A j \in DOMAIN d : Before(End(o[n]), d[j])
      BY DEF Ordered
    <3>2. i \in DOMAIN d /\ DOMAIN o = 1 .. Len(o)
      BY <2>4, <1>2 DEF NewlinePos
    <3> QED BY ONLY <3>1, <3>2
  <2> HIDE DEF e, line, p
  <2>6. \A m, n \in DOMAIN p : m < n => Before(End(p[m]), End(p[n]))
    <3> SUFFICES ASSUME NEW m \in DOMAIN p, NEW n \in DOMAIN p, m < n
                 PROVE  Before(End(p[m]), End(p[n]))
      OBVIOUS
    <3>1. CASE n <= Len(o)
      BY <2>4, <3>1 DEF Ordered
    <3>2. CASE n = Len(o) + 1
      BY <2>3, <2>4, <2>5, <3>2
    <3> QED BY <2>4, <3>1, <3>2
  <2>7. \A j \in DOMAIN e : i + j \in DOMAIN d /\ i < i + j /\ e[j] = d[i + j]
    BY <1>2, <2>2, <2>3
  <2>8. /\ \A j, h \in DOMAIN e : j < h => Before(e[j], e[h])
        /\ \A j \in DOMAIN e : Before(e[j], NextByte(k)')
    <3>1. \A j, h \in DOMAIN e : j < h => i + j < i + h
      BY <2>2, <2>3
    <3> QED BY <1>1, <1>2, <2>7, <3>1 DEF Ordered
  <2>9. ASSUME NEW m \in DOMAIN p
        PROVE  /\ Before(End(p[m]), NextByte(k)')
               /\ \A j \in DOMAIN e : Before(End(p[m]), e[j])
    <3>1. CASE m \in DOMAIN o
      BY <1>1, <1>2, <2>4, <2>7, <3>1 DEF Ordered
    <3>2. CASE m = Len(o) + 1
      <4>1. End(p[m]) = d[i] /\ d[i] \in Byte /\ i \in DOMAIN d
        BY <1>2, <2>2, <2>3, <2>4, <3>2
      <4> QED BY <1>1, <2>7, <4>1 DEF Ordered
    <3> QED BY <2>4, <3>1, <3>2
  <2> QED BY <2>6, <2>8, <2>9 DEF Ordered, e, p
<1> QED BY <1>3, <1>4, <1>5, <1>6 DEF KeyStep

LEMMA NewlinesOfBoth ==
    ASSUME NEW k, NEW a \in Seq(Byte), NEW b \in Seq(Byte)
    PROVE  Newlines(k, a \o b) = Newlines(k, a) \cup Newlines(k, b)
<1> DEFINE c == a \o b
<1>1. /\ DOMAIN a = 1 .. Len(a) /\ DOMAIN b = 1 .. Len(b)
      /\ Len(a) \in Nat /\ Len(b) \in Nat
  OBVIOUS
<1>2. /\ DOMAIN c = 1 .. Len(a) + Len(b)
      /\ \A i \in 1 .. Len(a) + Len(b) :
           c[i] = IF i <= Len(a) THEN a[i] ELSE b[i - Len(a)]
  BY ConcatProperties, LenProperties
<1> HIDE DEF c
<1>3. ASSUME NEW x \in Newlines(k, c) PROVE x \in Newlines(k, a) \cup Newlines(k, b)
  <2>1. PICK i \in DOMAIN c : IsNewline(k, c[i]) /\ x = c[i]
    BY DEF Newlines
  <2>2. CASE i <= Len(a)
    BY <1>1, <1>2, <2>1, <2>2 DEF Newlines
  <2>3. CASE i > Len(a)
    <3>1. i - Len(a) \in DOMAIN b /\ c[i] = b[i - Len(a)]
      BY <1>1, <1>2, <2>3
    <3> QED BY <2>1, <3>1 DEF Newlines
  <2> QED BY <1>1, <1>2, <2>2, <2>3
<1>4. ASSUME NEW x \in Newlines(k, a) PROVE x \in Newlines(k, c)
  <2>1. PICK i \in DOMAIN a : IsNewline(k, a[i]) /\ x = a[i]
    BY DEF Newlines
  <2>2. i \in DOMAIN c /\ c[i] = a[i]
    BY <1>1, <1>2
  <2> QED BY <2>1, <2>2 DEF Newlines
<1>5. ASSUME NEW x \in Newlines(k, b) PROVE x \in Newlines(k, c)
  <2>1. PICK i \in DOMAIN b : IsNewline(k, b[i]) /\ x = b[i]
    BY DEF Newlines
  <2>2. /\ i + Len(a) \in DOMAIN c /\ ~ (i + Len(a) <= Len(a))
        /\ (i + Len(a)) - Len(a) = i
    BY <1>1, <1>2
  <2>3. c[i + Len(a)] = b[i]
    BY <1>2, <2>2
  <2> QED BY <2>1, <2>2, <2>3 DEF Newlines
<1> QED BY <1>3, <1>4, <1>5 DEF c

LEMMA NewlinesOfCut ==
    ASSUME NEW k, NEW d \in Seq(Byte), NEW i \in NewlinePos(k, d)
    PROVE  /\ Newlines(k, d) = {d[i]} \cup Newlines(k, SubSeq(d, i + 1, Len(d)))
           /\ End(SubSeq(d, 1, i)) = d[i]
<1> DEFINE e == SubSeq(d, i + 1, Len(d))
<1>1. /\ i \in 1 .. Len(d) /\ DOMAIN d = 1 .. Len(d) /\ Len(d) \in Nat
      /\ IsNewline(k, d[i]) /\ \A j \in 1 .. i - 1 : ~ IsNewline(k, d[j])
  BY DEF NewlinePos
<1>2. /\ DOMAIN e = 1 .. Len(d) - i
      /\ \A j \in 1 .. Len(d) - i : e[j] = d[i + j]
      /\ End(SubSeq(d, 1, i)) = d[i]
  BY <1>1, CutType DEF End
<1> HIDE DEF e
<1>3. ASSUME NEW x \in Newlines(k, d) PROVE x \in {d[i]} \cup Newlines(k, e)
  <2>1. PICK j \in DOMAIN d : IsNewline(k, d[j]) /\ x = d[j]
    BY DEF Newlines
  <2>2. CASE j > i
    <3>1. j - i \in DOMAIN e /\ i + (j - i) = j
      BY <1>1, <1>2, <2>2
    <3>2. e[j - i] = d[j]
      BY <1>2, <3>1
    <3> QED BY <2>1, <3>1, <3>2 DEF Newlines
  <2> QED BY <1>1, <2>1, <2>2
<1>4. ASSUME NEW x \in Newlines(k, e) PROVE x \in Newlines(k, d)
  <2>1. PICK j \in DOMAIN e : IsNewline(k, e[j]) /\ x = e[j]
    BY DEF Newlines
  <2>2. i + j \in DOMAIN d /\ e[j] = d[i + j]
    BY <1>1, <1>2
  <2> QED BY <2>1, <2>2 DEF Newlines
<1>5. d[i] \in Newlines(k, d)
  BY <1>1 DEF Newlines
<1> QED BY <1>2, <1>3, <1>4, <1>5 DEF e

LEMMA EndsOfLonger ==
    ASSUME NEW S, NEW o \in Seq(S), NEW x
    PROVE  Ends(Append(o, x)) = Ends(o) \cup {End(x)}
<1> DEFINE p == Append(o, x)
<1>1. /\ DOMAIN p = 1 .. Len(o) + 1 /\ DOMAIN o = 1 .. Len(o) /\ Len(o) \in Nat
      /\ p[Len(o) + 1] = x /\ \A m \in 1 .. Len(o) : p[m] = o[m]
  BY OneLonger
<1>2. DOMAIN p = DOMAIN o \cup {Len(o) + 1}
  BY <1>1
<1> HIDE DEF p
<1>3. /\ \A m \in DOMAIN o : End(p[m]) = End(o[m])
      /\ End(p[Len(o) + 1]) = End(x)
  BY <1>1
<1>4. {End(p[n]) : n \in DOMAIN p} = {End(o[n]) : n \in DOMAIN o} \cup {End(x)}
  BY <1>2, <1>3
<1> QED BY <1>4 DEF p, Ends

LEMMA AccountedStep ==
    ASSUME TypeOK, TypeOK', NEW k \in Keys, Accounted(k), KeyStep(k)
    PROVE  Accounted(k)'
<1> DEFINE d == DataOf(k)
           o == out[k]
<1>1. /\ d \in Seq(Byte) /\ throws \in Nat /\ o \in Seq(Seq(Byte) \ {<< >>})
      /\ throws' = 0 => throws = 0
  BY KeyTypes DEF KeyStep
<1>2. NewlinePos(k, d) = {} <=> Newlines(k, d) = {}
  BY <1>1, NoneIsFound
<1>3. CASE Kept(k)
  <2>1. d' = d /\ Ends(out'[k]) = Ends(out[k]) /\ ended'[k] = ended[k]
    BY <1>3 DEF Kept, NothingDone, Ends
  <2>2. Newlines(k, DataOf(k))' = Newlines(k, d)
    BY <2>1 DEF Newlines
  <2>3. serving' # k => serving # k \/ NewlinePos(k, d) = {}
    BY <1>3 DEF Kept, Returned
  <2> QED BY <1>1, <1>2, <2>1, <2>2, <2>3 DEF Accounted
<1>4. CASE Dropped(k)
  <2>1. d' = << >> /\ Ends(out'[k]) = Ends(out[k]) /\ ended'[k] = ended[k]
    BY <1>4 DEF Dropped, NothingDone, Ends
  <2>2. Newlines(k, DataOf(k))' = {}
    BY <2>1 DEF Newlines
  <2>3. serving # k \/ NewlinePos(k, d) = {}
    BY <1>4 DEF Dropped, Returned
  <2> QED BY <1>1, <1>2, <2>1, <2>2, <2>3 DEF Accounted
<1>5. CASE Heard(k)
  <2>1. PICK n \in 1 .. MaxSegment :
          /\ d' = d \o Payload(k, n)
          /\ ended'[k] = ended[k] \cup Newlines(k, Payload(k, n))
    BY <1>5 DEF Heard
  <2>2. serving # k /\ serving' = k /\ Ends(out'[k]) = Ends(out[k])
    BY <1>5 DEF Heard, Ends
  <2> DEFINE q == Payload(k, n)
  <2>3. q \in Seq(Byte)
    BY <2>1, Longer, PayloadType
  <2> HIDE DEF d, q
  <2>4. Newlines(k, d \o q) = Newlines(k, d) \cup Newlines(k, q)
    BY <1>1, <2>3, NewlinesOfBoth
  <2>5. Newlines(k, DataOf(k))' = Newlines(k, d \o q)
    BY <2>1 DEF Newlines, d, q
  <2> QED BY <1>1, <2>1, <2>2, <2>4, <2>5 DEF Accounted, d, q
<1>6. CASE LineCut(k)
  <2>1. PICK i \in NewlinePos(k, d) :
          /\ d' = SubSeq(d, i + 1, Len(d))
          /\ out'[k] = Append(o, SubSeq(d, 1, i))
    BY <1>6 DEF LineCut
  <2>2. ended'[k] = ended[k] /\ serving = k /\ (serving' = k \/ throws' # 0)
    BY <1>1, <1>6 DEF LineCut
  <2> HIDE DEF d, o
  <2>3. /\ Newlines(k, d) = {d[i]} \cup Newlines(k, SubSeq(d, i + 1, Len(d)))
        /\ End(SubSeq(d, 1, i)) = d[i]
    BY <1>1, NewlinesOfCut
  <2>4. Ends(out'[k]) = Ends(out[k]) \cup {d[i]}
    <3> DEFINE line == SubSeq(d, 1, i)
    <3> HIDE DEF line
    <3>1. out'[k] = Append(o, line) /\ End(line) = d[i]
      BY <2>1, <2>3 DEF line
    <3> QED BY <1>1, <3>1, EndsOfLonger DEF o
  <2>5. Newlines(k, DataOf(k))' = Newlines(k, SubSeq(d, i + 1, Len(d)))
    BY <2>1 DEF Newlines, d
  <2> QED BY <1>1, <2>1, <2>2, <2>3, <2>4, <2>5 DEF Accounted, d
<1> QED BY <1>3, <1>4, <1>5, <1>6 DEF KeyStep

LEMMA NextIInv == IInv /\ [Next]_vars => IInv'
<1> SUFFICES ASSUME IInv, [Next]_vars PROVE IInv'
  OBVIOUS
<1>1. TypeOK' /\ Held'
  BY NextTypeOK DEF IInv
<1>2. ASSUME NEW k \in Keys PROVE Bounded(k)' /\ Ordered(k)' /\ Accounted(k)'
  <2>1. KeyStep(k)
    BY NextKeyStep DEF IInv
  <2> QED BY <1>1, <2>1, BoundedStep, OrderedStep, AccountedStep DEF IInv
<1> QED BY <1>1, <1>2 DEF IInv

\* Every state of the sessions is well typed, and the invariant of each key
\* holds, whatever the others do.
THEOREM InductiveInvariant == Spec => []IInv
BY InitIInv, NextIInv, PTL DEF Spec

\* The sessions, the clients and the histories are of their types.
THEOREM TypeCorrect == Spec => []TypeOK
<1>1. IInv => TypeOK
  BY DEF IInv
<1> QED BY <1>1, InductiveInvariant, PTL

\* Between two calls a session holds at most DDOS_PROTECTION_BUFFER_LIMIT
\* bytes and one segment for each exception of the callback.
THEOREM BufferIsBounded == Spec => []MemoryBounded
<1>1. IInv => MemoryBounded
  <2> SUFFICES ASSUME IInv, NEW k \in DOMAIN m_tcp_pool, serving # k
               PROVE  Len(m_tcp_pool[k].data) <= Limit + throws * MaxSegment
    BY DEF MemoryBounded
  <2>1. k \in Keys /\ throws \in Nat /\ DataOf(k) = m_tcp_pool[k].data
    BY KeyTypes DEF IInv, TypeOK, DataOf
  <2>2. throws * MaxSegment \in Nat /\ Len(DataOf(k)) \in Nat
    BY <2>1, OneMore, Numbers, KeyTypes DEF IInv
  <2>3. Bounded(k)
    BY <2>1 DEF IInv
  <2> QED BY <2>1, <2>2, <2>3, Numbers DEF Bounded
<1> QED BY <1>1, InductiveInvariant, PTL

\* Nobody takes away the session that is being served; no line is handed on
\* twice or out of order, and those that an exception left come later.
THEOREM LinesInOrder == Spec => []InOrderOnce
<1>1. IInv => InOrderOnce
  BY DEF IInv, Held, Ordered, InOrderOnce, Newlines, Ends
<1> QED BY <1>1, InductiveInvariant, PTL

\* A chunk ends with a '\n' that came, and unless a callback has thrown every
\* '\n' that came has its chunk when ProcTcpSegment has returned.
THEOREM LinesAccounted == Spec => []AllHandedOn
<1>1. IInv => AllHandedOn
  BY DEF IInv, Accounted, AllHandedOn
<1> QED BY <1>1, InductiveInvariant, PTL
------------------------------------------------------------------------------
(***************************************************************************)
(* Lines of two connections are never mixed, if a client that vanished     *)
(* stays away until the cleaner must have come.                            *)
(***************************************************************************)
\* The place in the stream of the first byte buffered, or of the next one.
First(k) == sent[k] + 1 - Len(DataOf(k))

\* The session is removed before its client may come back.
Clock(k) ==
    k \in DOMAIN m_tcp_pool =>
      /\ m_tcp_pool[k].age <= Timeout => quiet[k] = m_tcp_pool[k].age
      /\ m_tcp_pool[k].age > Timeout => quiet[k] \in Timeout + 1 .. Timeout + unclean

\* The session is a stretch of the present connection.
Stretch(k) ==
    /\ Len(DataOf(k)) <= sent[k]
    /\ \A i \in DOMAIN DataOf(k) : DataOf(k)[i] = <<conn[k], First(k) + i - 1>>

\* It begins with a line or there is a reason why not; but for a pause that
\* the next segment will end.
Beginning(k) ==
    \/ \E b \in 1 .. First(k) :
         /\ BeginsLine(k, conn[k], b, First(k))
         /\ TailExplained(conn[k], b, First(k), First(k), gaps[k])
    \/ k \notin DOMAIN m_tcp_pool /\ quiet[k] > Timeout

LineInv(k) ==
    /\ Clock(k) /\ Stretch(k) /\ Beginning(k)
    /\ \A n \in DOMAIN out[k] : IsLineOrTail(k, out[k][n], gaps[k])

LEMMA BeginExists ==
    ASSUME NEW k, NEW c, NEW p \in Nat \ {0}
    PROVE  \E b \in 1 .. p : BeginsLine(k, c, b, p)
<1> DEFINE Starts(b) == b = 1 \/ b - 1 \in Stream(k, c).ends
           T == {t \in 0 .. p - 1 : Starts(p - t)}
<1>1. p - 1 \in T /\ T \in SUBSET Nat
  <2>1. p - (p - 1) = 1 /\ p - 1 \in 0 .. p - 1
    OBVIOUS
  <2> QED BY <2>1
<1>2. PICK t \in T : \A u \in T : t <= u
  BY <1>1, LeastNumber
<1>3. t \in 0 .. p - 1 /\ Starts(p - t) /\ p - t \in 1 .. p
  OBVIOUS
<1>4. ASSUME NEW q \in p - t .. p - 1, q \in Stream(k, c).ends PROVE FALSE
  <2>1. p - (p - q - 1) = q + 1 /\ p - q - 1 \in 0 .. p - 1 /\ p - q - 1 < t
    BY <1>3
  <2>2. Starts(q + 1)
    BY <1>4, <1>3
  <2>3. p - q - 1 \in T
    BY <2>1, <2>2
  <2> QED BY <1>2, <1>3, <2>1, <2>3
<1> QED BY <1>3, <1>4 DEF BeginsLine

LEMMA BeginIsUnique ==
    ASSUME NEW k, NEW c, NEW p \in Nat, NEW a \in 1 .. p, NEW b \in 1 .. p,
           BeginsLine(k, c, a, p), BeginsLine(k, c, b, p)
    PROVE  a = b
<1>1. ASSUME NEW x \in 1 .. p, NEW y \in 1 .. p, x < y,
             BeginsLine(k, c, x, p), BeginsLine(k, c, y, p)
      PROVE  FALSE
  <2>1. y - 1 \in x .. p - 1 /\ y # 1
    BY <1>1
  <2> QED BY <1>1, <2>1 DEF BeginsLine
<1> QED BY <1>1

LEMMA BeginIs ==
    ASSUME NEW k, NEW c, NEW p \in Nat, NEW b \in 1 .. p, BeginsLine(k, c, b, p)
    PROVE  LineBegin(k, c, p) = b
<1>1. LineBegin(k, c, p) \in 1 .. p /\ BeginsLine(k, c, LineBegin(k, c, p), p)
  BY DEF LineBegin
<1> QED BY <1>1, BeginIsUnique

\* A vanished client is away until the cleaner has come.
Patient == ReuseGap > Timeout + CleanPeriod

LEMMA ClockStep ==
    ASSUME TypeOK, Held, [Next]_vars, NEW k \in Keys, Clock(k)
    PROVE  Clock(k)'
<1> USE Numbers
<1> DEFINE AgeOf(pool) == k \in DOMAIN pool => k \in DOMAIN m_tcp_pool
                                                /\ pool[k].age = m_tcp_pool[k].age
<1>0. ASSUME AgeOf(m_tcp_pool'), quiet'[k] = quiet[k], unclean' = unclean
      PROVE  Clock(k)'
  BY <1>0 DEF Clock
<1>1. CASE SetOnRawDataChunkReady \/ UNCHANGED vars
  BY <1>0, <1>1 DEF SetOnRawDataChunkReady, vars, clients
<1>2. ASSUME NEW j \in Keys, NEW n \in 1 .. MaxSegment, SegmentIgnored(j, n)
      PROVE  Clock(k)'
  BY <1>2 DEF SegmentIgnored, Held, Clock
<1>3. ASSUME NEW j \in Keys, NEW n \in 1 .. MaxSegment, SegmentBegin(j, n)
      PROVE  Clock(k)'
  <2>1. quiet' = [quiet EXCEPT ![j] = 0] /\ unclean' = unclean
    BY <1>3 DEF SegmentBegin, ClientSends
  <2>2. CASE j = k
    <3>1. m_tcp_pool'[k].age = 0 /\ quiet'[k] = 0
      BY <1>3, <2>1, <2>2 DEF SegmentBegin, WithSession, TypeOK
    <3> QED BY <3>1 DEF Clock
  <2>3. CASE j # k
    <3>1. AgeOf(m_tcp_pool') /\ quiet'[k] = quiet[k]
      BY <1>3, <2>1, <2>3 DEF SegmentBegin, WithSession, TypeOK
    <3> QED BY <1>0, <2>1, <3>1
  <2> QED BY <2>2, <2>3
<1>4. ASSUME NEW j \in Keys, CallbackReturns(j) \/ CallbackThrows(j) \/ SegmentEnd(j)
      PROVE  Clock(k)'
  <2>1. quiet' = quiet /\ unclean' = unclean
    BY <1>4 DEF CallbackReturns, CallbackThrows, CutLine, SegmentEnd, clients
  <2>2. \E d : m_tcp_pool' = [m_tcp_pool EXCEPT ![j].data = d]
    BY <1>4 DEF CallbackReturns, CallbackThrows, CutLine, SegmentEnd
  <2>3. AgeOf(m_tcp_pool')
    BY <2>2 DEF TypeOK, Session
  <2> QED BY <1>0, <2>1, <2>3
<1>5. ASSUME NEW j \in Keys, TerminateTcpSession(j) \/ Vanish(j)
      PROVE  Clock(k)'
  <2>1. quiet' = quiet /\ unclean' = unclean
    BY <1>5 DEF TerminateTcpSession, Vanish, Reconnect
  <2>2. AgeOf(m_tcp_pool')
    BY <1>5 DEF TerminateTcpSession, Vanish, Restrict
  <2> QED BY <1>0, <2>1, <2>2
<1>6. CASE CleanupTimeouts
  <2>1. quiet' = quiet /\ m_tcp_pool' = [j \in DOMAIN m_tcp_pool \ Stale |-> m_tcp_pool[j]]
    BY <1>6 DEF CleanupTimeouts, clients, Restrict
  <2>2. k \in DOMAIN m_tcp_pool' =>
          /\ k \in DOMAIN m_tcp_pool /\ m_tcp_pool'[k] = m_tcp_pool[k]
          /\ ~ m_tcp_pool[k].age > Timeout
    BY <2>1 DEF Stale
  <2> QED BY <2>1, <2>2 DEF Clock
<1>7. CASE Tick
  <2> SUFFICES ASSUME k \in DOMAIN m_tcp_pool'
               PROVE  /\ m_tcp_pool'[k].age <= Timeout => quiet'[k] = m_tcp_pool'[k].age
                      /\ m_tcp_pool'[k].age > Timeout =>
                           quiet'[k] \in Timeout + 1 .. Timeout + unclean'
    BY DEF Clock
  <2>1. k \in DOMAIN m_tcp_pool /\ m_tcp_pool[k] \in Session
    BY <1>7 DEF Tick, TypeOK
  <2>2. m_tcp_pool[k].age \in 0 .. Timeout + 1
    BY <2>1 DEF Session
  <2>3. m_tcp_pool'[k].age = AtMost(Timeout + 1, m_tcp_pool[k].age + 1)
    BY <1>7, <2>1 DEF Tick, Session
  <2>4. /\ quiet'[k] = AtMost(MaxQuiet, quiet[k] + 1) /\ unclean' = unclean + 1
        /\ quiet[k] \in 0 .. MaxQuiet /\ unclean \in Nat
    BY <1>7 DEF Tick, TypeOK
  <2> QED BY <2>1, <2>2, <2>3, <2>4 DEF Clock, AtMost
<1> QED BY <1>1, <1>2, <1>3, <1>4, <1>5, <1>6, <1>7 DEF Next, Serve

\* What a step does to the place of k's session in its stream.
Away(k) == k \notin DOMAIN m_tcp_pool /\ quiet[k] > Timeout

Stays(k) ==
    /\ DataOf(k)' = DataOf(k) /\ out'[k] = out[k]
    /\ UNCHANGED <<conn[k], sent[k], gaps[k]>>
    /\ Away(k) => Away(k)'

Unheard(k) ==
    /\ DataOf(k) = << >> /\ DataOf(k)' = << >> /\ out[k] = << >> /\ out'[k] = out[k]
    /\ conn'[k] = conn[k] /\ sent'[k] > sent[k]
    /\ gaps'[k] = {<<conn[k], sent'[k] + 1>>}

Grows(k) ==
    /\ \E n \in 1 .. MaxSegment :
         DataOf(k)' = DataOf(k) \o Payload(k, n) /\ sent'[k] = sent[k] + n
    /\ conn'[k] = conn[k] /\ out'[k] = out[k] /\ gaps[k] \subseteq gaps'[k]
    /\ Away(k) => DataOf(k) = << >> /\ <<conn[k], sent[k] + 1>> \in gaps'[k]

Shrinks(k) ==
    /\ k \in DOMAIN m_tcp_pool
    /\ \E i \in NewlinePos(k, DataOf(k)) :
         /\ DataOf(k)' = SubSeq(DataOf(k), i + 1, Len(DataOf(k)))
         /\ out'[k] = Append(out[k], SubSeq(DataOf(k), 1, i))
    /\ UNCHANGED <<conn[k], sent[k], gaps[k]>>

TooLong(k) ==
    /\ k \in DOMAIN m_tcp_pool
    /\ Len(DataOf(k)) > Limit /\ NewlinePos(k, DataOf(k)) = {}
    /\ DataOf(k)' = << >> /\ out'[k] = out[k]
    /\ UNCHANGED <<conn[k], sent[k], gaps[k]>>

Reconnects(k) ==
    /\ DataOf(k)' = << >> /\ out'[k] = out[k]
    /\ conn'[k] = conn[k] + 1 /\ sent'[k] = 0 /\ gaps'[k] = gaps[k]

Cleaned(k) ==
    /\ DataOf(k)' = << >> /\ out'[k] = out[k] /\ Away(k)'
    /\ UNCHANGED <<conn[k], sent[k], gaps[k]>>

LineStep(k) == \/ Stays(k) \/ Unheard(k) \/ Grows(k) \/ Shrinks(k) \/ TooLong(k)
               \/ Reconnects(k) \/ Cleaned(k)

LEMMA NextLineStep ==
    ASSUME TypeOK, Held, Patient, [Next]_vars, NEW k \in Keys, Clock(k)
    PROVE  LineStep(k)
<1> USE Numbers, NetAssumption
<1>1. CASE SetOnRawDataChunkReady \/ UNCHANGED vars
  <2>1. Stays(k)
    BY <1>1 DEF SetOnRawDataChunkReady, vars, clients, history, Stays, DataOf, Away
  <2> QED BY <2>1 DEF LineStep
<1>2. ASSUME NEW j \in Keys, NEW n \in 1 .. MaxSegment, SegmentIgnored(j, n)
      PROVE  LineStep(k)
  <2>1. /\ m_tcp_pool' = m_tcp_pool /\ DOMAIN m_tcp_pool = {} /\ out' = out /\ out[k] = << >>
        /\ conn' = conn /\ sent' = [sent EXCEPT ![j] = @ + n]
        /\ quiet' = [quiet EXCEPT ![j] = 0]
        /\ gaps' = [gaps EXCEPT ![j] = {<<conn[j], sent[j] + n + 1>>}]
    BY <1>2 DEF SegmentIgnored, ClientSends, Held
  <2>2. CASE j = k
    <3>1. sent'[k] = sent[k] + n /\ sent[k] \in Nat /\ gaps'[k] = {<<conn[k], sent[k] + n + 1>>}
      BY <2>1, <2>2 DEF TypeOK
    <3>2. Unheard(k)
      BY <2>1, <2>2, <3>1 DEF Unheard, DataOf
    <3> QED BY <3>2 DEF LineStep
  <2>3. CASE j # k
    <3>1. Stays(k)
      BY <2>1, <2>3 DEF Stays, DataOf, Away, TypeOK
    <3> QED BY <3>1 DEF LineStep
  <2> QED BY <2>2, <2>3
<1>3. ASSUME NEW j \in Keys, NEW n \in 1 .. MaxSegment, SegmentBegin(j, n)
      PROVE  LineStep(k)
  <2>1. /\ conn' = conn /\ sent' = [sent EXCEPT ![j] = @ + n] /\ out' = out
        /\ quiet' = [quiet EXCEPT ![j] = 0]
        /\ gaps' = IF quiet[j] > Timeout
                   THEN [gaps EXCEPT ![j] = @ \cup {<<conn[j], sent[j] + 1>>}]
                   ELSE gaps
    BY <1>3 DEF SegmentBegin, ClientSends
  <2>2. CASE j = k
    <3>1. DataOf(k)' = DataOf(k) \o Payload(k, n)
      BY <1>3, <2>2 DEF SegmentBegin, WithSession, DataOf
    <3>2. sent'[k] = sent[k] + n /\ gaps[k] \subseteq gaps'[k]
      BY <2>1, <2>2 DEF TypeOK
    <3>3. Away(k) => DataOf(k) = << >> /\ <<conn[k], sent[k] + 1>> \in gaps'[k]
      BY <2>1, <2>2 DEF TypeOK, Away, DataOf
    <3>4. Grows(k)
      BY <2>1, <3>1, <3>2, <3>3 DEF Grows
    <3> QED BY <3>4 DEF LineStep
  <2>3. CASE j # k
    <3>1. DataOf(k)' = DataOf(k) /\ (Away(k) => Away(k)')
      BY <1>3, <2>1, <2>3 DEF SegmentBegin, WithSession, DataOf, Away, TypeOK
    <3>2. UNCHANGED <<conn[k], sent[k], gaps[k]>>
      BY <2>1, <2>3 DEF TypeOK
    <3>3. Stays(k)
      BY <2>1, <3>1, <3>2 DEF Stays
    <3> QED BY <3>3 DEF LineStep
  <2> QED BY <2>2, <2>3
<1>4. ASSUME NEW j \in Keys, CallbackReturns(j) \/ CallbackThrows(j)
      PROVE  LineStep(k)
  <2>1. serving = j /\ UNCHANGED <<conn, sent, quiet, gaps>>
    BY <1>4 DEF CallbackReturns, CallbackThrows, CutLine, clients
  <2>2. PICK i \in NewlinePos(j, m_tcp_pool[j].data) :
          /\ m_tcp_pool' = [m_tcp_pool EXCEPT ![j].data =
                SubSeq(m_tcp_pool[j].data, i + 1, Len(m_tcp_pool[j].data))]
          /\ out' = [out EXCEPT ![j] = Append(@, SubSeq(m_tcp_pool[j].data, 1, i))]
    BY <1>4 DEF CallbackReturns, CallbackThrows, CutLine
  <2>3. /\ j \in DOMAIN m_tcp_pool /\ DataOf(j) = m_tcp_pool[j].data
        /\ DOMAIN m_tcp_pool' = DOMAIN m_tcp_pool
    BY <2>1, <2>2, Cutting
  <2>4. CASE j = k
    <3>1. DataOf(k)' = SubSeq(DataOf(k), i + 1, Len(DataOf(k)))
      <4>1. m_tcp_pool[k] \in Session
        BY <2>3, <2>4 DEF TypeOK
      <4>2. m_tcp_pool'[k].data = SubSeq(m_tcp_pool[k].data, i + 1, Len(m_tcp_pool[k].data))
        BY <2>2, <2>3, <2>4, <4>1 DEF TypeOK, Session
      <4> QED BY <2>2, <2>3, <2>4, <4>2 DEF DataOf
    <3>2. out'[k] = Append(out[k], SubSeq(DataOf(k), 1, i))
      BY <2>2, <2>3, <2>4 DEF TypeOK
    <3>3. Shrinks(k)
      BY <2>1, <2>2, <2>3, <2>4, <3>1, <3>2 DEF Shrinks
    <3> QED BY <3>3 DEF LineStep
  <2>5. CASE j # k
    <3>1. DataOf(k)' = DataOf(k) /\ out'[k] = out[k]
      BY <2>2, <2>3, <2>5 DEF DataOf, TypeOK
    <3>2. Stays(k)
      BY <2>1, <2>3, <3>1 DEF Stays, Away
    <3> QED BY <3>2 DEF LineStep
  <2> QED BY <2>4, <2>5
<1>5. ASSUME NEW j \in Keys, SegmentEnd(j)
      PROVE  LineStep(k)
  <2>1. /\ serving = j /\ UNCHANGED <<conn, sent, quiet, out, gaps>>
        /\ m_tcp_pool' = [m_tcp_pool EXCEPT ![j].data = Limited(@)]
        /\ NewlinePos(j, m_tcp_pool[j].data) = {}
    BY <1>5 DEF SegmentEnd, clients, history
  <2>2. /\ j \in DOMAIN m_tcp_pool /\ DataOf(j) = m_tcp_pool[j].data
        /\ DOMAIN m_tcp_pool' = DOMAIN m_tcp_pool
    BY <2>1 DEF Held, DataOf
  <2>3. CASE j = k /\ Len(DataOf(k)) > Limit
    <3>1. DataOf(k)' = << >>
      <4>1. m_tcp_pool[k] \in Session
        BY <2>2, <2>3 DEF TypeOK
      <4>2. m_tcp_pool'[k].data = << >>
        BY <2>1, <2>2, <2>3, <4>1 DEF TypeOK, Session, Limited
      <4> QED BY <2>2, <2>3, <4>2 DEF DataOf
    <3>2. TooLong(k)
      BY <2>1, <2>2, <2>3, <3>1 DEF TooLong
    <3> QED BY <3>2 DEF LineStep
  <2>4. CASE j # k \/ ~ Len(DataOf(k)) > Limit
    <3>1. DataOf(k)' = DataOf(k)
      <4>1. CASE j = k
        <5>1. m_tcp_pool[k] \in Session
          BY <2>2, <4>1 DEF TypeOK
        <5>2. m_tcp_pool'[k].data = m_tcp_pool[k].data
          BY <2>1, <2>2, <2>4, <4>1, <5>1 DEF TypeOK, Session, Limited
        <5> QED BY <2>2, <4>1, <5>2 DEF DataOf
      <4>2. CASE j # k
        BY <2>1, <2>2, <4>2 DEF DataOf, TypeOK
      <4> QED BY <4>1, <4>2
    <3>2. Stays(k)
      BY <2>1, <2>2, <3>1 DEF Stays, Away
    <3> QED BY <3>2 DEF LineStep
  <2> QED BY <2>3, <2>4
<1>6. ASSUME NEW j \in Keys, TerminateTcpSession(j) \/ Vanish(j)
      PROVE  LineStep(k)
  <2>1. /\ conn' = [conn EXCEPT ![j] = @ + 1] /\ sent' = [sent EXCEPT ![j] = 0]
        /\ UNCHANGED <<quiet, out, gaps>>
    BY <1>6 DEF TerminateTcpSession, Vanish, Reconnect, history
  <2>2. CASE j = k
    <3>1. DataOf(k)' = << >>
      <4>1. CASE TerminateTcpSession(k)
        BY <4>1 DEF TerminateTcpSession, Restrict, DataOf
      <4>2. CASE Vanish(k)
        <5>1. quiet[k] \in ReuseGap .. MaxQuiet /\ m_tcp_pool' = m_tcp_pool /\ unclean \in 0 .. CleanPeriod
          BY <4>2 DEF Vanish, TypeOK
        <5>2. k \in DOMAIN m_tcp_pool => m_tcp_pool[k].age \in 0 .. Timeout + 1
          BY DEF TypeOK, Session
        <5>3. k \notin DOMAIN m_tcp_pool
          BY <5>1, <5>2 DEF Clock, Patient
        <5> QED BY <5>1, <5>3 DEF DataOf
      <4> QED BY <1>6, <2>2, <4>1, <4>2
    <3>2. Reconnects(k)
      BY <2>1, <2>2, <3>1 DEF Reconnects, TypeOK
    <3> QED BY <3>2 DEF LineStep
  <2>3. CASE j # k
    <3>1. DataOf(k)' = DataOf(k) /\ (Away(k) => Away(k)')
      BY <1>6, <2>1, <2>3 DEF TerminateTcpSession, Vanish, Restrict, DataOf, Away
    <3>2. Stays(k)
      BY <2>1, <2>3, <3>1 DEF Stays, TypeOK
    <3> QED BY <3>2 DEF LineStep
  <2> QED BY <2>2, <2>3
<1>7. CASE CleanupTimeouts
  <2>1. /\ UNCHANGED <<conn, sent, quiet, out, gaps>>
        /\ m_tcp_pool' = [j \in DOMAIN m_tcp_pool \ Stale |-> m_tcp_pool[j]]
    BY <1>7 DEF CleanupTimeouts, clients, history, Restrict
  <2>2. CASE k \in Stale
    <3>1. k \in DOMAIN m_tcp_pool /\ m_tcp_pool[k].age > Timeout
      BY <2>2 DEF Stale
    <3>2. quiet[k] > Timeout
      BY <3>1 DEF Clock, TypeOK
    <3>3. Cleaned(k)
      BY <2>1, <2>2, <3>2 DEF Cleaned, Away, DataOf
    <3> QED BY <3>3 DEF LineStep
  <2>3. CASE k \notin Stale
    <3>1. Stays(k)
      BY <2>1, <2>3 DEF Stays, Away, DataOf
    <3> QED BY <3>1 DEF LineStep
  <2> QED BY <2>2, <2>3
<1>8. CASE Tick
  <2>1. /\ UNCHANGED <<conn, sent, out, gaps>> /\ DOMAIN m_tcp_pool' = DOMAIN m_tcp_pool
        /\ quiet'[k] = AtMost(MaxQuiet, quiet[k] + 1) /\ quiet[k] \in 0 .. MaxQuiet
    BY <1>8 DEF Tick, history, TypeOK
  <2>2. DataOf(k)' = DataOf(k)
    <3>1. CASE k \in DOMAIN m_tcp_pool
      <4>1. m_tcp_pool[k] \in Session
        BY <3>1 DEF TypeOK
      <4>2. m_tcp_pool'[k].data = m_tcp_pool[k].data
        BY <1>8, <3>1, <4>1, SessionType DEF Tick, Session
      <4> QED BY <2>1, <3>1, <4>2 DEF DataOf
    <3> QED BY <2>1, <3>1 DEF DataOf
  <2>3. Away(k) => Away(k)'
    BY <2>1 DEF Away, AtMost
  <2>4. Stays(k)
    BY <2>1, <2>2, <2>3 DEF Stays
  <2> QED BY <2>4 DEF LineStep
<1> QED BY <1>1, <1>2, <1>3, <1>4, <1>5, <1>6, <1>7, <1>8 DEF Next, Serve

LEMMA FirstInStream ==
    ASSUME TypeOK, NEW k \in Keys, Stretch(k)
    PROVE  /\ First(k) \in Nat \ {0} /\ sent[k] \in Nat /\ conn[k] \in Nat
           /\ DataOf(k) \in Seq(Byte) /\ Len(DataOf(k)) \in Nat
           /\ DOMAIN DataOf(k) = 1 .. Len(DataOf(k))
           /\ sent[k] + 1 = First(k) + Len(DataOf(k))
BY KeyTypes DEF Stretch, First

LEMMA StretchStep ==
    ASSUME TypeOK, TypeOK', NEW k \in Keys, Stretch(k), LineStep(k)
    PROVE  Stretch(k)'
<1> DEFINE c == conn[k]
           d == DataOf(k)
           f == First(k)
<1>1. /\ f \in Nat \ {0} /\ sent[k] \in Nat /\ d \in Seq(Byte) /\ Len(d) \in Nat
      /\ DOMAIN d = 1 .. Len(d) /\ sent[k] + 1 = f + Len(d)
      /\ \A i \in DOMAIN d : d[i] = <<c, f + i - 1>>
  BY FirstInStream DEF Stretch
<1>2. CASE Stays(k)
  BY <1>2 DEF Stays, Stretch, First
<1>3. CASE Unheard(k) \/ TooLong(k) \/ Reconnects(k) \/ Cleaned(k)
  <2>1. DataOf(k)' = << >> /\ sent'[k] \in Nat
    BY <1>3 DEF Unheard, TooLong, Reconnects, Cleaned, TypeOK
  <2> QED BY <2>1 DEF Stretch
<1>4. CASE Grows(k)
  <2>1. PICK n \in 1 .. MaxSegment :
          DataOf(k)' = DataOf(k) \o Payload(k, n) /\ sent'[k] = sent[k] + n
    BY <1>4 DEF Grows
  <2>2. PICK e : e = DataOf(k)'
    OBVIOUS
  <2>3. e = DataOf(k) \o Payload(k, n) /\ conn'[k] = c
    BY <1>4, <2>1, <2>2 DEF Grows
  <2>4. /\ e \in Seq(Byte) /\ Len(e) = Len(d) + n /\ n \in Nat
        /\ \A i \in 1 .. Len(d) : e[i] = d[i]
        /\ \A i \in Len(d) + 1 .. Len(d) + n : e[i] = <<c, sent[k] + (i - Len(d))>>
    BY <2>3, Longer
  <2>5. First(k)' = f
    <3>1. First(k)' = sent'[k] + 1 - Len(e)
      BY <2>2 DEF First
    <3>2. f = sent[k] + 1 - Len(d)
      BY DEF First
    <3> HIDE DEF d, f, c
    <3>3. /\ sent[k] \in Nat /\ Len(d) \in Nat /\ n \in Nat
          /\ sent'[k] = sent[k] + n /\ Len(e) = Len(d) + n
      BY <1>1, <2>1, <2>4
    <3> QED BY ONLY <3>1, <3>2, <3>3
  <2> HIDE DEF d, f, c
  <2>6. ASSUME NEW i \in DOMAIN e PROVE e[i] = <<c, f + i - 1>>
    <3>1. i \in 1 .. Len(d) + n
      BY <2>4
    <3> Len(d) \in Nat /\ n \in Nat /\ f \in Nat /\ sent[k] + 1 = f + Len(d)
      BY <1>1, <2>4
    <3>2. CASE i <= Len(d)
      <4>1. i \in 1 .. Len(d)
        BY <3>1, <3>2
      <4> QED BY <1>1, <2>4, <4>1
    <3>3. CASE i > Len(d)
      <4>1. i \in Len(d) + 1 .. Len(d) + n
        BY <1>1, <2>4, <3>1, <3>3
      <4>2. e[i] = <<c, sent[k] + (i - Len(d))>>
        BY <2>4, <4>1
      <4>3. sent[k] + (i - Len(d)) = f + i - 1
        <5>1. i \in Int /\ sent[k] \in Int
          BY <1>1, <3>1
        <5> QED BY <5>1
      <4> QED BY <4>2, <4>3
    <3> QED BY <1>1, <2>4, <3>1, <3>2, <3>3
  <2>7. Len(e) <= sent'[k]
    BY <1>1, <2>1, <2>4
  <2> QED BY <2>2, <2>3, <2>5, <2>6, <2>7 DEF Stretch, c
<1>5. CASE Shrinks(k)
  <2>1. PICK e : e = DataOf(k)'
    OBVIOUS
  <2>2. PICK i \in NewlinePos(k, d) : e = SubSeq(d, i + 1, Len(d))
    BY <1>5, <2>1 DEF Shrinks
  <2>3. conn'[k] = c /\ sent'[k] = sent[k]
    BY <1>5 DEF Shrinks
  <2> HIDE DEF d, f, c
  <2>4. i \in 1 .. Len(d)
    BY <1>1 DEF NewlinePos
  <2>5. /\ DOMAIN e = 1 .. Len(d) - i /\ Len(e) = Len(d) - i
        /\ \A j \in 1 .. Len(d) - i : e[j] = d[i + j]
    <3>1. d \in Seq(Byte) /\ i \in 1 .. Len(d)
      BY <1>1, <2>4
    <3> DEFINE w == SubSeq(d, i + 1, Len(d))
    <3>2. /\ w \in Seq(Byte) /\ Len(w) = Len(d) - i
          /\ \A j \in 1 .. Len(d) - i : w[j] = d[i + j]
      BY <3>1, CutType
    <3>3. e = w
      BY <2>2
    <3> HIDE DEF w
    <3> QED BY <3>2, <3>3
  <2>6. First(k)' = f + i
    <3>1. First(k)' = sent[k] + 1 - (Len(d) - i)
      BY <2>1, <2>3, <2>5 DEF First
    <3>2. i \in Nat
      BY <1>1, <2>4
    <3> QED BY <1>1, <3>1, <3>2
  <2>7. ASSUME NEW j \in DOMAIN e PROVE e[j] = <<c, f + i + j - 1>>
    <3>1. i + j \in DOMAIN d /\ e[j] = d[i + j]
      BY <1>1, <2>4, <2>5
    <3>2. d[i + j] = <<c, f + (i + j) - 1>>
      BY <1>1, <3>1
    <3>3. j \in Nat /\ i \in Nat
      BY <1>1, <2>4, <2>5
    <3> QED BY <1>1, <3>1, <3>2, <3>3
  <2>8. Len(e) <= sent'[k]
    BY <1>1, <2>3, <2>4, <2>5
  <2> QED BY <2>1, <2>3, <2>6, <2>7, <2>8 DEF Stretch, c
<1> QED BY <1>2, <1>3, <1>4, <1>5 DEF LineStep

LEMMA NextDataType ==
    ASSUME TypeOK', NEW k \in Keys
    PROVE  DataOf(k)' \in Seq(Byte)
BY DEF TypeOK, DataOf, Session

LEMMA BeginningStep ==
    ASSUME TypeOK, TypeOK', NEW k \in Keys, Stretch(k), Stretch(k)', Beginning(k), LineStep(k)
    PROVE  Beginning(k)'
<1> USE FirstInStream
<1> DEFINE c == conn[k]
           f == First(k)
<1>g. PICK g : g = First(k)'
  OBVIOUS
<1> USE <1>g
<1>0. g \in Nat \ {0}
  <2>1. sent'[k] \in Nat /\ Len(DataOf(k)') \in Nat
    BY NextDataType DEF TypeOK
  <2> QED BY <2>1 DEF Stretch, First
<1>1. CASE Stays(k)
  <2>1. g = f /\ conn'[k] = c /\ gaps'[k] = gaps[k]
    BY <1>1 DEF Stays, First
  <2> QED BY <1>1, <2>1 DEF Stays, Beginning, Away, TailExplained
<1>2. CASE Unheard(k)
  <2>1. g = sent'[k] + 1 /\ conn'[k] = c /\ <<c, g>> \in gaps'[k]
    BY <1>2, <1>0 DEF Unheard, First, TypeOK
  <2>2. PICK b \in 1 .. g : BeginsLine(k, c, b, g)
    BY <1>0, BeginExists
  <2>3. g = b \/ g \in b + 1 .. g
    BY <1>0
  <2>4. TailExplained(conn'[k], b, g, g, gaps'[k])
    BY <2>1, <2>3 DEF TailExplained
  <2> QED BY <2>1, <2>2, <2>4 DEF Beginning
<1>3. CASE Grows(k)
  <2>1. g = f /\ conn'[k] = c /\ gaps[k] \subseteq gaps'[k]
    <3>1. PICK n \in 1 .. MaxSegment :
            DataOf(k)' = DataOf(k) \o Payload(k, n) /\ sent'[k] = sent[k] + n
      BY <1>3 DEF Grows
    <3>2. Len(DataOf(k)') = Len(DataOf(k)) + n /\ n \in Nat
      BY <3>1, Longer
    <3>3. /\ conn'[k] = c /\ gaps[k] \subseteq gaps'[k]
          /\ g = sent'[k] + 1 - Len(DataOf(k)') /\ f = sent[k] + 1 - Len(DataOf(k))
      BY <1>3 DEF Grows, First
    <3>4. sent[k] \in Nat /\ Len(DataOf(k)) \in Nat
      BY FirstInStream
    <3> HIDE DEF f
    <3> QED BY ONLY <3>1, <3>2, <3>3, <3>4
  <2>2. CASE Away(k)
    <3>1. <<c, g>> \in gaps'[k]
      <4>1. DataOf(k) = << >> /\ <<c, sent[k] + 1>> \in gaps'[k]
        BY <1>3, <2>2 DEF Grows
      <4>2. f = sent[k] + 1
        BY <4>1, FirstInStream DEF First
      <4> QED BY <2>1, <4>1, <4>2
    <3>2. PICK b \in 1 .. g : BeginsLine(k, c, b, g)
      BY <1>0, BeginExists
    <3>3. g = b \/ g \in b + 1 .. g
      BY <1>0
    <3>4. TailExplained(conn'[k], b, g, g, gaps'[k])
      BY <2>1, <3>1, <3>3 DEF TailExplained
    <3> QED BY <2>1, <3>2, <3>4 DEF Beginning
  <2>3. CASE ~ Away(k)
    <3>1. PICK b \in 1 .. f : BeginsLine(k, c, b, f) /\ TailExplained(c, b, f, f, gaps[k])
      BY <2>3 DEF Beginning, Away
    <3>2. TailExplained(conn'[k], b, g, g, gaps'[k])
      BY <2>1, <3>1 DEF TailExplained
    <3> QED BY <2>1, <3>1, <3>2 DEF Beginning
  <2> QED BY <2>2, <2>3
<1>4. CASE Shrinks(k)
  <2>1. PICK i \in NewlinePos(k, DataOf(k)) :
          DataOf(k)' = SubSeq(DataOf(k), i + 1, Len(DataOf(k)))
    BY <1>4 DEF Shrinks
  <2>2. i \in DOMAIN DataOf(k) /\ IsNewline(k, DataOf(k)[i])
    BY DEF NewlinePos
  <2>3. g = f + i /\ conn'[k] = c
    <3>1. Len(DataOf(k)') = Len(DataOf(k)) - i /\ i \in Nat
      <4>1. DataOf(k) \in Seq(Byte) /\ i \in 1 .. Len(DataOf(k))
        BY <2>2, FirstInStream
      <4> QED BY <2>1, <4>1, CutType
    <3>2. sent'[k] = sent[k] /\ conn'[k] = c
      BY <1>4 DEF Shrinks
    <3>3. /\ Len(DataOf(k)) \in Nat /\ f \in Nat /\ sent[k] \in Nat
          /\ sent[k] + 1 = f + Len(DataOf(k))
      BY FirstInStream
    <3>4. g = sent[k] + 1 - (Len(DataOf(k)) - i)
      BY <3>1, <3>2 DEF First
    <3> HIDE DEF f
    <3> QED BY <3>1, <3>2, <3>3, <3>4
  <2>4. DataOf(k)[i] = <<c, f + i - 1>>
    BY <2>2 DEF Stretch
  <2>5. g - 1 \in Stream(k, c).ends
    BY <2>2, <2>3, <2>4 DEF IsNewline
  <2>6. BeginsLine(k, c, g, g)
    BY <1>0, <2>5 DEF BeginsLine
  <2>7. TailExplained(conn'[k], g, g, g, gaps'[k])
    BY DEF TailExplained
  <2> QED BY <1>0, <2>3, <2>6, <2>7 DEF Beginning
<1>5. CASE TooLong(k)
  <2>1. PICK b \in 1 .. f : BeginsLine(k, c, b, f) /\ TailExplained(c, b, f, f, gaps[k])
    BY <1>5 DEF TooLong, Beginning
  <2>2. g = f + Len(DataOf(k)) /\ Len(DataOf(k)) > Limit /\ conn'[k] = c
    BY <1>5 DEF TooLong, First
  <2>3. ASSUME NEW q \in f .. g - 1 PROVE q \notin Stream(k, c).ends
    <3>1. q - f + 1 \in DOMAIN DataOf(k)
      BY <2>2
    <3>2. DataOf(k)[q - f + 1] = <<c, f + (q - f + 1) - 1>>
      BY <3>1 DEF Stretch
    <3>3. f + (q - f + 1) - 1 = q
      OBVIOUS
    <3>4. ~ IsNewline(k, DataOf(k)[q - f + 1])
      BY <1>5, <3>1, FirstIsFound DEF TooLong
    <3> QED BY <3>2, <3>3, <3>4 DEF IsNewline
  <2>4. BeginsLine(k, c, b, g) /\ b \in 1 .. g
    BY <2>1, <2>2, <2>3, Numbers DEF BeginsLine
  <2>5. TailExplained(conn'[k], b, g, g, gaps'[k])
    BY <2>2, Numbers DEF TailExplained
  <2> QED BY <2>2, <2>4, <2>5 DEF Beginning
<1>6. CASE Reconnects(k)
  <2>1. g = 1
    BY <1>6 DEF Reconnects, First
  <2>2. BeginsLine(k, conn'[k], 1, g) /\ TailExplained(conn'[k], 1, g, g, gaps'[k])
    BY <2>1 DEF BeginsLine, TailExplained
  <2> QED BY <2>1, <2>2 DEF Beginning
<1>7. CASE Cleaned(k)
  BY <1>7 DEF Cleaned, Beginning, Away
<1> QED BY <1>1, <1>2, <1>3, <1>4, <1>5, <1>6, <1>7 DEF LineStep

\* The chunk that is cut off is one line, or its tail.
LEMMA ChunkIsLineOrTail ==
    ASSUME TypeOK, NEW k \in Keys, Stretch(k), Beginning(k), k \in DOMAIN m_tcp_pool,
           NEW i \in NewlinePos(k, DataOf(k))
    PROVE  IsLineOrTail(k, SubSeq(DataOf(k), 1, i), gaps[k])
<1> DEFINE c == conn[k]
           d == DataOf(k)
           f == First(k)
           chunk == SubSeq(d, 1, i)
           last == f + i - 1
<1>1. /\ f \in Nat \ {0} /\ d \in Seq(Byte) /\ Len(d) \in Nat /\ DOMAIN d = 1 .. Len(d)
      /\ \A j \in DOMAIN d : d[j] = <<c, f + j - 1>>
  BY FirstInStream DEF Stretch
<1>2. /\ i \in 1 .. Len(d) /\ IsNewline(k, d[i])
      /\ \A j \in 1 .. i - 1 : ~ IsNewline(k, d[j])
  BY <1>1 DEF NewlinePos
<1>3. PICK b \in 1 .. f : BeginsLine(k, c, b, f) /\ TailExplained(c, b, f, f, gaps[k])
  BY DEF Beginning
<1> HIDE DEF c, d, f
<1>4. /\ chunk \in Seq(Byte) /\ Len(chunk) = i /\ DOMAIN chunk = 1 .. i
      /\ \A j \in 1 .. i : chunk[j] = d[j]
  <2>1. d \in Seq(Byte) /\ i \in 1 .. Len(d)
    BY <1>1, <1>2
  <2> HIDE DEF chunk
  <2>2. /\ SubSeq(d, 1, i) \in Seq(Byte) \ {<< >>} /\ Len(SubSeq(d, 1, i)) = i
        /\ \A j \in 1 .. i : SubSeq(d, 1, i)[j] = d[j]
    BY ONLY <2>1, CutType
  <2>3. chunk \in Seq(Byte) /\ Len(chunk) = i /\ \A j \in 1 .. i : chunk[j] = d[j]
    BY <2>2 DEF chunk
  <2> QED BY <2>3, LenProperties
<1> HIDE DEF chunk
<1>5. i \in Nat \ {0} /\ last \in Nat \ {0} /\ last - f + 1 = i /\ f <= last
  BY <1>1, <1>2
<1>6. ASSUME NEW j \in 1 .. i PROVE chunk[j] = <<c, f + j - 1>>
  <2>1. j \in DOMAIN d
    BY <1>1, <1>2
  <2> QED BY <1>1, <1>4, <2>1
<1>7. chunk[1] = <<c, f>> /\ End(chunk) = <<c, last>>
  <2>1. 1 \in 1 .. i /\ i \in 1 .. i /\ f + 1 - 1 = f
    BY <1>1, <1>5
  <2> QED BY <1>4, <1>6, <2>1 DEF End
<1>8. chunk = [j \in 1 .. last - f + 1 |-> <<c, f + j - 1>>]
  <2>1. chunk \in [1 .. i -> Byte]
    BY <1>4, LenProperties
  <2>2. chunk = [j \in 1 .. i |-> <<c, f + j - 1>>]
    BY <1>6, <2>1
  <2> QED BY <1>5, <2>2
<1>9. last \in Stream(k, c).ends
  <2>1. d[i] = <<c, last>>
    BY <1>1, <1>2
  <2> QED BY <1>2, <2>1 DEF IsNewline
<1> HIDE DEF last
<1>10. ASSUME NEW q \in f .. last - 1 PROVE q \notin Stream(k, c).ends
  <2>1. q - f + 1 \in 1 .. i - 1 /\ q - f + 1 \in DOMAIN d /\ f + (q - f + 1) - 1 = q
    BY <1>1, <1>2, <1>5 DEF last
  <2>2. d[q - f + 1] = <<c, q>> /\ ~ IsNewline(k, d[q - f + 1])
    BY <1>1, <1>2, <2>1
  <2> QED BY <2>2 DEF IsNewline
<1>11. BeginsLine(k, c, b, last) /\ b \in 1 .. last
  BY <1>1, <1>3, <1>5, <1>10 DEF BeginsLine
<1>12. LineBegin(k, c, last) = b
  BY <1>5, <1>11, BeginIs
<1>13. TailExplained(c, b, f, last, gaps[k])
  <2>1. b \in Nat /\ f \in Nat /\ last \in Nat /\ f <= last /\ Limit \in Nat
    BY <1>1, <1>5, Numbers
  <2>2. f - b > Limit => last - b > Limit
    BY ONLY <2>1
  <2> QED BY <1>3, <2>2 DEF TailExplained
<1>14. f >= b
  BY <1>1, <1>3
<1>15. chunk[1][1] = c /\ chunk[1][2] = f /\ End(chunk)[2] = last
  BY <1>7
<1>16. IsLineOrTail(k, chunk, gaps[k])
  BY <1>8, <1>9, <1>12, <1>13, <1>14, <1>15 DEF IsLineOrTail
<1> QED BY <1>16 DEF chunk, d

\* What explained a chunk goes on to explain it.
LEMMA GapsStay ==
    ASSUME NEW k, NEW chunk, NEW a, NEW b, a \subseteq b, IsLineOrTail(k, chunk, a)
    PROVE  IsLineOrTail(k, chunk, b)
BY DEF IsLineOrTail, TailExplained

LEMMA LineInvStep ==
    ASSUME TypeOK, TypeOK', Held, Patient, [Next]_vars, NEW k \in Keys, LineInv(k)
    PROVE  LineInv(k)'
<1>1. Clock(k)'
  BY ClockStep DEF LineInv
<1>2. LineStep(k)
  BY NextLineStep DEF LineInv
<1>3. Stretch(k)'
  BY <1>2, StretchStep DEF LineInv
<1>4. Beginning(k)'
  BY <1>2, <1>3, BeginningStep DEF LineInv
<1>5. ASSUME NEW n \in DOMAIN out'[k] PROVE IsLineOrTail(k, out'[k][n], gaps'[k])
  <2>1. CASE Shrinks(k)
    <3>1. PICK i \in NewlinePos(k, DataOf(k)) :
            out'[k] = Append(out[k], SubSeq(DataOf(k), 1, i))
      BY <2>1 DEF Shrinks
    <3> DEFINE line == SubSeq(DataOf(k), 1, i)
    <3>2. IsLineOrTail(k, line, gaps[k]) /\ gaps'[k] = gaps[k]
      BY <2>1, ChunkIsLineOrTail DEF Shrinks, LineInv
    <3> HIDE DEF line
    <3>3. /\ DOMAIN out'[k] = 1 .. Len(out[k]) + 1 /\ DOMAIN out[k] = 1 .. Len(out[k])
          /\ Len(out[k]) \in Nat /\ out'[k][Len(out[k]) + 1] = line
          /\ \A m \in 1 .. Len(out[k]) : out'[k][m] = out[k][m]
      <4>1. out[k] \in Seq(Seq(Byte) \ {<< >>}) /\ out'[k] = Append(out[k], line)
        BY <3>1 DEF TypeOK, line
      <4> QED BY <4>1, OneLonger
    <3>4. CASE n = Len(out[k]) + 1
      BY <3>2, <3>3, <3>4, GapsStay
    <3>5. CASE n \in DOMAIN out[k]
      <4>1. IsLineOrTail(k, out[k][n], gaps[k]) /\ out'[k][n] = out[k][n]
        BY <3>3, <3>5 DEF LineInv
      <4> QED BY <3>2, <4>1, GapsStay
    <3> QED BY <3>3, <3>4, <3>5
  <2>2. CASE Unheard(k)
    BY <1>5, <2>2 DEF Unheard
  <2>3. CASE Stays(k) \/ Grows(k) \/ TooLong(k) \/ Reconnects(k) \/ Cleaned(k)
    <3>1. out'[k] = out[k] /\ gaps[k] \subseteq gaps'[k]
      BY <2>3 DEF Stays, Grows, TooLong, Reconnects, Cleaned
    <3>2. IsLineOrTail(k, out[k][n], gaps[k])
      BY <1>5, <3>1 DEF LineInv
    <3> QED BY <3>1, <3>2, GapsStay
  <2> QED BY <1>2, <2>1, <2>2, <2>3 DEF LineStep
<1> QED BY <1>1, <1>3, <1>4, <1>5 DEF LineInv

\* What the callback is given is one line of one connection or the tail of one
\* that was too long, was interrupted or began unheard: for every client that
\* comes back with the same key only after the cleaner must have been there.
THEOREM LinesAreNotMixed == ASSUME Patient PROVE Spec => []LineOrTail
<1> DEFINE JInv == IInv /\ \A k \in Keys : LineInv(k)
<1>1. Init => JInv
  <2> SUFFICES ASSUME Init, NEW k \in Keys PROVE LineInv(k)
    BY InitIInv
  <2>1. /\ DOMAIN m_tcp_pool = {} /\ DataOf(k) = << >> /\ sent[k] = 0 /\ out[k] = << >>
    BY DEF Init, DataOf
  <2>2. First(k) = 1
    BY <2>1 DEF First
  <2>3. BeginsLine(k, conn[k], 1, 1) /\ TailExplained(conn[k], 1, 1, 1, gaps[k])
    BY DEF BeginsLine, TailExplained
  <2> QED BY <2>1, <2>2, <2>3 DEF LineInv, Clock, Stretch, Beginning
<1>2. JInv /\ [Next]_vars => JInv'
  <2> SUFFICES ASSUME JInv, [Next]_vars PROVE JInv'
    OBVIOUS
  <2>1. IInv'
    BY NextIInv
  <2>2. ASSUME NEW k \in Keys PROVE LineInv(k)'
    BY <2>1, LineInvStep DEF IInv
  <2> QED BY <2>1, <2>2
<1>3. JInv => LineOrTail
  BY DEF LineInv, LineOrTail
<1> QED BY <1>1, <1>2, <1>3, PTL DEF Spec
==============================================================================
