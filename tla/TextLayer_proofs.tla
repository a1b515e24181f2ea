---------------------------- MODULE TextLayer_proofs ----------------------------
(***************************************************************************)
(* What TextLayer's runs check on a set of sentences, proved for every set *)
(* of coherent ones: that no decoder reads beyond what it is given, that   *)
(* the two ways to AisDecoder agree, that the plug-in counts what the      *)
(* decoders report, and that they report what was sent.  The decoders keep *)
(* no state, so that the invariant only says that a report is of the       *)
(* sentence at hand; the rest are lemmas about the decoders.               *)
(***************************************************************************)
EXTENDS TextLayer, NumberLemmas, TLAPS

\* What has been reported is the reports of the one sentence at hand.
Inv ==
    /\ input \subseteq Messages
    /\ \A m, n \in input : m = n
    /\ pipeline \subseteq {PipelineReport(m) : m \in input}
    /\ parser \subseteq {ParserReport(m) : m \in input}

\* Every report in reach is of the sentence at hand: nothing of a former one is
\* left behind in either ParseMsg, in whatever order they take their sentences.
THEOREM InductiveInvariant == Spec => []Inv
<1>1. Init => Inv
  BY DEF Init, Inv
<1>2. Inv /\ [Next]_vars => Inv'
  <2> SUFFICES ASSUME Inv, [Next]_vars
               PROVE  Inv'
    OBVIOUS
  <2>1. ASSUME NEW m \in Messages, Arrive(m)
        PROVE  Inv'
    BY <2>1 DEF Inv, Arrive
  <2>2. CASE PipelineParseMsg
    <3>1. PICK m \in input : pipeline' = {PipelineReport(m)}
      BY <2>2 DEF PipelineParseMsg
    <3>2. input' = input /\ parser' = parser
      BY <2>2 DEF PipelineParseMsg
    <3>3. QED
      BY <3>1, <3>2 DEF Inv
  <2>3. CASE Nmea0183ParseMsg
    <3>1. PICK m \in input : parser' = {ParserReport(m)}
      BY <2>3 DEF Nmea0183ParseMsg
    <3>2. input' = input /\ pipeline' = pipeline
      BY <2>3 DEF Nmea0183ParseMsg
    <3>3. QED
      BY <3>1, <3>2 DEF Inv
  <2>4. CASE Return
    BY <2>4 DEF Inv, Return
  <2>5. CASE UNCHANGED vars
    BY <2>5 DEF Inv, vars
  <2>6. QED
    BY <2>1, <2>2, <2>3, <2>4, <2>5 DEF Next
<1>3. QED
  BY <1>1, <1>2, PTL DEF Spec

LEMMA ReportsOfInput ==
    ASSUME Inv, NEW m \in input
    PROVE  /\ m \in Messages
           /\ \A r \in pipeline : r = PipelineReport(m)
           /\ \A s \in parser : s = ParserReport(m)
  BY DEF Inv
------------------------------------------------------------------------------
\* '*' is no character of a payload: with the checksum on it nothing is decoded.
LEMMA SumSpoilsPayload ==
    ASSUME NEW payload \in Seq(Nat)
    PROVE  Decoded(payload \o <<Asterisk, 53, 53>>) = NoReport
<1> DEFINE long == payload \o <<Asterisk, 53, 53>>
<1>1. /\ Len(payload) + 1 \in DOMAIN long
      /\ long[Len(payload) + 1] = 42
  BY DEF Asterisk
<1>2. ConvertNmeaToSixBit(long) = << >>
  <2>1. ~ IsArmour(42)
    BY DEF IsArmour
  <2> HIDE DEF long
  <2>2. QED
    BY <1>1, <2>1 DEF ConvertNmeaToSixBit
<1>3. BitLength(ConvertNmeaToSixBit(long)) = 0
  BY <1>2 DEF BitLength
<1> HIDE DEF long
<1>4. Decoded(long) = NoReport
  BY <1>3 DEF Decoded
<1>5. QED
  BY <1>4 DEF long

\* A payload is no longer in bits than in characters, six to each.
LEMMA BitsOfPayload ==
    ASSUME NEW payload \in Seq(Nat)
    PROVE  LET bits == ConvertNmeaToSixBit(payload)
           IN  /\ bits = << >> \/ bits = [n \in 1 .. Len(payload) |-> SixBit(payload[n])]
               /\ Len(bits) \in Nat
               /\ BitLength(bits) = 6 * Len(bits)
  BY DEF ConvertNmeaToSixBit, BitLength

\* A report is made of no payload of fewer than 38 bits, and bears its type.
LEMMA DecodedReport ==
    ASSUME NEW payload \in Seq(Nat), Decoded(payload).kind # "none"
    PROVE  LET bits == ConvertNmeaToSixBit(payload)
           IN  /\ BitLength(bits) >= 38
               /\ Decoded(payload).type = MessageType(bits)
<1> DEFINE bits == ConvertNmeaToSixBit(payload)
<1>1. BitLength(bits) \in Nat
  BY BitsOfPayload DEF BitLength
<1>2. CASE BitLength(bits) < 38
  <2>1. Decoded(payload) = NoReport
    BY <1>1, <1>2 DEF Decoded
  <2>2. QED
    BY <2>1 DEF NoReport
<1>3. CASE BitLength(bits) >= 38
  <2>1. \/ Decoded(payload) = NoReport
        \/ \E kind, data : Decoded(payload)
                             = Report(kind, MessageType(bits), FetchBits(bits, 6, 24), data)
    BY <1>1, <1>3 DEF Decoded
  <2>2. Decoded(payload).type = MessageType(bits)
    BY <2>1 DEF NoReport, Report
  <2>3. QED
    BY <1>3, <2>2
<1>4. QED
  BY <1>1, <1>2, <1>3

\* The guards on the length cover the fields that are fetched behind them, but
\* for the last character of the port in a message 5 of exactly 420 bits.
LEMMA FieldsEnd ==
    ASSUME NEW type, NEW chars \in Nat, 6 * chars >= 38,
           NEW field \in FieldsRead(type, 6 * chars)
    PROVE  \/ field[1] + field[2] <= 6 * chars
           \/ type = 5 /\ 6 * chars = 420 /\ field = <<416, 6>>
<1> DEFINE length == 6 * chars
<1>1. length \in Nat /\ length >= 38
  OBVIOUS
<1>2. CASE field \in {<<0, 6>>, <<6, 24>>}
  BY <1>2
<1>3. CASE IsClassA(type, length) /\ field \in {<<30, 4>>, <<42, 8>>, <<61, 28>>, <<89, 27>>,
                                                <<116, 12>>}
  BY <1>3 DEF IsClassA
<1>4. CASE IsLongRange(type, length) /\ field \in {<<43, 6>>, <<49, 18>>, <<67, 17>>, <<84, 9>>}
  BY <1>4 DEF IsLongRange
<1>5. CASE IsVoyage(type, length) /\ field \in {<<40, 30>>, <<232, 8>>}
  BY <1>5 DEF IsVoyage
<1>6. CASE IsVoyage(type, length) /\ field \in TextFields(70, 7) \cup TextFields(112, 20)
                                                  \cup TextFields(302, 20)
  <2>1. type = 5 /\ length >= 420
    BY <1>6 DEF IsVoyage
  <2>2. PICK start \in {70, 112, 302}, n \in 0 .. 19 : field = <<start + 6 * n, 6>>
    BY <1>6 DEF TextFields
  <2>3. start + 6 * n + 6 <= 420 \/ (start = 302 /\ n = 19)
    BY <2>2
  <2>4. CASE start = 302 /\ n = 19
    <3>1. field = <<416, 6>>
      BY <2>2, <2>4
    <3>2. length = 420 \/ length >= 426
      BY <2>1
    <3>3. QED
      BY <3>1, <3>2, <2>1
  <2>5. CASE start + 6 * n + 6 <= 420
    BY <2>1, <2>2, <2>5
  <2>6. QED
    BY <2>3, <2>4, <2>5
<1>7. QED
  BY <1>2, <1>3, <1>4, <1>5, <1>6 DEF FieldsRead

\* What the pipeline hands to AisDecoder is the payload, or spoilt.
LEMMA PipelineAis ==
    ASSUME MessagesAssumption, NEW m \in Messages
    PROVE  LET isAis == /\ m.size >= 7 /\ m.lead = "!" /\ m.header.letters >= 6
                        /\ IsAisType(m.header) /\ Len(m.f) >= 6
           IN  PipelineReport(m).ais
                 = IF isAis /\ Len(m.f) # 6 THEN Decoded(m.payload) ELSE NoReport
<1>1. m.payload \in Seq(Nat)
  BY DEF MessagesAssumption
<1>2. Len(m.f) = 6 => Decoded(Field5WithSum(m)) = NoReport
  BY <1>1, SumSpoilsPayload DEF Field5WithSum
<1>3. Len(m.f) # 6 => Field5WithSum(m) = m.payload
  BY DEF Field5WithSum
<1>4. QED
  BY <1>2, <1>3 DEF PipelineReport
------------------------------------------------------------------------------
\* FieldsInside: of no payload, of whatever characters and length, does
\* DecodePayload read a field beyond its end, but for the case that is named.
THEOREM ReadsInside == Spec => []FieldsInside
<1>1. Inv => FieldsInside
  <2> SUFFICES ASSUME Inv, NEW m \in input, NEW r \in pipeline, r.ais.kind # "none",
                      NEW field \in FieldsRead(r.ais.type,
                                       BitLength(ConvertNmeaToSixBit(m.payload)))
               PROVE  LET length == BitLength(ConvertNmeaToSixBit(m.payload))
                      IN  \/ field[1] + field[2] <= length
                          \/ r.ais.type = 5 /\ length = 420 /\ field = <<416, 6>>
    BY DEF FieldsInside
  <2> DEFINE bits == ConvertNmeaToSixBit(m.payload)
  <2>1. m \in Messages /\ r = PipelineReport(m)
    BY ReportsOfInput
  <2>2. m.payload \in Seq(Nat)
    BY <2>1, MessagesAssumption DEF MessagesAssumption
  <2>3. r.ais = Decoded(m.payload)
    BY <2>1, PipelineAis, MessagesAssumption DEF NoReport
  <2>4. BitLength(bits) >= 38
    BY <2>2, <2>3, DecodedReport
  <2>5. Len(bits) \in Nat /\ BitLength(bits) = 6 * Len(bits)
    BY <2>2, BitsOfPayload
  <2>6. QED
    BY <2>4, <2>5, FieldsEnd
<1>2. QED
  BY <1>1, InductiveInvariant, PTL

\* SameReport: whichever of the two ParseMsg hands a sentence with a right
\* checksum to AisDecoder, the report is the same.
THEOREM WaysAgree == Spec => []SameReport
<1>1. Inv => SameReport
  <2> SUFFICES ASSUME Inv, NEW m \in input, NEW r \in pipeline, NEW s \in parser, m.sumOk
               PROVE  r.ais = s.ais
    BY DEF SameReport
  <2>1. m \in Messages /\ r = PipelineReport(m) /\ s = ParserReport(m)
    BY ReportsOfInput
  <2>2. /\ Len(m.f) \in Nat /\ m.header.letters \in Nat /\ m.size \in Nat
        /\ IsCoherent(m)
    BY <2>1, MessagesAssumption DEF MessagesAssumption, HeaderType
  <2> DEFINE isAis == m.lead = "!" /\ IsAisType(m.header) /\ Len(m.f) >= 7
  <2>3. isAis => m.header.letters >= 6 /\ m.size >= 7
    BY <2>2 DEF IsCoherent
  <2>4. r.ais = IF isAis THEN Decoded(m.payload) ELSE NoReport
    <3>1. \A n \in Nat : n >= 7 <=> n >= 6 /\ n # 6
      OBVIOUS
    <3>2. Len(m.f) >= 7 <=> Len(m.f) >= 6 /\ Len(m.f) # 6
      BY <2>2, <3>1
    <3>3. isAis <=> /\ m.size >= 7 /\ m.lead = "!" /\ m.header.letters >= 6
                    /\ IsAisType(m.header) /\ Len(m.f) >= 6 /\ Len(m.f) # 6
      BY <2>3, <3>2
    <3> HIDE DEF isAis
    <3>4. QED
      BY <2>1, <3>3, PipelineAis, MessagesAssumption
  <2>5. s.ais = IF isAis THEN Decoded(m.payload) ELSE NoReport
    BY <2>1, <2>2, <2>3 DEF ParserReport, EnoughForAis
  <2>6. QED
    BY <2>4, <2>5
<1>2. QED
  BY <1>1, InductiveInvariant, PTL
------------------------------------------------------------------------------
LEMMA ElementsOf ==
    ASSUME NEW S, NEW s \in Seq(S)
    PROVE  \A i \in 1 .. Len(s) : s[i] \in S
  OBVIOUS

\* The checksum hangs on the last field, and on no other.
LEMMA SumOnLast ==
    ASSUME NEW f \in Seq(FieldType), f # << >>
    PROVE  /\ WithSum(f) \in Seq(FieldType)
           /\ Len(WithSum(f)) = Len(f)
           /\ Len(f) \in Nat /\ Len(f) >= 1
           /\ \A n \in 0 .. Len(f) - 2 : Field(WithSum(f), n) = Field(f, n)
           /\ Field(WithSum(f), Len(f) - 1).sum
           /\ \A n \in 0 .. Len(f) - 1 : Field(WithSum(f), n).num = Field(f, n).num
<1>1. Len(f) \in Nat /\ Len(f) >= 1 /\ \A n \in 1 .. Len(f) : f[n] \in FieldType
  OBVIOUS
<1> DEFINE hung(x) == [x EXCEPT !.sum = TRUE]
<1>2. \A x \in FieldType : hung(x) \in FieldType /\ hung(x).sum /\ hung(x).num = x.num
  BY DEF FieldType
<1> DEFINE g == WithSum(f)
<1>3. g = [f EXCEPT ![Len(f)] = hung(f[Len(f)])]
  BY DEF WithSum
<1> HIDE DEF hung
<1>4. g \in Seq(FieldType) /\ Len(g) = Len(f)
  BY <1>1, <1>2, <1>3
<1>5. g[Len(f)] = hung(f[Len(f)]) /\ \A n \in 1 .. Len(f) - 1 : g[n] = f[n]
  BY <1>1, <1>3
<1> HIDE DEF g
<1>6. \A n \in 0 .. Len(f) - 2 : Field(g, n) = Field(f, n)
  BY <1>1, <1>5 DEF Field
<1>7. Field(g, Len(f) - 1) = hung(f[Len(f)]) /\ Field(f, Len(f) - 1) = f[Len(f)]
  BY <1>1, <1>5 DEF Field
<1>8. \A n \in 0 .. Len(f) - 1 : n \in 0 .. Len(f) - 2 \/ n = Len(f) - 1
  BY <1>1
<1>9. f[Len(f)] \in FieldType
  BY <1>1
<1>10. QED
  BY <1>1, <1>2, <1>4, <1>6, <1>7, <1>8, <1>9 DEF g

\* The reading that reads one field more than it asks for.
ReadsGgk(r, header, f, size) ==
    /\ r = Reads(TRUE, Pairs(3), {7}, {}, {}, None)
    /\ header.vendor = "$PTNL" /\ size >= 7 /\ Says(Field(f, 1), "GGK")

\* What ParseInMsg may read of a sentence of size fields, and of which.
IsReading(r, header, f, size) ==
    \/ r = NoRead
    \/ r = Unknown(f)
    \/ r = Reads(FALSE, {}, {}, {}, {}, 1) /\ size >= 2
    \/ r = Reads(TRUE, Pairs(2), {6, 9}, {}, {1}, None)
         /\ header.type = "GGA" /\ size >= 10
    \/ r = Reads(TRUE, Pairs(1), {}, {}, {5}, None) /\ header.type = "GLL" /\ size >= 7
    \/ r = Reads(TRUE, Pairs(3), {}, {7, 8}, {1, 2}, None)
         /\ header.type = "RMC" /\ size >= 9 /\ Says(Field(f, 2), "A")
    \/ r = Reads(TRUE, Pairs(2), {}, {9}, {1}, None)
         /\ header.type = "GNS" /\ ~ header.prop /\ size >= 10
    \/ r = Reads(TRUE, Pairs(2), {}, {}, {}, 1) /\ header.type = "TLL" /\ size >= 6
    \/ r = Reads(TRUE, {}, {2, 4, 5}, {}, {}, None)
         /\ header.vendor = "$PASHR" /\ size >= 11
    \/ r = Reads(TRUE, Pairs(3), {}, {}, {}, 2) /\ header.vendor = "$PFEC" /\ size >= 7
    \/ r = Reads(TRUE, {}, {2, 3, 4}, {}, {}, None)
         /\ header.vendor \in {"$PFUG", "$PSBG"} /\ size >= 5
    \/ r = Reads(TRUE, {}, {2, 3}, {}, {}, None) /\ header.vendor = "$PFUG" /\ size >= 5
    \/ r = Reads(TRUE, {}, {2, 3}, {}, {}, None) /\ header.vendor = "$PTNL" /\ size >= 5
    \/ ReadsGgk(r, header, f, size)
    \/ r = Reads(TRUE, Pairs(2), {6}, {}, {}, None)
         /\ header.vendor = "$PLCICA" /\ size >= 7
    \/ r = Reads(TRUE, Pairs(6), {}, {11}, {}, None)
         /\ header.vendor = "$PGRMF" /\ size >= 13

LEMMA Readings ==
    ASSUME NEW header \in HeaderType, NEW f \in Seq(FieldType), NEW size \in Nat, size = Len(f)
    PROVE  IsReading(Read(header, f), header, f, size)
<1>1. Len(f) \in Nat /\ header.letters \in Nat /\ header.prop \in BOOLEAN
  BY DEF HeaderType
<1>2. CASE header.letters < 4
  BY <1>2 DEF Read, IsReading
<1>3. CASE ~ header.letters < 4 /\ header.vendor = "$RATTRM" /\ Len(f) >= 2
  BY <1>3 DEF Read, IsReading
<1>4. CASE Read(header, f) = ParseProp(header.vendor, f)
  <2>1. CASE header.vendor = "$PTNL" /\ size >= 7
    <3>1. Read(header, f) = Trimble(f)
      BY <1>4, <2>1 DEF ParseProp
    <3>2. size >= 5
      BY <2>1
    <3>3. QED
      BY <2>1, <3>1, <3>2 DEF Trimble, IsReading, ReadsGgk
  <2>2. CASE ~ (header.vendor = "$PTNL" /\ size >= 7)
    BY <1>1, <1>4, <2>2 DEF ParseProp, Fugro, Unknown, IsReading
  <2>3. QED
    BY <2>1, <2>2
<1>5. CASE ~ header.prop /\ Read(header, f) = ParseStandard(header.type, f)
  BY <1>1, <1>5 DEF ParseStandard, Gll, GnsReads, IsReading
<1>6. QED
  BY <1>1, <1>2, <1>3, <1>4, <1>5 DEF Read

LEMMA PairsRead ==
    InPairs({}) = {} /\ \A first \in Nat : InPairs(Pairs(first)) = first .. first + 3
<1>1. InPairs({}) = {}
  BY DEF InPairs
<1>2. ASSUME NEW first \in Nat
      PROVE  InPairs(Pairs(first)) = first .. first + 3
  <2>1. InPairs(Pairs(first)) = UNION {{first, first + 1}, {first + 2, first + 3}}
    BY DEF Pairs, InPairs
  <2>2. first .. first + 3 = {first, first + 1, first + 2, first + 3}
    OBVIOUS
  <2>3. QED
    BY <2>1, <2>2
<1>3. QED
  BY <1>1, <1>2

\* Nothing beyond field k is read.
Within(r, k) ==
    /\ r.strict \cup r.lenient \cup r.plain \subseteq 0 .. k
    /\ r.pairs = {} \/ \E first \in 0 .. k - 3 : r.pairs = Pairs(first)
    /\ r.object \in (0 .. k) \cup {None}

LEMMA IndicesWithin ==
    ASSUME NEW r, NEW k \in Nat, Within(r, k)
    PROVE  Indices(r) \subseteq 0 .. k
<1> DEFINE pairs == InPairs(r.pairs)
           object == IF r.object = None THEN {} ELSE {r.object}
<1>1. pairs \subseteq 0 .. k
  <2>1. CASE r.pairs = {}
    BY <2>1, PairsRead
  <2>2. ASSUME NEW first \in 0 .. k - 3, r.pairs = Pairs(first)
        PROVE  pairs \subseteq 0 .. k
    <3>1. InPairs(Pairs(first)) = first .. first + 3
      BY PairsRead
    <3>2. QED
      BY <2>2, <3>1
  <2>3. QED
    BY <2>1, <2>2 DEF Within
<1>2. object \subseteq 0 .. k
  BY DEF Within
<1>3. Indices(r) = r.strict \cup r.lenient \cup r.plain \cup pairs \cup object
  BY DEF Indices
<1> HIDE DEF pairs, object
<1>4. QED
  BY <1>1, <1>2, <1>3 DEF Within

\* The readings that ask for as many fields as they read: all but one.
AsksForAll(r, size) ==
    \/ r = Reads(FALSE, {}, {}, {}, {}, 1) /\ size >= 2
    \/ r = Reads(TRUE, Pairs(2), {6, 9}, {}, {1}, None) /\ size >= 10
    \/ r = Reads(TRUE, Pairs(1), {}, {}, {5}, None) /\ size >= 7
    \/ r = Reads(TRUE, Pairs(3), {}, {7, 8}, {1, 2}, None) /\ size >= 9
    \/ r = Reads(TRUE, Pairs(2), {}, {9}, {1}, None) /\ size >= 10
    \/ r = Reads(TRUE, Pairs(2), {}, {}, {}, 1) /\ size >= 6
    \/ r = Reads(TRUE, {}, {2, 4, 5}, {}, {}, None) /\ size >= 11
    \/ r = Reads(TRUE, Pairs(3), {}, {}, {}, 2) /\ size >= 7
    \/ r = Reads(TRUE, {}, {2, 3, 4}, {}, {}, None) /\ size >= 5
    \/ r = Reads(TRUE, {}, {2, 3}, {}, {}, None) /\ size >= 5
    \/ r = Reads(TRUE, Pairs(2), {6}, {}, {}, None) /\ size >= 7
    \/ r = Reads(TRUE, Pairs(6), {}, {11}, {}, None) /\ size >= 13

LEMMA ReadingsWithin ==
    ASSUME NEW r, NEW size \in Nat, AsksForAll(r, size)
    PROVE  \E k \in Nat : size > k /\ Within(r, k)
<1>1. CASE r = Reads(FALSE, {}, {}, {}, {}, 1) /\ size >= 2
  <2>1. Within(r, 1) /\ size > 1
    BY <1>1 DEF Within, Reads, None
  <2>2. QED
    BY <2>1
<1>2. CASE r = Reads(TRUE, Pairs(2), {6, 9}, {}, {1}, None) /\ size >= 10
  <2>1. Within(r, 9) /\ size > 9
    BY <1>2 DEF Within, Reads, None
  <2>2. QED
    BY <2>1
<1>3. CASE r = Reads(TRUE, Pairs(1), {}, {}, {5}, None) /\ size >= 7
  <2>1. Within(r, 6) /\ size > 6
    BY <1>3 DEF Within, Reads, None
  <2>2. QED
    BY <2>1
<1>4. CASE r = Reads(TRUE, Pairs(3), {}, {7, 8}, {1, 2}, None) /\ size >= 9
  <2>1. Within(r, 8) /\ size > 8
    BY <1>4 DEF Within, Reads, None
  <2>2. QED
    BY <2>1
<1>5. CASE r = Reads(TRUE, Pairs(2), {}, {9}, {1}, None) /\ size >= 10
  <2>1. Within(r, 9) /\ size > 9
    BY <1>5 DEF Within, Reads, None
  <2>2. QED
    BY <2>1
<1>6. CASE r = Reads(TRUE, Pairs(2), {}, {}, {}, 1) /\ size >= 6
  <2>1. Within(r, 5) /\ size > 5
    BY <1>6 DEF Within, Reads, None
  <2>2. QED
    BY <2>1
<1>7. CASE r = Reads(TRUE, {}, {2, 4, 5}, {}, {}, None) /\ size >= 11
  <2>1. Within(r, 10) /\ size > 10
    BY <1>7 DEF Within, Reads, None
  <2>2. QED
    BY <2>1
<1>8. CASE r = Reads(TRUE, Pairs(3), {}, {}, {}, 2) /\ size >= 7
  <2>1. Within(r, 6) /\ size > 6
    BY <1>8 DEF Within, Reads, None
  <2>2. QED
    BY <2>1
<1>9. CASE r = Reads(TRUE, {}, {2, 3, 4}, {}, {}, None) /\ size >= 5
  <2>1. Within(r, 4) /\ size > 4
    BY <1>9 DEF Within, Reads, None
  <2>2. QED
    BY <2>1
<1>10. CASE r = Reads(TRUE, {}, {2, 3}, {}, {}, None) /\ size >= 5
  <2>1. Within(r, 4) /\ size > 4
    BY <1>10 DEF Within, Reads, None
  <2>2. QED
    BY <2>1
<1>11. CASE r = Reads(TRUE, Pairs(2), {6}, {}, {}, None) /\ size >= 7
  <2>1. Within(r, 6) /\ size > 6
    BY <1>11 DEF Within, Reads, None
  <2>2. QED
    BY <2>1
<1>12. CASE r = Reads(TRUE, Pairs(6), {}, {11}, {}, None) /\ size >= 13
  <2>1. Within(r, 12) /\ size > 12
    BY <1>12 DEF Within, Reads, None
  <2>2. QED
    BY <2>1
<1>13. QED
  BY <1>1, <1>2, <1>3, <1>4, <1>5, <1>6, <1>7, <1>8, <1>9, <1>10, <1>11, <1>12 DEF AsksForAll

LEMMA ReadingKinds ==
    ASSUME NEW header, NEW f, NEW size \in Nat, NEW r, IsReading(r, header, f, size)
    PROVE  \/ r = NoRead
           \/ r = Unknown(f)
           \/ AsksForAll(r, size)
           \/ ReadsGgk(r, header, f, size)
  BY Zenon DEF IsReading, AsksForAll

\* ParseInMsg asks for as many fields as it reads, but for $PTNL,GGK.
LEMMA IndicesAreThere ==
    ASSUME NEW header \in HeaderType, NEW f \in Seq(FieldType),
           NEW n \in Indices(Read(header, f)), ~ Has(f, n)
    PROVE  header.vendor = "$PTNL" /\ Len(f) = 7 /\ Says(Field(f, 1), "GGK")
<1> PICK size \in Nat : size = Len(f)
  OBVIOUS
<1>1. \A i : Has(f, i) <=> i \in 0 .. size - 1
  BY DEF Has
<1> PICK r : r = Read(header, f)
  OBVIOUS
<1>2. ASSUME NEW k \in Nat, size > k, Within(r, k)
      PROVE  FALSE
  <2>1. n \in 0 .. k
    BY <1>2, IndicesWithin
  <2>2. QED
    BY <1>1, <1>2, <2>1
<1>3. r # NoRead
  <2>1. NoRead.strict = {} /\ NoRead.lenient = {} /\ NoRead.plain = {} /\ NoRead.pairs = {}
        /\ NoRead.object = None
    BY DEF NoRead, Reads
  <2>2. Indices(NoRead) = {}
    BY <2>1, PairsRead DEF Indices
  <2>3. QED
    BY <2>2
<1>4. r # Unknown(f)
  <2>1. SUFFICES ASSUME r = Unknown(f)
                 PROVE  FALSE
    OBVIOUS
  <2>2. r.strict = {} /\ r.lenient = {} /\ r.plain = {} /\ r.pairs = {}
        /\ r.object = IF Has(f, 1) THEN 1 ELSE None
    BY <2>1 DEF Unknown, Reads
  <2>3. n = 1 /\ Has(f, 1)
    BY <2>2, PairsRead DEF Indices
  <2>4. QED
    BY <2>3
<1>5. /\ r = Reads(TRUE, Pairs(3), {7}, {}, {}, None) /\ size >= 7
      /\ header.vendor = "$PTNL" /\ Says(Field(f, 1), "GGK")
  <2>1. ~ AsksForAll(r, size)
    BY ReadingsWithin, <1>2
  <2>2. IsReading(r, header, f, size)
    BY Readings
  <2>3. \/ r = NoRead
        \/ r = Unknown(f)
        \/ AsksForAll(r, size)
        \/ ReadsGgk(r, header, f, size)
    BY <2>2, ReadingKinds
  <2>4. QED
    BY <2>3, <2>1, <1>3, <1>4 DEF ReadsGgk
<1>6. Within(r, 7)
  BY <1>5 DEF Within, Reads, None
<1>7. ~ size > 7
  BY <1>2, <1>6
<1>8. size = 7
  BY <1>5, <1>7
<1>9. QED
  BY <1>5, <1>8

\* What ParseInMsg does follows from what it reads.
LEMMA ParsedKinds ==
    ASSUME NEW header, NEW f
    PROVE  LET r == Read(header, f)
               p == Parsed(header, f)
               isInside == \A n \in Indices(r) : Has(f, n)
           IN  /\ p.does = "outside" => ~ isInside
               /\ p.does = "throws" => Throws(r, f)
               /\ isInside /\ p.does # "throws" /\ r.pos => p.does = "reports" /\ p.pos
  BY DEF Parsed

\* The pipeline hands a "$" sentence to ParseInMsg with the checksum on it.
LEMMA PipelineGeo ==
    ASSUME NEW m
    PROVE  /\ m.size >= 7 /\ m.lead = "$"
                => PipelineReport(m).geo = Parsed(m.header, WithSum(m.f))
           /\ PipelineReport(m).geo.does # "nothing"
                => PipelineReport(m).geo = Parsed(m.header, WithSum(m.f))
  BY DEF PipelineReport, NoSentence

LEMMA TypesOfMessage ==
    ASSUME MessagesAssumption, NEW m \in Messages
    PROVE  /\ m.header \in HeaderType /\ m.header.letters \in Nat
           /\ m.f \in Seq(FieldType) /\ m.f # << >>
           /\ Len(m.f) \in Nat /\ Len(m.f) >= 1
           /\ m.payload \in Seq(Nat) /\ m.size \in Nat
           /\ IsCoherent(m)
<1>1. /\ m.header \in HeaderType /\ m.f \in Seq(FieldType) /\ m.f # << >>
      /\ m.payload \in Seq(Nat) /\ m.size \in Nat /\ IsCoherent(m)
  BY DEF MessagesAssumption
<1>2. Len(m.f) \in Nat /\ Len(m.f) >= 1
  BY <1>1
<1>3. QED
  BY <1>1, <1>2 DEF HeaderType
------------------------------------------------------------------------------
\* GeoInside: no sentence, of whatever header, fields and length, makes
\* ParseInMsg read a field that is not there, but for the one that is named.
THEOREM GeoReadsInside == Spec => []GeoInside
<1>1. Inv => GeoInside
  <2> SUFFICES ASSUME Inv, NEW m \in input, NEW r \in pipeline, r.geo.does = "outside"
               PROVE  /\ m.header.vendor = "$PTNL" /\ Len(m.f) = 7
                      /\ Says(Field(m.f, 1), "GGK")
    BY DEF GeoInside
  <2> DEFINE g == WithSum(m.f)
  <2>1. m \in Messages /\ r = PipelineReport(m)
    BY ReportsOfInput
  <2>2. m.header \in HeaderType /\ m.f \in Seq(FieldType) /\ m.f # << >>
    BY <2>1, TypesOfMessage, MessagesAssumption
  <2>3. /\ g \in Seq(FieldType) /\ Len(g) = Len(m.f)
        /\ \A n \in 0 .. Len(m.f) - 2 : Field(g, n) = Field(m.f, n)
    BY <2>2, SumOnLast
  <2>4. r.geo = Parsed(m.header, g)
    BY <2>1, PipelineGeo
  <2> HIDE DEF g
  <2>5. PICK n \in Indices(Read(m.header, g)) : ~ Has(g, n)
    BY <2>4, ParsedKinds
  <2>6. m.header.vendor = "$PTNL" /\ Len(g) = 7 /\ Says(Field(g, 1), "GGK")
    BY <2>2, <2>3, <2>5, IndicesAreThere
  <2>7. Field(g, 1) = Field(m.f, 1)
    BY <2>3, <2>6
  <2>8. QED
    BY <2>3, <2>6, <2>7
<1>2. QED
  BY <1>1, InductiveInvariant, PTL
------------------------------------------------------------------------------
\* A coordinate without a value or a hemisphere, and an empty field of those
\* that are tested, are taken.
LEMMA NothingThrows ==
    ASSUME NEW r, NEW f, r.strict = {},
           \A n \in r.lenient : IsEmptyField(Field(f, n)),
           \A p \in r.pairs : IsEmptyField(Field(f, p[1])) \/ IsEmptyField(Field(f, p[2]))
    PROVE  ~ Throws(r, f)
  BY DEF Throws, GeoToDecThrows

\* Of the readings of a sentence whose fields from the second on are empty, but
\* for the last with the checksum, only those that FixlessIsTaken names throw.
LEMMA FixlessReadings ==
    ASSUME NEW header, NEW f, NEW size \in Nat, NEW r, IsReading(r, header, f, size),
           \A n \in 2 .. size - 2 : IsEmptyField(Field(f, n)),
           header.vendor \notin Untested, header.type # "GGA",
           ~ (header.type = "GNS" /\ ~ header.prop /\ size = 10)
    PROVE  ~ Throws(r, f)
<1> DEFINE isEmpty(n) == IsEmptyField(Field(f, n))
<1>1. \A first \in Nat : \A p \in Pairs(first) :
        \/ p[1] = first /\ p[2] = first + 1
        \/ p[1] = first + 2 /\ p[2] = first + 3
  BY DEF Pairs
<1>2. ASSUME r.strict = {}, r.lenient = {}, r.pairs = {}
      PROVE  ~ Throws(r, f)
  BY <1>2, NothingThrows
<1>3. ASSUME r.strict = {}, \A n \in r.lenient : isEmpty(n), NEW first \in Nat,
             r.pairs = Pairs(first),
             isEmpty(first) \/ isEmpty(first + 1), isEmpty(first + 2) \/ isEmpty(first + 3)
      PROVE  ~ Throws(r, f)
  <2>1. \A p \in r.pairs : isEmpty(p[1]) \/ isEmpty(p[2])
    BY <1>1, <1>3
  <2>2. QED
    BY <1>3, <2>1, NothingThrows
<1>4. CASE r = NoRead \/ r = Unknown(f) \/ r = Reads(FALSE, {}, {}, {}, {}, 1)
  BY <1>2, <1>4 DEF NoRead, Unknown, Reads
<1>5. CASE r = Reads(TRUE, Pairs(1), {}, {}, {5}, None) /\ size >= 7
  <2>1. isEmpty(2) /\ isEmpty(3)
    BY <1>5
  <2>2. r.strict = {} /\ r.lenient = {} /\ r.pairs = Pairs(1)
    BY <1>5 DEF Reads
  <2>3. QED
    BY <1>3, <2>1, <2>2
<1>6. CASE r = Reads(TRUE, Pairs(3), {}, {7, 8}, {1, 2}, None) /\ size >= 9
             /\ Says(Field(f, 2), "A")
  <2>1. isEmpty(2)
    BY <1>6
  <2>2. QED
    BY <1>6, <2>1 DEF IsEmptyField, Says
<1>7. CASE r = Reads(TRUE, Pairs(2), {}, {9}, {1}, None) /\ size >= 11
  <2>1. isEmpty(2) /\ isEmpty(4) /\ isEmpty(9)
    BY <1>7
  <2>2. r.strict = {} /\ r.lenient = {9} /\ r.pairs = Pairs(2)
    BY <1>7 DEF Reads
  <2>3. QED
    BY <1>3, <2>1, <2>2
<1>8. CASE r = Reads(TRUE, Pairs(2), {}, {}, {}, 1) /\ size >= 6
  <2>1. isEmpty(2) /\ isEmpty(4)
    BY <1>8
  <2>2. r.strict = {} /\ r.lenient = {} /\ r.pairs = Pairs(2)
    BY <1>8 DEF Reads
  <2>3. QED
    BY <1>3, <2>1, <2>2
<1>9. CASE r = Reads(TRUE, Pairs(3), {}, {}, {}, 2) /\ size >= 7
  <2>1. isEmpty(3) /\ isEmpty(5)
    BY <1>9
  <2>2. r.strict = {} /\ r.lenient = {} /\ r.pairs = Pairs(3)
    BY <1>9 DEF Reads
  <2>3. QED
    BY <1>3, <2>1, <2>2
<1>10. CASE r = Reads(TRUE, Pairs(6), {}, {11}, {}, None) /\ size >= 13
  <2>1. isEmpty(6) /\ isEmpty(8) /\ isEmpty(11)
    BY <1>10
  <2>2. r.strict = {} /\ r.lenient = {11} /\ r.pairs = Pairs(6)
    BY <1>10 DEF Reads
  <2>3. QED
    BY <1>3, <2>1, <2>2
<1>11. size >= 10 /\ size # 10 => size >= 11
  OBVIOUS
<1>12. QED
  BY <1>4, <1>5, <1>6, <1>7, <1>8, <1>9, <1>10, <1>11 DEF IsReading, Untested, ReadsGgk
------------------------------------------------------------------------------
\* What ParseStandard reads of a sentence with a position.
PositionReads(type) ==
    CASE type = "GGA" -> Reads(TRUE, Pairs(2), {6, 9}, {}, {1}, None)
      [] type = "GLL" -> Reads(TRUE, Pairs(1), {}, {}, {5}, None)
      [] type = "RMC" -> Reads(TRUE, Pairs(3), {}, {7, 8}, {1, 2}, None)
      [] type = "GNS" -> Reads(TRUE, Pairs(2), {}, {9}, {1}, None)
      [] type = "TLL" -> Reads(TRUE, Pairs(2), {}, {}, {}, 1)

PositionTypes == {"GGA", "GLL", "RMC", "GNS", "TLL"}

LEMMA PositionKindsAre ==
    /\ PositionKinds["GGA"] = [size |-> 10, coordinates |-> {2, 4}, numbers |-> {6, 9}]
    /\ PositionKinds["GLL"] = [size |-> 7,  coordinates |-> {1, 3}, numbers |-> {}]
    /\ PositionKinds["RMC"] = [size |-> 9,  coordinates |-> {3, 5}, numbers |-> {7, 8}]
    /\ PositionKinds["GNS"] = [size |-> 10, coordinates |-> {2, 4}, numbers |-> {9}]
    /\ PositionKinds["TLL"] = [size |-> 6,  coordinates |-> {2, 4}, numbers |-> {}]
  BY DEF PositionKinds

\* Its coordinates stand before the last field, and its numbers are there.
LEMMA PositionReadsAre ==
    ASSUME NEW type \in PositionTypes, NEW size \in Nat, size >= PositionKinds[type].size
    PROVE  LET r == PositionReads(type)
               kind == PositionKinds[type]
           IN  /\ r.pos /\ AsksForAll(r, size)
               /\ \A p \in r.pairs : p[1] \in kind.coordinates /\ p[1] \in 0 .. size - 2
               /\ r.strict \cup r.lenient = kind.numbers /\ kind.numbers \subseteq 0 .. size - 1
               /\ r.strict # {} => type = "GGA"
<1>1. \A first \in Nat : \A p \in Pairs(first) : p[1] \in {first, first + 2}
  BY DEF Pairs
<1>2. CASE type = "GGA"
  <2>1. PositionReads(type) = Reads(TRUE, Pairs(2), {6, 9}, {}, {1}, None) /\ size >= 10
    BY <1>2, PositionKindsAre DEF PositionReads
  <2>2. QED
    BY <1>1, <1>2, <2>1, PositionKindsAre DEF Reads, AsksForAll
<1>3. CASE type = "GLL"
  <2>1. PositionReads(type) = Reads(TRUE, Pairs(1), {}, {}, {5}, None) /\ size >= 7
    BY <1>3, PositionKindsAre DEF PositionReads
  <2>2. QED
    BY <1>1, <1>3, <2>1, PositionKindsAre DEF Reads, AsksForAll
<1>4. CASE type = "RMC"
  <2>1. PositionReads(type) = Reads(TRUE, Pairs(3), {}, {7, 8}, {1, 2}, None) /\ size >= 9
    BY <1>4, PositionKindsAre DEF PositionReads
  <2>2. QED
    BY <1>1, <1>4, <2>1, PositionKindsAre DEF Reads, AsksForAll
<1>5. CASE type = "GNS"
  <2>1. PositionReads(type) = Reads(TRUE, Pairs(2), {}, {9}, {1}, None) /\ size >= 10
    BY <1>5, PositionKindsAre DEF PositionReads
  <2>2. QED
    BY <1>1, <1>5, <2>1, PositionKindsAre DEF Reads, AsksForAll
<1>6. CASE type = "TLL"
  <2>1. PositionReads(type) = Reads(TRUE, Pairs(2), {}, {}, {}, 1) /\ size >= 6
    BY <1>6, PositionKindsAre DEF PositionReads
  <2>2. QED
    BY <1>1, <1>6, <2>1, PositionKindsAre DEF Reads, AsksForAll
<1>7. QED
  BY <1>2, <1>3, <1>4, <1>5, <1>6 DEF PositionTypes

\* A sentence that the plug-in counts, and that is not too short, is read for a
\* position.
LEMMA CountedIsRead ==
    ASSUME NEW header \in HeaderType, header.letters >= 6, ~ header.prop,
           header.vendor = "$RATTRM" => header.type = "TTR",
           NEW f \in Seq(FieldType), f # << >>, HasNmeaPosition(header.type, f),
           Len(f) >= PositionKinds[header.type].size
    PROVE  /\ header.type \in PositionTypes
           /\ Read(header, WithSum(f)) = PositionReads(header.type)
<1> DEFINE g == WithSum(f)
<1>1. header.letters \in Nat /\ header.type \in PositionTypes
  BY DEF HeaderType, HasNmeaPosition, PositionTypes
<1>2. /\ Len(g) = Len(f) /\ Len(f) \in Nat
      /\ \A n \in 0 .. Len(f) - 2 : Field(g, n) = Field(f, n)
  BY SumOnLast
<1> HIDE DEF g
<1>3. header.type = "RMC" => Says(Field(g, 2), "A")
  <2>1. SUFFICES ASSUME header.type = "RMC"
                 PROVE  Says(Field(g, 2), "A")
    OBVIOUS
  <2>2. Says(Field(f, 2), "A") /\ Len(f) >= 9
    BY <2>1, PositionKindsAre DEF HasNmeaPosition, RmcHasPosition
  <2>3. 2 \in 0 .. Len(f) - 2
    BY <1>2, <2>2
  <2>4. QED
    BY <1>2, <2>2, <2>3
<1>4. Read(header, g) = ParseStandard(header.type, g)
  <2>1. ~ header.letters < 4
    BY <1>1
  <2>2. header.vendor # "$RATTRM"
    BY <1>1 DEF PositionTypes
  <2>3. QED
    BY <2>1, <2>2 DEF Read
<1>5. ParseStandard(header.type, g) = PositionReads(header.type)
  <2>1. Len(g) >= PositionKinds[header.type].size
    BY <1>2
  <2>2. /\ header.type = "GGA" => Len(g) >= 10
        /\ header.type = "GLL" => Len(g) >= 7
        /\ header.type = "RMC" => Len(g) >= 9
        /\ header.type = "GNS" => Len(g) >= 10
        /\ header.type = "TLL" => Len(g) >= 6
    BY <2>1, PositionKindsAre
  <2>3. QED
    BY <1>1, <1>3, <2>2 DEF ParseStandard, PositionReads, PositionTypes, Gll, GnsReads
<1>6. QED
  BY <1>1, <1>4, <1>5 DEF g

\* Nothing that is converted of it throws, unless it is garbled or blank.
LEMMA CountedIsConverted ==
    ASSUME NEW type \in PositionTypes, NEW f \in Seq(FieldType), f # << >>,
           Len(f) >= PositionKinds[type].size,
           ~ IsGarbled(PositionKinds[type], f), ~ IsBlank(type, f)
    PROVE  ~ Throws(PositionReads(type), WithSum(f))
<1> DEFINE g == WithSum(f)
           r == PositionReads(type)
           kind == PositionKinds[type]
<1>1. /\ Len(f) \in Nat /\ g \in Seq(FieldType)
      /\ \A n \in 0 .. Len(f) - 2 : Field(g, n) = Field(f, n)
      /\ \A n \in 0 .. Len(f) - 1 : Field(g, n).num = Field(f, n).num
  BY SumOnLast
<1>2. PICK size \in Nat : size = Len(f) /\ Len(g) = size
  BY SumOnLast
<1>3. /\ \A p \in r.pairs : p[1] \in kind.coordinates /\ p[1] \in 0 .. size - 2
      /\ r.strict \cup r.lenient = kind.numbers /\ kind.numbers \subseteq 0 .. size - 1
      /\ r.strict # {} => type = "GGA"
  BY <1>2, PositionReadsAre
<1>4. /\ \A n \in kind.coordinates : Field(f, n).num /\ Field(f, n).dot \notin 0 .. 2
      /\ \A n \in kind.numbers : IsEmptyField(Field(f, n)) \/ Field(f, n).num
  BY DEF IsGarbled
<1>5. \A n \in kind.numbers : IsEmptyField(Field(f, n)) => type # "GGA" /\ n # size - 1
  BY <1>2 DEF IsBlank
<1> HIDE DEF g, r, kind
<1>6. ASSUME NEW n \in r.strict
      PROVE  Field(g, n).num
  BY <1>1, <1>2, <1>3, <1>4, <1>5
<1>7. ASSUME NEW n \in r.lenient, ~ IsEmptyField(Field(g, n))
      PROVE  Field(g, n).num
  <2>1. n \in kind.numbers /\ n \in 0 .. size - 1
    BY <1>3
  <2>2. CASE IsEmptyField(Field(f, n))
    <3>1. n \in 0 .. size - 2
      BY <1>2, <1>5, <2>1, <2>2
    <3>2. QED
      BY <1>1, <1>2, <1>7, <2>2, <3>1
  <2>3. CASE ~ IsEmptyField(Field(f, n))
    BY <1>1, <1>2, <1>4, <2>1, <2>3
  <2>4. QED
    BY <2>2, <2>3
<1>8. ASSUME NEW p \in r.pairs, Has(g, p[1])
      PROVE  ~ GeoToDecThrows(Field(g, p[1]), Field(g, p[2]))
  <2>1. Field(g, p[1]).num /\ Field(g, p[1]).dot \notin 0 .. 2
    BY <1>1, <1>2, <1>3, <1>4, <1>8
  <2>2. Field(g, p[1]).dot \in Nat \cup {-1}
    <3>1. p[1] \in 0 .. size - 2
      BY <1>3, <1>8
    <3>2. p[1] + 1 \in 1 .. Len(g)
      BY <1>2, <3>1
    <3>3. Field(g, p[1]) \in FieldType
      BY <1>1, <3>2, ElementsOf DEF Field
    <3>4. QED
      BY <3>3 DEF FieldType
  <2>3. QED
    BY <2>1, <2>2 DEF GeoToDecThrows
<1>9. ~ Throws(r, g)
  BY <1>6, <1>7, <1>8 DEF Throws
<1>10. QED
  BY <1>9 DEF r, g
------------------------------------------------------------------------------
\* A standard sentence is read for nothing or as its type says.
LEMMA StandardRead ==
    ASSUME NEW header, ~ header.prop, header.vendor # "$RATTRM", header.type \in PositionTypes,
           NEW f, NEW size \in Nat, Len(f) = size
    PROVE  \/ Read(header, f) = NoRead
           \/ Read(header, f) = PositionReads(header.type) /\ size >= PositionKinds[header.type].size
<1> DEFINE type == header.type
<1>1. Read(header, f) = NoRead \/ Read(header, f) = ParseStandard(type, f)
  BY DEF Read
<1>2. CASE type = "GGA"
  <2>1. \/ ParseStandard(type, f) = NoRead
        \/ size >= 10 /\ ParseStandard(type, f) = Reads(TRUE, Pairs(2), {6, 9}, {}, {1}, None)
    BY <1>2 DEF ParseStandard
  <2>2. PositionReads(type) = Reads(TRUE, Pairs(2), {6, 9}, {}, {1}, None)
    BY <1>2 DEF PositionReads
  <2>3. PositionKinds[type].size = 10
    BY <1>2, PositionKindsAre
  <2>4. QED
    BY <1>1, <2>1, <2>2, <2>3
<1>3. CASE type = "GLL"
  <2>1. \/ ParseStandard(type, f) = NoRead
        \/ size >= 7 /\ ParseStandard(type, f) = Reads(TRUE, Pairs(1), {}, {}, {5}, None)
    BY <1>3 DEF ParseStandard, Gll
  <2>2. PositionReads(type) = Reads(TRUE, Pairs(1), {}, {}, {5}, None)
    BY <1>3 DEF PositionReads
  <2>3. PositionKinds[type].size = 7
    BY <1>3, PositionKindsAre
  <2>4. QED
    BY <1>1, <2>1, <2>2, <2>3
<1>4. CASE type = "RMC"
  <2>1. \/ ParseStandard(type, f) = NoRead
        \/ size >= 9 /\ ParseStandard(type, f) = Reads(TRUE, Pairs(3), {}, {7, 8}, {1, 2}, None)
    BY <1>4 DEF ParseStandard
  <2>2. PositionReads(type) = Reads(TRUE, Pairs(3), {}, {7, 8}, {1, 2}, None)
    BY <1>4 DEF PositionReads
  <2>3. PositionKinds[type].size = 9
    BY <1>4, PositionKindsAre
  <2>4. QED
    BY <1>1, <2>1, <2>2, <2>3
<1>5. CASE type = "GNS"
  <2>1. \/ ParseStandard(type, f) = NoRead
        \/ size >= 10 /\ ParseStandard(type, f) = Reads(TRUE, Pairs(2), {}, {9}, {1}, None)
    BY <1>5 DEF ParseStandard, GnsReads
  <2>2. PositionReads(type) = Reads(TRUE, Pairs(2), {}, {9}, {1}, None)
    BY <1>5 DEF PositionReads
  <2>3. PositionKinds[type].size = 10
    BY <1>5, PositionKindsAre
  <2>4. QED
    BY <1>1, <2>1, <2>2, <2>3
<1>6. CASE type = "TLL"
  <2>1. \/ ParseStandard(type, f) = NoRead
        \/ size >= 6 /\ ParseStandard(type, f) = Reads(TRUE, Pairs(2), {}, {}, {}, 1)
    BY <1>6 DEF ParseStandard
  <2>2. PositionReads(type) = Reads(TRUE, Pairs(2), {}, {}, {}, 1)
    BY <1>6 DEF PositionReads
  <2>3. PositionKinds[type].size = 6
    BY <1>6, PositionKindsAre
  <2>4. QED
    BY <1>1, <2>1, <2>2, <2>3
<1>7. QED
  BY <1>2, <1>3, <1>4, <1>5, <1>6 DEF PositionTypes

\* Of a standard sentence without its numbers nothing is converted that throws,
\* but for GGA and a number in the last field.
LEMMA FixlessStandard ==
    ASSUME NEW type \in PositionTypes, type # "GGA", NEW f \in Seq(FieldType), f # << >>,
           Len(f) >= PositionKinds[type].size, Len(f) - 1 \notin PositionKinds[type].numbers,
           \A n \in PositionKinds[type].coordinates \cup PositionKinds[type].numbers :
               Has(f, n) => IsEmptyField(Field(f, n))
    PROVE  ~ Throws(PositionReads(type), WithSum(f))
<1> DEFINE g == WithSum(f)
           r == PositionReads(type)
           kind == PositionKinds[type]
<1>1. /\ Len(f) \in Nat
      /\ \A n \in 0 .. Len(f) - 2 : Field(g, n) = Field(f, n)
  BY SumOnLast
<1>2. PICK size \in Nat : size = Len(f)
  BY <1>1
<1>3. /\ \A p \in r.pairs : p[1] \in kind.coordinates /\ p[1] \in 0 .. size - 2
      /\ r.strict \cup r.lenient = kind.numbers /\ kind.numbers \subseteq 0 .. size - 1
      /\ r.strict # {} => type = "GGA"
  BY <1>2, PositionReadsAre
<1>4. \A n \in kind.coordinates \cup kind.numbers : Has(f, n) => IsEmptyField(Field(f, n))
  OBVIOUS
<1>5. size - 1 \notin kind.numbers
  BY <1>2
<1> HIDE DEF g, r, kind
<1>6. \A n \in kind.coordinates \cup kind.numbers :
        n \in 0 .. size - 2 => IsEmptyField(Field(g, n))
  <2>1. \A n \in 0 .. size - 2 : Has(f, n)
    BY <1>2 DEF Has
  <2>2. QED
    BY <1>1, <1>2, <1>4, <2>1
<1>7. r.strict = {}
  BY <1>3
<1>8. \A n \in r.lenient : IsEmptyField(Field(g, n))
  <2>1. \A n \in 0 .. size - 1 : n # size - 1 => n \in 0 .. size - 2
    OBVIOUS
  <2>2. \A n \in r.lenient : n \in kind.numbers /\ n \in 0 .. size - 2
    BY <1>3, <1>5, <2>1
  <2>3. QED
    BY <1>6, <2>2
<1>9. \A p \in r.pairs : IsEmptyField(Field(g, p[1]))
  BY <1>3, <1>6
<1>10. ~ Throws(r, g)
  BY <1>7, <1>8, <1>9, NothingThrows
<1>11. QED
  BY <1>10 DEF r, g

\* FixlessIsTaken: no sentence of a receiver without a fix, of whatever length,
\* makes ParseInMsg throw, but for those that are named.
THEOREM FixlessAreTaken == Spec => []FixlessIsTaken
<1>1. Inv => FixlessIsTaken
  <2> SUFFICES ASSUME Inv, NEW m \in input, NEW r \in pipeline,
                      IsFixless(m), r.geo.does = "throws",
                      m.header.vendor \notin Untested, m.header.type # "GGA",
                      ~ (IsStandard(m.header)
                         /\ Len(m.f) - 1 \in PositionKinds[m.header.type].numbers)
               PROVE  FALSE
    BY DEF FixlessIsTaken
  <2> DEFINE g == WithSum(m.f)
  <2>1. m \in Messages /\ r = PipelineReport(m)
    BY ReportsOfInput
  <2>2. /\ m.header \in HeaderType /\ m.f \in Seq(FieldType) /\ m.f # << >>
        /\ IsCoherent(m)
    BY <2>1, TypesOfMessage, MessagesAssumption
  <2>3. /\ g \in Seq(FieldType) /\ Len(g) = Len(m.f)
        /\ \A n \in 0 .. Len(m.f) - 2 : Field(g, n) = Field(m.f, n)
    BY <2>2, SumOnLast
  <2>4. r.geo = Parsed(m.header, g)
    BY <2>1, PipelineGeo
  <2>5. PICK size \in Nat : size = Len(m.f)
    BY <2>2
  <2>6. DOMAIN PositionKinds = PositionTypes
    BY DEF PositionKinds, PositionTypes
  <2>7. CASE IsStandard(m.header)
    <3>1. m.header.type \in PositionTypes /\ ~ m.header.prop
      BY <2>6, <2>7 DEF IsStandard
    <3>2. m.header.vendor # "$RATTRM"
      BY <2>2, <3>1 DEF IsCoherent, PositionTypes
    <3>3. \A n \in PositionKinds[m.header.type].coordinates
                   \cup PositionKinds[m.header.type].numbers :
            Has(m.f, n) => IsEmptyField(Field(m.f, n))
      BY <2>7 DEF IsFixless
    <3> HIDE DEF g
    <3>4. CASE Read(m.header, g) = NoRead
      <4>1. ~ Throws(NoRead, g)
        <5>1. NoRead.strict = {} /\ NoRead.lenient = {} /\ NoRead.pairs = {}
          BY DEF NoRead, Reads
        <5>2. QED
          BY <5>1, NothingThrows
      <4>2. QED
        BY <2>4, <3>4, <4>1, ParsedKinds
    <3>5. CASE /\ Read(m.header, g) = PositionReads(m.header.type)
               /\ size >= PositionKinds[m.header.type].size
      <4>1. ~ Throws(PositionReads(m.header.type), g)
        BY <2>2, <2>5, <2>7, <3>1, <3>3, <3>5, FixlessStandard DEF g
      <4>2. QED
        BY <2>4, <3>5, <4>1, ParsedKinds
    <3>6. QED
      BY <2>3, <2>5, <3>1, <3>2, <3>4, <3>5, StandardRead
  <2> HIDE DEF g
  <2>8. CASE ~ IsStandard(m.header)
    <3>1. \A n \in 2 .. size - 2 : IsEmptyField(Field(g, n))
      <4>1. \A n \in 2 .. size - 2 : n \in 2 .. Len(m.f) - 1 /\ n \in 0 .. Len(m.f) - 2
                                    /\ Has(m.f, n)
        BY <2>5 DEF Has
      <4>2. QED
        BY <2>3, <2>5, <2>8, <4>1 DEF IsFixless
    <3>2. IsReading(Read(m.header, g), m.header, g, size)
      BY <2>2, <2>3, <2>5, Readings
    <3>3. ~ (m.header.type = "GNS" /\ ~ m.header.prop)
      BY <2>6, <2>8 DEF IsStandard, PositionTypes
    <3>4. ~ Throws(Read(m.header, g), g)
      BY <2>5, <3>1, <3>2, <3>3, FixlessReadings
    <3>5. QED
      BY <2>4, <3>4, ParsedKinds
  <2>9. QED
    BY <2>7, <2>8
<1>2. QED
  BY <1>1, InductiveInvariant, PTL
------------------------------------------------------------------------------
\* The six bits of a character put together again.
LEMMA SixBitsOf ==
    ASSUME NEW v \in 0 .. 63
    PROVE  LET b(i) == CharacterBit(v, i)
           IN  2 * (2 * (2 * (2 * (2 * (2 * 0 + b(0)) + b(1)) + b(2)) + b(3)) + b(4)) + b(5) = v
<1>1. /\ CharacterBit(v, 0) = (v \div 32) % 2
      /\ CharacterBit(v, 1) = (v \div 16) % 2
      /\ CharacterBit(v, 2) = (v \div 8) % 2
      /\ CharacterBit(v, 3) = (v \div 4) % 2
      /\ CharacterBit(v, 4) = (v \div 2) % 2
      /\ CharacterBit(v, 5) = (v \div 1) % 2
  BY DEF CharacterBit, Places
<1>2. (v \div 32) % 2 = v \div 32
  OBVIOUS
<1>3. 2 * (v \div 32) + ((v \div 16) % 2) = v \div 16
  OBVIOUS
<1>4. 2 * (v \div 16) + ((v \div 8) % 2) = v \div 8
  OBVIOUS
<1>5. 2 * (v \div 8) + ((v \div 4) % 2) = v \div 4
  OBVIOUS
<1>6. 2 * (v \div 4) + ((v \div 2) % 2) = v \div 2
  OBVIOUS
<1>7. 2 * (v \div 2) + ((v \div 1) % 2) = v
  OBVIOUS
<1>8. 2 * 0 + (v \div 32) = v \div 32
  OBVIOUS
<1>9. QED
  BY <1>1, <1>2, <1>3, <1>4, <1>5, <1>6, <1>7, <1>8

\* FetchBits defines a function by recursion, which must be shown to exist before
\* anything is known of it; for six bits it is written out.
LEMMA TypeIsFirstCharacter ==
    ASSUME NEW bits \in Seq(0 .. 63), Len(bits) >= 1
    PROVE  MessageType(bits) = bits[1]
<1> DEFINE v == bits[1]
           b(i) == CharacterBit(v, i)
           f1 == 2 * 0 + b(0)
           f2 == 2 * f1 + b(1)
           f3 == 2 * f2 + b(2)
           f4 == 2 * f3 + b(3)
           f5 == 2 * f4 + b(4)
           f6 == 2 * f5 + b(5)
           isFirst(g) == g = [n \in 0 .. 6 |->
                                IF n = 0 THEN 0
                                ELSE LET k == 0 + n - 1
                                     IN  2 * g[n - 1]
                                         + CharacterBit(bits[(k \div 6) + 1], k % 6)]
           written == [n \in 0 .. 6 |->
                         IF n = 0 THEN 0 ELSE IF n = 1 THEN f1 ELSE IF n = 2 THEN f2
                         ELSE IF n = 3 THEN f3 ELSE IF n = 4 THEN f4 ELSE IF n = 5 THEN f5
                         ELSE f6]
<1>1. v \in 0 .. 63 /\ ~ 0 + 6 > BitLength(bits)
  <2>1. PICK n \in Nat : n = Len(bits)
    OBVIOUS
  <2>2. ~ 0 + 6 > 6 * n
    BY <2>1
  <2>3. QED
    BY <2>1, <2>2 DEF BitLength
<1>2. \A n \in 1 .. 6 : ((0 + n - 1) \div 6) + 1 = 1 /\ (0 + n - 1) % 6 = n - 1
  OBVIOUS
<1>3. \A g : isFirst(g) <=> g = [n \in 0 .. 6 |-> IF n = 0 THEN 0 ELSE 2 * g[n - 1] + b(n - 1)]
  BY <1>2
<1> HIDE DEF v, b
<1>4. isFirst(written)
  <2>1. written = [n \in 0 .. 6 |-> IF n = 0 THEN 0 ELSE 2 * written[n - 1] + b(n - 1)]
    OBVIOUS
  <2>2. QED
    BY <1>3, <2>1
<1>5. \A g : isFirst(g) => g[6] = f6
  <2> SUFFICES ASSUME NEW g, isFirst(g)
               PROVE  g[6] = f6
    OBVIOUS
  <2>1. g = [n \in 0 .. 6 |-> IF n = 0 THEN 0 ELSE 2 * g[n - 1] + b(n - 1)]
    BY <1>3
  <2>2. g[1] = f1
    BY <2>1
  <2>3. g[2] = f2
    BY <2>1, <2>2
  <2>4. g[3] = f3
    BY <2>1, <2>3
  <2>5. g[4] = f4
    BY <2>1, <2>4
  <2>6. g[5] = f5
    BY <2>1, <2>5
  <2>7. QED
    BY <2>1, <2>6
<1> HIDE DEF f6, written
<1>6. MessageType(bits) = f6
  BY <1>1, <1>4, <1>5 DEF MessageType, FetchBits
<1>7. f6 = v
  BY <1>1, SixBitsOf DEF f6, b
<1>8. QED
  BY <1>6, <1>7 DEF v

LEMMA IsSequence ==
    ASSUME NEW S, NEW n \in Nat, NEW f \in [1 .. n -> S]
    PROVE  f \in Seq(S) /\ Len(f) = n
  OBVIOUS

\* The bits of a payload all of whose characters are armoured.
LEMMA ArmouredBits ==
    ASSUME NEW payload \in Seq(Nat), payload # << >>,
           \A n \in DOMAIN payload : IsArmour(payload[n])
    PROVE  LET bits == ConvertNmeaToSixBit(payload)
           IN  /\ bits \in Seq(0 .. 63) /\ Len(bits) = Len(payload) /\ Len(bits) >= 1
               /\ \A n \in DOMAIN payload : bits[n] = SixBit(payload[n])
               /\ bits[1] = SixBit(payload[1])
<1> DEFINE bits == ConvertNmeaToSixBit(payload)
<1>1. bits = [n \in DOMAIN payload |-> SixBit(payload[n])]
  BY DEF ConvertNmeaToSixBit
<1>2. \A n \in DOMAIN payload : SixBit(payload[n]) \in 0 .. 63
  <2>1. \A c \in Nat : IsArmour(c) => SixBit(c) \in 0 .. 63
    BY DEF IsArmour, SixBit
  <2>2. \A n \in DOMAIN payload : payload[n] \in Nat
    OBVIOUS
  <2>3. QED
    BY <2>1, <2>2
<1>3. PICK size \in Nat : size >= 1 /\ size = Len(payload) /\ DOMAIN payload = 1 .. size
  OBVIOUS
<1> HIDE DEF bits
<1>4. bits \in [1 .. size -> 0 .. 63]
  BY <1>1, <1>2, <1>3
<1>5. bits \in Seq(0 .. 63) /\ Len(bits) = size
  BY <1>4, IsSequence
<1>6. QED
  BY <1>1, <1>3, <1>5 DEF bits

\* A payload that is not passed over is decoded, to a report of its position if
\* its first character says one of the types with a position.
LEMMA AisPositionIsReported ==
    ASSUME MessagesAssumption, NEW m \in Messages, m.lead = "!", m.header.letters >= 6,
           IsAisType(m.header), HasAisPosition(m.f, m.payload), ~ PassedOver(m)
    PROVE  PipelineReport(m).ais.kind = "pos"
<1> DEFINE payload == m.payload
           bits == ConvertNmeaToSixBit(payload)
           type == SixBit(payload[1])
<1>1. /\ payload \in Seq(Nat) /\ payload # << >>
      /\ Len(m.f) \in Nat /\ Len(m.f) >= 6 /\ Len(m.f) # 6
      /\ type \in {1, 2, 3, 18, 19, 27}
      /\ \A n \in DOMAIN payload : IsArmour(payload[n])
      /\ ~ BitLength(payload) < 38
      /\ type \in 1 .. 3 => ~ BitLength(payload) < 168
  BY TypesOfMessage DEF HasAisPosition, PassedOver, AisPositionTypes
<1>2. m.size >= 7
  <2>1. m.size >= m.header.letters + Len(m.f) - 1 /\ m.size \in Nat /\ m.header.letters \in Nat
    BY TypesOfMessage DEF IsCoherent
  <2>2. QED
    BY <1>1, <2>1
<1>5. /\ bits \in Seq(0 .. 63) /\ Len(bits) = Len(payload) /\ Len(bits) >= 1
      /\ bits[1] = type
  BY <1>1, ArmouredBits
<1>6. bits[1] = type
  BY <1>5
<1> HIDE DEF bits, payload
<1>7. MessageType(bits) = type
  BY <1>5, <1>6, TypeIsFirstCharacter
<1>8. PICK length \in Nat : length = BitLength(bits) /\ length = BitLength(payload)
  BY <1>5 DEF BitLength
<1>9. length >= 38 /\ ~ length < 38 /\ (type \in 1 .. 3 => length >= 168)
  BY <1>1, <1>8
<1>10. PipelineReport(m).ais = Decoded(payload)
  BY <1>1, <1>2, PipelineAis DEF payload
<1>11. Decoded(payload).kind = "pos"
  <2> DEFINE mmsi == FetchBits(bits, 6, 24)
  <2> HIDE DEF type, mmsi
  <2>1. CASE type \in 1 .. 3
    <3>1. IsClassA(type, length)
      BY <1>9, <2>1 DEF IsClassA
    <3>2. Decoded(payload) = Report("pos", type, mmsi, ClassA(bits))
      BY <1>7, <1>8, <1>9, <3>1 DEF Decoded, bits, mmsi
    <3>3. QED
      BY <3>2 DEF Report
  <2>2. CASE type \in {18, 19, 27}
    <3>1. ~ IsClassA(type, length)
      BY <2>2 DEF IsClassA
    <3>2. \E data : Decoded(payload) = Report("pos", type, mmsi, data)
      BY <1>7, <1>8, <1>9, <2>2, <3>1 DEF Decoded, bits, mmsi
    <3>3. QED
      BY <3>2 DEF Report
  <2>3. QED
    BY <1>1, <2>1, <2>2
<1>12. QED
  BY <1>10, <1>11
------------------------------------------------------------------------------
\* CountedIsReported: what the plug-in counts as a position it finds by rules of
\* its own; whatever the sentence, the decoders report it, unless it is shorter than
\* its parser asks for, garbled, left with an empty number that is converted
\* untested, or an AIS sentence that is passed over.
THEOREM CountedAreReported == Spec => []CountedIsReported
<1>1. Inv => CountedIsReported
  <2> SUFFICES ASSUME Inv, NEW m \in input, NEW r \in pipeline
               PROVE  /\ m.lead = "$" /\ ~ m.header.prop /\ m.header.letters >= 6
                           /\ HasNmeaPosition(m.header.type, m.f)
                         => LET kind == PositionKinds[m.header.type]
                            IN  \/ r.geo.does = "reports" /\ r.geo.pos
                                \/ Len(m.f) < kind.size
                                \/ IsGarbled(kind, m.f) \/ IsBlank(m.header.type, m.f)
                      /\ m.lead = "!" /\ m.header.letters >= 6 /\ IsAisType(m.header)
                           /\ HasAisPosition(m.f, m.payload) /\ ~ PassedOver(m)
                         => r.ais.kind = "pos"
    BY DEF CountedIsReported
  <2>1. m \in Messages /\ r = PipelineReport(m)
    BY ReportsOfInput
  <2>2. ASSUME m.lead = "!", m.header.letters >= 6, IsAisType(m.header),
               HasAisPosition(m.f, m.payload), ~ PassedOver(m)
        PROVE  r.ais.kind = "pos"
    BY <2>1, <2>2, AisPositionIsReported, MessagesAssumption
  <2>3. ASSUME m.lead = "$", ~ m.header.prop, m.header.letters >= 6,
               HasNmeaPosition(m.header.type, m.f),
               ~ Len(m.f) < PositionKinds[m.header.type].size,
               ~ IsGarbled(PositionKinds[m.header.type], m.f), ~ IsBlank(m.header.type, m.f)
        PROVE  r.geo.does = "reports" /\ r.geo.pos
    <3> DEFINE g == WithSum(m.f)
               type == m.header.type
    <3>1. /\ m.header \in HeaderType /\ m.f \in Seq(FieldType) /\ m.f # << >>
          /\ Len(m.f) \in Nat /\ m.size \in Nat /\ m.header.letters \in Nat
          /\ m.header.vendor = "$RATTRM" => type = "TTR"
          /\ m.size >= m.header.letters + Len(m.f) - 1 /\ type \in PositionTypes
      BY <2>1, <2>3, TypesOfMessage, MessagesAssumption
         DEF IsCoherent, HasNmeaPosition, PositionTypes
    <3>2. Len(m.f) >= PositionKinds[type].size /\ PositionKinds[type].size >= 6
      BY <2>3, <3>1, PositionKindsAre DEF PositionTypes
    <3>3. m.size >= 7
      <4>1. Len(m.f) >= 6
        BY <3>1, <3>2, PositionKindsAre DEF PositionTypes
      <4>2. QED
        BY <2>3, <3>1, <4>1
    <3>4. r.geo = Parsed(m.header, g)
      BY <2>1, <2>3, <3>3, PipelineGeo
    <3>5. Read(m.header, g) = PositionReads(type)
      BY <2>3, <3>1, <3>2, CountedIsRead
    <3>6. PICK size \in Nat : size = Len(m.f) /\ Len(g) = size
      BY <3>1, SumOnLast
    <3>7. PositionReads(type).pos /\ AsksForAll(PositionReads(type), size)
      BY <3>1, <3>2, <3>6, PositionReadsAre
    <3>8. ~ Throws(PositionReads(type), g)
      BY <2>3, <3>1, <3>2, CountedIsConverted
    <3> HIDE DEF g, type
    <3>9. \A n \in Indices(PositionReads(type)) : Has(g, n)
      <4>1. PICK k \in Nat : size > k /\ Within(PositionReads(type), k)
        BY <3>7, ReadingsWithin
      <4>2. Indices(PositionReads(type)) \subseteq 0 .. k
        BY <4>1, IndicesWithin
      <4>3. \A n \in 0 .. k : Has(g, n)
        BY <3>6, <4>1 DEF Has
      <4>4. QED
        BY <4>2, <4>3
    <3>10. QED
      BY <3>4, <3>5, <3>7, <3>8, <3>9, ParsedKinds
  <2>4. QED
    BY <2>2, <2>3
<1>2. QED
  BY <1>1, InductiveInvariant, PTL
------------------------------------------------------------------------------
(***************************************************************************)
(* The numbers FetchBits puts together.                                    *)
(***************************************************************************)
\* Power is a recursive function, which must be shown to exist.
LEMMA Powers ==
    /\ Power[0] = 1
    /\ \A n \in 0 .. 30 : Power[n] \in Nat \ {0}
    /\ \A n \in 1 .. 30 : Power[n] = 2 * Power[n - 1]
<1> DEFINE isPower(g) == g = [n \in 0 .. 30 |-> IF n = 0 THEN 1 ELSE 2 * g[n - 1]]
           Positive == Nat \ {0}
           step == [n \in 1 .. 30 |-> [x \in Positive |-> 2 * x]]
<1>1. PICK f : IsRun(f, 30, Positive, 1, step)
  <2>1. AreSteps(step, 30, Positive) /\ 1 \in Positive /\ 30 \in Nat
    BY DEF AreSteps
  <2> HIDE DEF step, Positive
  <2> QED BY <2>1, Recursion
<1>2. \A n \in 1 .. 30 : f[n] = 2 * f[n - 1]
  <2>1. \A n \in 1 .. 30 : f[n - 1] \in Positive
    BY <1>1 DEF IsRun
  <2> QED BY <1>1, <2>1 DEF IsRun
<1>3. isPower(f)
  BY <1>1, <1>2 DEF IsRun
<1>4. isPower(Power)
  BY <1>3 DEF Power
<1>5. Power[0] = 1 /\ \A n \in 1 .. 30 : Power[n] = 2 * Power[n - 1]
  BY <1>4
<1> DEFINE P == {n \in 0 .. 30 : Power[n] \in Positive}
<1>6. \A n \in 0 .. 30 : n \in P
  <2>1. 0 \in P
    BY <1>5
  <2>2. ASSUME NEW n \in 0 .. 30, n < 30, n \in P PROVE n + 1 \in P
    <3>1. n + 1 \in 1 .. 30 /\ (n + 1) - 1 = n /\ Power[n] \in Positive
      BY <2>2
    <3>2. Power[n + 1] = 2 * Power[n]
      BY <1>5, <3>1
    <3> HIDE DEF isPower
    <3> QED BY <3>1, <3>2
  <2> HIDE DEF P
  <2> QED BY <2>1, <2>2, Climb
<1> QED BY <1>5, <1>6

\* Those that the decoder's limits are compared with.
LEMMA SmallPowers ==
    /\ Power[0] = 1 /\ Power[1] = 2 /\ Power[2] = 4 /\ Power[3] = 8 /\ Power[4] = 16
    /\ Power[5] = 32 /\ Power[6] = 64 /\ Power[7] = 128 /\ Power[8] = 256 /\ Power[9] = 512
<1>1. Power[1] = 2 * Power[0] /\ Power[2] = 2 * Power[1] /\ Power[3] = 2 * Power[2]
  BY Powers
<1>2. Power[4] = 2 * Power[3] /\ Power[5] = 2 * Power[4] /\ Power[6] = 2 * Power[5]
  BY Powers
<1>3. Power[7] = 2 * Power[6] /\ Power[8] = 2 * Power[7] /\ Power[9] = 2 * Power[8]
  BY Powers
<1> QED BY <1>1, <1>2, <1>3, Powers

\* A quotient is determined by any decomposition.
LEMMA QuotientUnique ==
    ASSUME NEW c \in Nat \ {0}, NEW v \in Int, NEW q \in Int, NEW r \in 0 .. c - 1,
           v = c * q + r
    PROVE  v \div c = q
OBVIOUS

\* A quotient by p has one bit more than that by 2 * p.
LEMMA NextBit ==
    ASSUME NEW v \in Int, NEW p \in Nat \ {0}
    PROVE  v \div p = 2 * (v \div (2 * p)) + ((v \div p) % 2)
<1> DEFINE x == v \div p
           r == v % p
           y == x \div 2
           b == x % 2
           c == 2 * p
           s == p * b + r
<1>1. v = p * x + r /\ r \in 0 .. p - 1 /\ x \in Int
  OBVIOUS
<1> HIDE DEF x, r
<1>2. x = 2 * y + b /\ b \in {0, 1} /\ y \in Int
  BY <1>1
<1> HIDE DEF y, b
<1>3. p * x = c * y + p * b
  BY <1>2
<1>4. c \in Nat \ {0} /\ s \in 0 .. c - 1
  BY <1>1, <1>2
<1>5. v = c * y + s
  BY <1>1, <1>2, <1>3
<1> HIDE DEF c, s
<1>6. v \div c = y
  BY <1>2, <1>4, <1>5, QuotientUnique
<1> QED BY <1>2, <1>6 DEF c, x, b

\* The bit of a payload's number that stands at b.
BitAt(bits, b) == CharacterBit(bits[(b \div 6) + 1], b % 6)

LEMMA BitAtType ==
    ASSUME NEW bits \in Seq(0 .. 63), NEW b \in Nat, b < BitLength(bits)
    PROVE  BitAt(bits, b) \in Int
<1>1. PICK size \in Nat : size = Len(bits) /\ DOMAIN bits = 1 .. size
  OBVIOUS
<1>2. b < 6 * size
  BY <1>1 DEF BitLength
<1>3. (b \div 6) + 1 \in 1 .. size /\ b % 6 \in 0 .. 5
  BY <1>2
<1>4. bits[(b \div 6) + 1] \in Int
  <2>1. \A i \in 1 .. size : bits[i] \in Int
    <3>1. \A i \in 1 .. size : bits[i] \in 0 .. 63
      BY <1>1, ElementsOf
    <3>2. \A x \in 0 .. 63 : x \in Int
      OBVIOUS
    <3>3. QED
      BY ONLY <3>1, <3>2
  <2>2. QED
    BY <1>3, <2>1
<1>5. \A v \in Int : \A i \in 0 .. 5 : CharacterBit(v, i) \in Int
  <2>1. \A i \in 0 .. 5 : Places[i + 1] \in {1, 2, 4, 8, 16, 32}
    BY DEF Places
  <2>2. \A v \in Int : \A p \in {1, 2, 4, 8, 16, 32} : (v \div p) % 2 \in Int
    OBVIOUS
  <2>3. QED
    BY <2>1, <2>2 DEF CharacterBit
<1>6. QED
  BY <1>3, <1>4, <1>5 DEF BitAt

\* FetchBits takes one bit after the other, and doubles what it has.
LEMMA FetchedByBit ==
    ASSUME NEW bits \in Seq(0 .. 63), NEW start \in Nat, NEW count \in Nat,
           start + count <= BitLength(bits)
    PROVE  \E f : /\ f[0] = 0
                  /\ \A n \in 1 .. count : f[n] = 2 * f[n - 1] + BitAt(bits, start + n - 1)
                  /\ FetchBits(bits, start, count) = f[count]
<1> DEFINE bit(n) == BitAt(bits, start + n - 1)
           isFirst(g) == g = [n \in 0 .. count |-> IF n = 0 THEN 0 ELSE 2 * g[n - 1] + bit(n)]
           step == [n \in 1 .. count |-> [x \in Int |-> 2 * x + bit(n)]]
<1>1. BitLength(bits) \in Nat
  BY DEF BitLength
<1>2. \A n \in 1 .. count : bit(n) \in Int
  <2> SUFFICES ASSUME NEW n \in 1 .. count PROVE bit(n) \in Int
    OBVIOUS
  <2>1. start + n - 1 \in Nat /\ start + n - 1 < BitLength(bits)
    BY <1>1
  <2>2. QED
    BY <2>1, BitAtType
<1> HIDE DEF bit
<1>3. PICK f : IsRun(f, count, Int, 0, step)
  <2>1. AreSteps(step, count, Int) /\ 0 \in Int
    BY <1>2 DEF AreSteps
  <2> HIDE DEF step
  <2>2. QED
    BY <2>1, Recursion
<1>4. isFirst(f)
  <2>1. \A n \in 1 .. count : f[n - 1] \in Int
    BY <1>3 DEF IsRun
  <2>2. \A n \in 1 .. count : f[n] = 2 * f[n - 1] + bit(n)
    BY <1>3, <2>1 DEF IsRun
  <2>3. f \in [0 .. count -> Int] /\ f[0] = 0
    BY <1>3 DEF IsRun
  <2> HIDE DEF step
  <2>4. \A n \in 0 .. count : f[n] = IF n = 0 THEN 0 ELSE 2 * f[n - 1] + bit(n)
    BY <2>2, <2>3
  <2>5. QED
    BY <2>3, <2>4
<1> DEFINE first == CHOOSE g : isFirst(g)
<1>5. isFirst(first)
  BY <1>4
<1>6. FetchBits(bits, start, count) = first[count]
  BY <1>1 DEF FetchBits, bit, BitAt
<1> HIDE DEF first
<1>7. first[0] = 0 /\ \A n \in 1 .. count : first[n] = 2 * first[n - 1] + bit(n)
  BY <1>5
<1>8. QED
  BY <1>6, <1>7 DEF bit

\* z zeros, and then the upper n bits of v, a number of width bits.
Stands(bits, start, z, n, v, width) ==
    /\ bits \in Seq(0 .. 63) /\ start \in Nat /\ z \in Nat
    /\ width \in 1 .. 30 /\ n \in 1 .. width /\ v \in Int
    /\ start + z + n <= BitLength(bits)
    /\ \A k \in 0 .. z - 1 : BitAt(bits, start + k) = 0
    /\ \A k \in 0 .. n - 1 : BitAt(bits, start + z + k) = Bit(v, width - 1 - k)

\* What is fetched of them is the quotient of v, and of its sign nothing but what
\* width bits hold of it.
LEMMA FetchedNumber ==
    ASSUME NEW bits, NEW start, NEW z, NEW n, NEW v, NEW width,
           Stands(bits, start, z, n, v, width)
    PROVE  FetchBits(bits, start, z + n)
             = (v \div Power[width - n]) - Power[n] * (v \div Power[width])
<1>0. /\ bits \in Seq(0 .. 63) /\ start \in Nat /\ z \in Nat
      /\ width \in 1 .. 30 /\ n \in 1 .. width /\ v \in Int
      /\ start + z + n <= BitLength(bits)
      /\ \A k \in 0 .. z - 1 : BitAt(bits, start + k) = 0
      /\ \A k \in 0 .. n - 1 : BitAt(bits, start + z + k) = Bit(v, width - 1 - k)
  BY DEF Stands
<1> USE <1>0
<1> DEFINE K == v \div Power[width]
           upper(i) == (v \div Power[width - i]) - Power[i] * K
<1>1. K \in Int
  <2>1. Power[width] \in Nat \ {0}
    <3>1. width \in 0 .. 30
      OBVIOUS
    <3>2. QED
      BY ONLY <3>1, Powers
  <2>2. QED
    BY <2>1
<1>2. PICK f : /\ f[0] = 0
               /\ \A i \in 1 .. z + n : f[i] = 2 * f[i - 1] + BitAt(bits, start + i - 1)
               /\ FetchBits(bits, start, z + n) = f[z + n]
  <2>1. z + n \in Nat /\ start + (z + n) <= BitLength(bits)
    BY DEF BitLength
  <2>2. QED
    BY <2>1, FetchedByBit
<1>3. f[z] = 0
  <2> DEFINE Zeros == {i \in 0 .. z : f[i] = 0}
  <2>1. 0 \in Zeros
    BY <1>2
  <2>2. ASSUME NEW i \in 0 .. z, i < z, i \in Zeros PROVE i + 1 \in Zeros
    <3>1. i + 1 \in 1 .. z + n /\ i + 1 \in 0 .. z /\ (i + 1) - 1 = i /\ i \in 0 .. z - 1
      BY <2>2
    <3>2. f[i + 1] = 2 * f[i] + BitAt(bits, start + (i + 1) - 1)
      BY <1>2, <3>1
    <3>3. start + (i + 1) - 1 = start + i
      OBVIOUS
    <3>4. f[i + 1] = 2 * 0 + 0
      BY <2>2, <3>1, <3>2, <3>3
    <3>5. QED
      BY <3>1, <3>4
  <2> HIDE DEF Zeros
  <2>3. \A i \in 0 .. z : i \in Zeros
    BY <2>1, <2>2, Climb
  <2>4. QED
    BY <2>3 DEF Zeros
<1>4. ASSUME NEW i \in 0 .. n - 1
      PROVE  upper(i + 1) = 2 * upper(i) + Bit(v, width - 1 - i)
  <2> DEFINE p == Power[width - (i + 1)]
             q == Power[i]
  <2>1. /\ width - (i + 1) \in 0 .. 30 /\ width - i \in 1 .. 30
        /\ (width - i) - 1 = width - (i + 1) /\ width - 1 - i = width - (i + 1)
        /\ i \in 0 .. 30 /\ i + 1 \in 1 .. 30 /\ (i + 1) - 1 = i
    OBVIOUS
  <2>2. p \in Nat \ {0} /\ q \in Nat \ {0} /\ Power[width - i] = 2 * p /\ Power[i + 1] = 2 * q
    BY <2>1, Powers
  <2> HIDE DEF p, q, K
  <2>3. v \div p = 2 * (v \div (2 * p)) + ((v \div p) % 2)
    BY <2>2, NextBit
  <2>4. Bit(v, width - 1 - i) = (v \div p) % 2
    BY <2>1 DEF Bit, p
  <2>5. (2 * q) * K = 2 * (q * K) /\ q * K \in Int
    BY <1>1, <2>2
  <2>6. upper(i + 1) = (v \div p) - (2 * q) * K /\ upper(i) = (v \div (2 * p)) - q * K
    BY <2>2 DEF p, q
  <2>7. v \div p \in Int /\ v \div (2 * p) \in Int /\ (v \div p) % 2 \in Int
    BY <2>2
  <2> HIDE DEF upper
  <2>8. \A x, y, b, w \in Int : x = 2 * y + b => x - 2 * w = 2 * (y - w) + b
    OBVIOUS
  <2>9. (v \div p) - 2 * (q * K) = 2 * ((v \div (2 * p)) - q * K) + ((v \div p) % 2)
    BY ONLY <2>3, <2>5, <2>7, <2>8
  <2>10. QED
    BY ONLY <2>4, <2>5, <2>6, <2>9
<1>5. upper(0) = 0
  <2>1. width - 0 = width /\ Power[0] = 1
    BY Powers
  <2>2. 1 * K = K
    BY <1>1
  <2>3. upper(0) = K - 1 * K
    BY <2>1
  <2>4. QED
    BY <1>1, <2>2, <2>3
<1> HIDE DEF upper
<1>6. f[z + n] = upper(n)
  <2> DEFINE Right == {i \in 0 .. n : f[z + i] = upper(i)}
  <2>1. 0 \in Right
    BY <1>3, <1>5
  <2>2. ASSUME NEW i \in 0 .. n, i < n, i \in Right PROVE i + 1 \in Right
    <3>1. /\ z + (i + 1) \in 1 .. z + n /\ (z + (i + 1)) - 1 = z + i
          /\ start + (z + (i + 1)) - 1 = start + z + i
          /\ i + 1 \in 0 .. n /\ i \in 0 .. n - 1
      BY <2>2
    <3>2. f[z + (i + 1)] = 2 * f[(z + (i + 1)) - 1] + BitAt(bits, start + (z + (i + 1)) - 1)
      BY <1>2, <3>1
    <3>3. f[z + (i + 1)] = 2 * upper(i) + Bit(v, width - 1 - i)
      BY <2>2, <3>1, <3>2
    <3>4. QED
      BY <1>4, <3>1, <3>3
  <2> HIDE DEF Right
  <2>3. \A i \in 0 .. n : i \in Right
    <3>1. n \in Nat
      OBVIOUS
    <3>2. QED
      BY <2>1, <2>2, <3>1, Climb
  <2>4. QED
    BY <2>3 DEF Right
<1>7. QED
  BY <1>2, <1>6 DEF upper, K

\* A payload all of whose characters are armoured.
Armoured(payload) ==
    payload \in Seq(Nat) /\ payload # << >> /\ \A n \in DOMAIN payload : IsArmour(payload[n])

\* What a payload carries is in its bits.
LEMMA CarriedBits ==
    ASSUME NEW payload, Armoured(payload), NEW start \in Nat, NEW width \in Nat, NEW v \in Int,
           start + width <= BitLength(payload), Carries(payload, v, start, width)
    PROVE  LET bits == ConvertNmeaToSixBit(payload)
           IN  /\ bits \in Seq(0 .. 63) /\ BitLength(bits) = BitLength(payload)
               /\ \A k \in 0 .. width - 1 : BitAt(bits, start + k) = Bit(v, width - 1 - k)
<1> DEFINE bits == ConvertNmeaToSixBit(payload)
<1>1. /\ bits \in Seq(0 .. 63) /\ Len(bits) = Len(payload)
      /\ \A n \in DOMAIN payload : bits[n] = SixBit(payload[n])
  BY ArmouredBits DEF Armoured
<1> HIDE DEF bits
<1>2. BitLength(bits) = BitLength(payload)
  BY <1>1 DEF BitLength
<1>3. ASSUME NEW k \in 0 .. width - 1
      PROVE  BitAt(bits, start + k) = Bit(v, width - 1 - k)
  <2> DEFINE c == ((start + k) \div 6) + 1
  <2>1. c \in DOMAIN payload
    <3>1. PICK size \in Nat : size = Len(payload) /\ DOMAIN payload = 1 .. size
      BY DEF Armoured
    <3>2. start + k \in Nat /\ start + k < 6 * size
      BY <3>1 DEF BitLength
    <3>3. c \in 1 .. size
      BY <3>2
    <3> HIDE DEF c
    <3>4. QED
      BY <3>1, <3>3
  <2>2. CharacterBit(SixBit(payload[c]), (start + k) % 6) = Bit(v, width - 1 - k)
    BY DEF Carries
  <2> HIDE DEF c
  <2>3. bits[c] = SixBit(payload[c])
    BY <1>1, <2>1
  <2>4. QED
    BY <2>2, <2>3 DEF BitAt, c
<1>4. QED
  BY <1>1, <1>2, <1>3 DEF bits

\* A number without a sign that is carried is fetched.
LEMMA NumberFetched ==
    ASSUME NEW payload, Armoured(payload), NEW start \in Nat, NEW width \in 1 .. 30,
           start + width <= BitLength(payload),
           NEW v \in 0 .. Power[width] - 1, Carries(payload, v, start, width)
    PROVE  FetchBits(ConvertNmeaToSixBit(payload), start, width) = v
<1> DEFINE bits == ConvertNmeaToSixBit(payload)
<1>1. /\ Power[width] \in Nat \ {0} /\ Power[width - width] = 1
      /\ v \in Int /\ width \in Nat /\ width \in 1 .. width
  <2>1. width \in 0 .. 30 /\ width - width = 0 /\ width \in Nat /\ width \in 1 .. width
    OBVIOUS
  <2>2. Power[width] \in Nat \ {0} /\ Power[width - width] = 1
    BY ONLY <2>1, Powers
  <2>3. QED
    BY <2>1, <2>2
<1>2. /\ bits \in Seq(0 .. 63) /\ BitLength(bits) = BitLength(payload)
      /\ \A k \in 0 .. width - 1 : BitAt(bits, start + k) = Bit(v, width - 1 - k)
  BY <1>1, CarriedBits
<1> HIDE DEF bits
<1>3. FetchBits(bits, start, 0 + width)
        = (v \div Power[width - width]) - Power[width] * (v \div Power[width])
  <2>1. /\ 0 \in Nat /\ start + 0 + width <= BitLength(bits)
        /\ \A k \in 0 .. 0 - 1 : BitAt(bits, start + k) = 0
        /\ start + 0 = start
    BY <1>2
  <2>2. \A k \in 0 .. width - 1 : BitAt(bits, start + 0 + k) = Bit(v, width - 1 - k)
    BY <1>2, <2>1
  <2>3. Stands(bits, start, 0, width, v, width)
    BY <1>1, <1>2, <2>1, <2>2 DEF Stands
  <2>4. QED
    BY ONLY <2>3, FetchedNumber
<1>4. v \div Power[width] = 0 /\ v \div 1 = v /\ Power[width] * 0 = 0 /\ 0 + width = width
  <2>1. \A p \in Nat \ {0} : \A x \in 0 .. p - 1 : x \div p = 0 /\ x \div 1 = x /\ p * 0 = 0
    OBVIOUS
  <2>2. QED
    BY <1>1, <2>1
<1>5. QED
  BY <1>1, <1>3, <1>4 DEF bits

LEMMA HalfPower ==
    ASSUME NEW width \in 2 .. 30
    PROVE  /\ Power[width] = 2 * Power[width - 1] /\ Power[width - 1] \in Nat \ {0}
           /\ width - 1 \in 0 .. 30 /\ width \in 0 .. 30 /\ width \in 1 .. 30 /\ width \in Nat
           /\ width \in 1 .. width /\ width - width = 0 /\ 0 + width = width
<1>1. /\ width - 1 \in 0 .. 30 /\ width \in 0 .. 30 /\ width \in 1 .. 30 /\ width \in Nat
      /\ width \in 1 .. width /\ width - width = 0 /\ 0 + width = width
  OBVIOUS
<1>2. Power[width] = 2 * Power[width - 1] /\ Power[width - 1] \in Nat \ {0}
  BY ONLY <1>1, Powers
<1>3. QED
  BY <1>1, <1>2

\* So is one with a sign.
LEMMA SignedFetched ==
    ASSUME NEW payload, Armoured(payload), NEW start \in Nat, NEW width \in 2 .. 30,
           start + width <= BitLength(payload),
           NEW v \in -Power[width - 1] .. Power[width - 1] - 1,
           Carries(payload, v, start, width)
    PROVE  SignExtended(FetchBits(ConvertNmeaToSixBit(payload), start, width), width) = v
<1> DEFINE bits == ConvertNmeaToSixBit(payload)
           raw == FetchBits(bits, start, width)
           half == Power[width - 1]
<1>1. half \in Nat \ {0} /\ Power[width] = 2 * half /\ v \in Int /\ v \in -half .. half - 1
  BY HalfPower
<1>2. /\ bits \in Seq(0 .. 63) /\ BitLength(bits) = BitLength(payload)
      /\ \A k \in 0 .. width - 1 : BitAt(bits, start + k) = Bit(v, width - 1 - k)
  <2>1. width \in Nat /\ v \in Int
    BY ONLY <1>1, HalfPower
  <2>2. QED
    BY <2>1, CarriedBits
<1> HIDE DEF bits, half
<1>3. Stands(bits, start, 0, width, v, width)
  <2>1. /\ start + 0 + width <= BitLength(bits) /\ start + 0 = start
        /\ \A k \in 0 .. 0 - 1 : BitAt(bits, start + k) = 0
    BY <1>2
  <2>2. \A k \in 0 .. width - 1 : BitAt(bits, start + 0 + k) = Bit(v, width - 1 - k)
    BY <1>2, <2>1
  <2>3. QED
    BY <1>1, <1>2, <2>1, <2>2, HalfPower DEF Stands
<1>4. FetchBits(bits, start, 0 + width)
        = (v \div Power[width - width]) - Power[width] * (v \div Power[width])
  BY ONLY <1>3, FetchedNumber
<1>5. raw = (v \div 1) - (2 * half) * (v \div (2 * half))
  BY <1>1, <1>4, HalfPower, Powers
<1> HIDE DEF raw
<1>6. SignExtended(raw, width) = IF (raw \div half) % 2 = 1 THEN (raw % (2 * half)) - 2 * half
                                                           ELSE raw
  BY <1>1 DEF SignExtended, Bit, half
<1>7. CASE v >= 0
  <2>1. v \div (2 * half) = 0 /\ v \div 1 = v /\ v \div half = 0
    <3>1. \A p \in Nat \ {0} : \A x \in 0 .. p - 1 : x \div p = 0 /\ x \div 1 = x
      OBVIOUS
    <3>2. 2 * half \in Nat \ {0} /\ v \in 0 .. half - 1 /\ v \in 0 .. 2 * half - 1
      BY <1>1, <1>7
    <3>3. QED
      BY <1>1, <3>1, <3>2
  <2>2. raw = v
    BY <1>1, <1>5, <2>1
  <2>3. SignExtended(raw, width) = v
    BY <1>1, <1>6, <2>1, <2>2
  <2>4. QED
    BY <2>3 DEF raw, bits
<1>8. CASE v < 0
  <2>1. v \div (2 * half) = -1 /\ v \div 1 = v
    <3>1. 2 * half \in Nat \ {0} /\ v + 2 * half \in 0 .. 2 * half - 1
      BY <1>1, <1>8
    <3>2. v = (2 * half) * (-1) + (v + 2 * half)
      BY <1>1
    <3>3. v \div (2 * half) = -1
      BY <1>1, <3>1, <3>2, QuotientUnique
    <3>4. QED
      BY <1>1, <3>3
  <2>2. raw = v + 2 * half
    BY <1>1, <1>5, <2>1
  <2>3. raw \div half = 1
    <3>1. raw = half * 1 + (v + half) /\ v + half \in 0 .. half - 1 /\ raw \in Int
      BY <1>1, <1>8, <2>2
    <3>2. QED
      BY <1>1, <3>1, QuotientUnique
  <2>4. raw % (2 * half) = raw
    <3>1. raw \in 0 .. 2 * half - 1 /\ 2 * half \in Nat \ {0}
      BY <1>1, <1>8, <2>2
    <3>2. \A p \in Nat \ {0} : \A x \in 0 .. p - 1 : x % p = x
      OBVIOUS
    <3>3. QED
      BY <3>1, <3>2
  <2>5. SignExtended(raw, width) = v
    BY <1>1, <1>6, <2>2, <2>3, <2>4
  <2>6. QED
    BY <2>5 DEF raw, bits
<1>9. QED
  BY <1>1, <1>7, <1>8

\* Nothing but spaces is cut off the end of a text, and all of them are.
LEMMA TrimEndCuts ==
    ASSUME NEW text \in Seq(Nat)
    PROVE  \E k \in 0 .. Len(text) :
              /\ TrimEnd(text) = SubSeq(text, 1, k)
              /\ \A n \in k + 1 .. Len(text) : text[n] = Space
              /\ k > 0 => text[k] # Space
<1> DEFINE I == {n \in 1 .. Len(text) : text[n] # Space}
           last == IF I # {} THEN Max(I) ELSE 0
<1>1. TrimEnd(text) = SubSeq(text, 1, last)
  BY DEF TrimEnd, SelectLastInSeq
<1>2. PICK size \in Nat : size = Len(text)
  OBVIOUS
<1>3. CASE I = {}
  <2>1. last = 0 /\ 0 \in 0 .. Len(text)
    BY <1>2, <1>3
  <2>2. \A n \in 0 + 1 .. Len(text) : text[n] = Space
    BY <1>2, <1>3
  <2> HIDE DEF last
  <2>3. QED
    BY <1>1, <2>1, <2>2
<1>4. CASE I # {}
  <2>1. I \in SUBSET (1 .. size) /\ I \in SUBSET Nat
    BY <1>2
  <2>2. IsFiniteSet(I)
    <3> HIDE DEF I
    <3>1. IsFiniteSet(1 .. size)
      BY FS_Interval
    <3>2. QED
      BY <2>1, <3>1, FS_Subset
  <2>3. \E x \in I : \A y \in I : y <= x
    <3> HIDE DEF I
    <3>1. QED
      BY <1>4, <2>1, <2>2, GreatestNumber
  <2>4. last \in I /\ \A y \in I : last >= y
    <3>1. \E x \in I : \A y \in I : x >= y
      <4> HIDE DEF I
      <4>1. QED
        BY <2>1, <2>3
    <3>2. last = CHOOSE x \in I : \A y \in I : x >= y
      BY <1>4 DEF Max
    <3> HIDE DEF I, last
    <3>3. QED
      BY <3>1, <3>2
  <2> HIDE DEF last
  <2>5. last \in 1 .. size /\ text[last] # Space
    BY <1>2, <2>4
  <2>6. \A n \in last + 1 .. size : text[n] = Space
    BY <1>2, <2>4, <2>5
  <2>7. QED
    BY <1>1, <1>2, <2>5, <2>6
<1>5. QED
  BY <1>3, <1>4

\* A text that is carried is decoded, up to the spaces at its end.
LEMMA TextFetched ==
    ASSUME NEW payload, Armoured(payload), NEW start \in Nat, NEW chars \in Nat, NEW text,
           start + 6 * chars <= BitLength(payload), CarriesText(payload, text, <<start, chars>>)
    PROVE  IsReportedText(DecodeAisText(ConvertNmeaToSixBit(payload), start, chars), text)
<1> DEFINE bits == ConvertNmeaToSixBit(payload)
           raw == [n \in 1 .. chars |-> TextCharacter(FetchBits(bits, start + 6 * (n - 1), 6))]
           filled == [n \in DOMAIN text |-> IF text[n] = At THEN 0 ELSE text[n]]
<1>1. /\ text \in Seq(32 .. 95) /\ Len(text) = chars /\ DOMAIN text = 1 .. chars
      /\ \A n \in 1 .. chars : Carries(payload, text[n] % 64, start + 6 * (n - 1), 6)
  BY DEF CarriesText
<1>2. \A n \in 1 .. chars : text[n] \in 32 .. 95
  BY <1>1, ElementsOf
<1>3. ASSUME NEW n \in 1 .. chars
      PROVE  TextCharacter(FetchBits(bits, start + 6 * (n - 1), 6)) = filled[n]
  <2> DEFINE place == start + 6 * (n - 1)
             v == text[n] % 64
  <2>1. place \in Nat /\ 6 \in 1 .. 30 /\ place + 6 <= BitLength(payload)
    <3>1. PICK length \in Nat : length = BitLength(payload)
      BY DEF Armoured, BitLength
    <3>2. QED
      BY <3>1
  <2>2. \A c \in 32 .. 95 : /\ c % 64 \in 0 .. 64 - 1
                            /\ TextCharacter(c % 64) = IF c = At THEN 0 ELSE c
    BY DEF TextCharacter, At, Space
  <2>3. v \in 0 .. Power[6] - 1
    BY <1>2, <2>2, SmallPowers
  <2>4. Carries(payload, v, place, 6)
    BY <1>1
  <2>5. FetchBits(ConvertNmeaToSixBit(payload), place, 6) = v
    <3> HIDE DEF v, place
    <3>1. QED
      BY <2>1, <2>3, <2>4, NumberFetched
  <2>6. QED
    BY <1>1, <1>2, <2>2, <2>5
<1>4. raw = filled
  BY <1>1, <1>3
<1>5. filled \in Seq(Nat) /\ Len(filled) = chars /\ \A n \in 1 .. chars : filled[n] = Space => text[n] = Space
  <2>1. \A n \in 1 .. chars : filled[n] \in Nat /\ (filled[n] = Space => text[n] = Space)
    <3>1. \A c \in 32 .. 95 : c \in Nat /\ 0 \in Nat /\ 0 # Space
      BY DEF Space
    <3>2. \A n \in 1 .. chars : filled[n] = IF text[n] = At THEN 0 ELSE text[n]
      BY <1>1
    <3> HIDE DEF filled
    <3>3. QED
      BY <1>2, <3>1, <3>2
  <2>2. filled \in [1 .. chars -> Nat]
    BY <1>1, <2>1
  <2> HIDE DEF filled
  <2>3. QED
    BY <2>1, <2>2, IsSequence
<1>6. DecodeAisText(bits, start, chars) = TrimEnd(filled)
  BY <1>4 DEF DecodeAisText
<1> HIDE DEF bits, raw
<1>7. PICK k \in 0 .. chars :
           /\ TrimEnd(filled) = SubSeq(filled, 1, k)
           /\ \A n \in k + 1 .. chars : filled[n] = Space
           /\ k > 0 => filled[k] # Space
  <2> HIDE DEF filled
  <2>1. QED
    BY <1>5, TrimEndCuts
<1> DEFINE got == SubSeq(filled, 1, k)
<1>8. /\ Len(got) = k /\ k \in Nat /\ SubSeq(got, 1, k) = got
      /\ got # << >> => k > 0 /\ got[k] = filled[k]
  <2> HIDE DEF filled
  <2>1. QED
    BY <1>5
<1>9. IsReportedText(got, text)
  <2> DEFINE said == {n \in DOMAIN text : \A i \in 1 .. n : text[i] # At}
  <2>1. \A n \in said : n \in 1 .. chars /\ filled[n] = text[n]
    <3>1. \A n \in said : n \in 1 .. chars /\ n \in 1 .. n
      BY <1>1
    <3>2. QED
      BY <3>1
  <2>2. \A n \in 1 .. chars : n <= k => got[n] = filled[n]
    <3> HIDE DEF filled
    <3>1. QED
      BY <1>5, <1>7
  <2>3. got # << >> => got[Len(got)] # Space
    <3> HIDE DEF filled, got
    <3>1. QED
      BY <1>7, <1>8
  <2>4. Len(got) <= Len(text)
    <3> HIDE DEF filled, got
    <3>1. QED
      BY <1>1, <1>7, <1>8
  <2>5. \A n \in said : IF n <= Len(got) THEN got[n] = text[n] ELSE text[n] = Space
    <3> HIDE DEF filled, got, said
    <3>1. QED
      BY <1>7, <1>8, <2>1, <2>2
  <2> HIDE DEF got
  <2>6. QED
    BY <2>3, <2>4, <2>5 DEF IsReportedText
<1>10. QED
  BY <1>6, <1>7, <1>9 DEF bits

\* A number that is carried within the payload.
IsPlaced(payload, name, v, start, width) ==
    /\ Armoured(payload) /\ start \in Nat /\ width \in 2 .. 30
    /\ start + width <= BitLength(payload) /\ CarriesNumber(payload, name, v, <<start, width>>)

LEMMA CoordinateFetched ==
    ASSUME NEW payload, NEW v, NEW start, NEW width, NEW notAvailable, NEW name \in {"lon", "lat"},
           IsPlaced(payload, name, v, start, width)
    PROVE  Coordinate(ConvertNmeaToSixBit(payload), start, width, notAvailable)
             = OrZero(v, notAvailable)
<1>1. /\ Armoured(payload) /\ start \in Nat /\ width \in 2 .. 30
      /\ start + width <= BitLength(payload)
      /\ v \in -Power[width - 1] .. Power[width - 1] - 1 /\ Carries(payload, v, start, width)
  BY DEF IsPlaced, CarriesNumber
<1>2. SignExtended(FetchBits(ConvertNmeaToSixBit(payload), start, width), width) = v
  BY <1>1, SignedFetched
<1>3. QED
  BY <1>2 DEF Coordinate

LEMMA PlainFetched ==
    ASSUME NEW payload, NEW v, NEW start, NEW width, NEW name, name \notin {"lon", "lat"},
           IsPlaced(payload, name, v, start, width)
    PROVE  /\ FetchBits(ConvertNmeaToSixBit(payload), start, width) = v
           /\ v \in 0 .. Power[width] - 1
<1>1. /\ Armoured(payload) /\ start \in Nat /\ width \in 2 .. 30 /\ width \in 1 .. 30
      /\ start + width <= BitLength(payload)
      /\ v \in 0 .. Power[width] - 1 /\ Carries(payload, v, start, width)
  BY DEF IsPlaced, CarriesNumber
<1>2. QED
  BY <1>1, NumberFetched

\* What a sender that means something sends is decoded by its type.
LEMMA SentIsDecoded ==
    ASSUME MessagesAssumption, NEW m \in Messages, DOMAIN m.meant # {}
    PROVE  LET payload == m.payload
               bits    == ConvertNmeaToSixBit(payload)
               type    == SixBit(payload[1])
               mmsi    == FetchBits(bits, 6, 24)
           IN  /\ IsSent(m) /\ Armoured(payload) /\ type \in {1, 2, 3, 5}
               /\ BitLength(payload) >= FullLength(type) /\ BitLength(payload) \in Nat
               /\ PipelineReport(m).ais
                    = IF type = 5 THEN Report("data", type, mmsi, Voyage(bits))
                                  ELSE Report("pos", type, mmsi, ClassA(bits))
<1> DEFINE payload == m.payload
           bits == ConvertNmeaToSixBit(payload)
           type == SixBit(payload[1])
           mmsi == FetchBits(bits, 6, 24)
<1>1. /\ payload \in Seq(Nat) /\ m.f \in Seq(FieldType) /\ IsSent(m) /\ IsCoherent(m)
      /\ m.size \in Nat /\ m.header.letters \in Nat
  BY DEF MessagesAssumption, HeaderType
<1>2. /\ m.lead = "!" /\ IsAisType(m.header) /\ Len(m.f) >= 7
      /\ \A n \in DOMAIN payload : IsArmour(payload[n])
      /\ type \in {1, 2, 3, 5} /\ BitLength(payload) >= FullLength(type)
  BY <1>1 DEF IsSent
<1>3. PICK length \in Nat : length = BitLength(payload) /\ length = 6 * Len(payload)
  BY <1>1 DEF BitLength
<1>4. /\ length >= 168 /\ (type \in 1 .. 3 => length >= 168) /\ (type = 5 => length >= 424)
  BY <1>2, <1>3 DEF FullLength
<1>5. Armoured(payload)
  BY <1>1, <1>2, <1>3, <1>4 DEF Armoured
<1>6. m.size >= 7 /\ m.header.letters >= 6 /\ Len(m.f) \in Nat
  BY <1>1, <1>2 DEF IsCoherent
<1>7. PipelineReport(m).ais = Decoded(payload)
  <2>1. Len(m.f) >= 6 /\ Len(m.f) # 6
    <3>1. \A n \in Nat : n >= 7 => n >= 6 /\ n # 6
      OBVIOUS
    <3>2. QED
      BY <1>2, <1>6, <3>1
  <2>2. QED
    BY <1>2, <1>6, <2>1, PipelineAis
<1>8. /\ bits \in Seq(0 .. 63) /\ Len(bits) = Len(payload) /\ Len(bits) >= 1 /\ bits[1] = type
  BY <1>5, ArmouredBits DEF Armoured
<1> HIDE DEF bits, payload
<1>9. MessageType(bits) = type /\ BitLength(bits) = length
  BY <1>3, <1>8, TypeIsFirstCharacter DEF BitLength
<1> HIDE DEF type, mmsi
<1>10. ~ length < 38
  BY <1>4
<1>11. Decoded(payload) = IF type = 5 THEN Report("data", type, mmsi, Voyage(bits))
                                     ELSE Report("pos", type, mmsi, ClassA(bits))
  <2>1. CASE type \in 1 .. 3
    <3>1. IsClassA(type, length) /\ type # 5
      BY <1>4, <2>1 DEF IsClassA
    <3>2. Decoded(payload) = Report("pos", type, mmsi, ClassA(bits))
      BY <1>9, <1>10, <3>1 DEF Decoded, bits, mmsi
    <3>3. QED
      BY <3>1, <3>2
  <2>2. CASE type = 5
    <3>1. ~ IsClassA(type, length) /\ IsVoyage(type, length)
      BY <1>4, <2>2 DEF IsClassA, IsVoyage
    <3>2. Decoded(payload) = Report("data", type, mmsi, Voyage(bits))
      BY <1>9, <1>10, <2>2, <3>1 DEF Decoded, bits, mmsi
    <3>3. QED
      BY <2>2, <3>2
  <2>3. QED
    BY <1>2, <2>1, <2>2 DEF type
<1>12. QED
  BY <1>1, <1>2, <1>3, <1>5, <1>7, <1>11 DEF payload, bits, type, mmsi

\* The two callbacks are given the same.
LEMMA PositionReport ==
    ASSUME NEW type, NEW mmsi, NEW data
    PROVE  LET a == Report("pos", type, mmsi, data)
           IN  /\ a # NoReport /\ a.type = type /\ a.mmsi = mmsi /\ a.data = data
               /\ a.nmea.mmsi = mmsi /\ a.nmea.lon = data.lon /\ a.nmea.lat = data.lat
               /\ a.nmea.speed = data.sog /\ a.nmea.heading = data.cog
  BY DEF Report, NoReport, EmitNmeaReport

LEMMA DataReport ==
    ASSUME NEW type, NEW mmsi, NEW data
    PROVE  LET a == Report("data", type, mmsi, data)
           IN  /\ a # NoReport /\ a.type = type /\ a.mmsi = mmsi /\ a.data = data
               /\ a.nmea.mmsi = mmsi /\ a.nmea.imo = data.imo
               /\ a.nmea.callSign = data.callSign /\ a.nmea.shipName = data.shipName
               /\ a.nmea.destPort = data.destPort
  BY DEF Report, NoReport, EmitNmeaReport

\* A field that is meant is reported.
IsReported(m, a, name) ==
    LET sent == m.meant[name]
        got  == a.data[name]
    IN  /\ a # NoReport
        /\ IF IsText(name) THEN IsReportedText(got, sent) ELSE got = Reported(name, sent)
        /\ name # "shipType" => a.nmea[CommonName(name)] = got

LEMMA ClassAIsReported ==
    ASSUME MessagesAssumption, NEW m \in Messages, NEW name \in DOMAIN m.meant,
           SixBit(m.payload[1]) \in 1 .. 3
    PROVE  IsReported(m, PipelineReport(m).ais, name)
<1> DEFINE payload == m.payload
           bits == ConvertNmeaToSixBit(payload)
           type == SixBit(payload[1])
           mmsi == FetchBits(bits, 6, 24)
           sent == m.meant[name]
           a == PipelineReport(m).ais
           length == BitLength(payload)
<1>1. /\ IsSent(m) /\ Armoured(payload) /\ length \in Nat /\ length >= 168
      /\ type # 5 /\ a = Report("pos", type, mmsi, ClassA(bits))
  BY SentIsDecoded DEF FullLength
<1>2. /\ ~ IsText(name) /\ name \in {"lon", "lat", "cog"}
      /\ name = "lon"  => CarriesNumber(payload, name, sent, <<61, 28>>)
      /\ name = "lat"  => CarriesNumber(payload, name, sent, <<89, 27>>)
      /\ name = "cog"  => CarriesNumber(payload, name, sent, <<116, 12>>)
  <2>1. NumberPlaces(type) = [lon |-> <<61, 28>>, lat |-> <<89, 27>>, cog |-> <<116, 12>>]
    BY <1>1 DEF NumberPlaces
  <2>2. ~ IsText(name) /\ name \in DOMAIN NumberPlaces(type)
    BY <1>1 DEF IsSent
  <2>3. CarriesNumber(payload, name, sent, NumberPlaces(type)[name])
    BY <1>1, <2>2 DEF IsSent
  <2> HIDE DEF payload, type, sent
  <2>4. name \in {"lon", "lat", "cog"}
    BY <2>1, <2>2
  <2>5. /\ NumberPlaces(type).lon = <<61, 28>>
        /\ NumberPlaces(type).lat = <<89, 27>> /\ NumberPlaces(type).cog = <<116, 12>>
    BY <2>1
  <2>7. name = "lon" => CarriesNumber(payload, name, sent, <<61, 28>>)
    BY ONLY <2>3, <2>5
  <2>8. name = "lat" => CarriesNumber(payload, name, sent, <<89, 27>>)
    BY ONLY <2>3, <2>5
  <2>9. name = "cog" => CarriesNumber(payload, name, sent, <<116, 12>>)
    BY ONLY <2>3, <2>5
  <2>10. QED
    BY ONLY <2>2, <2>3, <2>4, <2>7, <2>8, <2>9
<1> HIDE DEF payload, bits, mmsi, sent, length
<1>3. /\ a # NoReport /\ a.type = type /\ a.mmsi = mmsi /\ a.data = ClassA(bits)
      /\ a.nmea.mmsi = mmsi /\ a.nmea.lon = ClassA(bits).lon /\ a.nmea.lat = ClassA(bits).lat
      /\ a.nmea.heading = ClassA(bits).cog
  BY <1>1, PositionReport
<1> HIDE DEF a
<1>5. CASE name = "lon"
  <2>1. IsPlaced(payload, name, sent, 61, 28)
    BY <1>1, <1>2, <1>5 DEF IsPlaced, length
  <2>2. Coordinate(bits, 61, 28, 108600000) = OrZero(sent, 108600000)
    BY <1>5, <2>1, CoordinateFetched DEF bits
  <2>3. ClassA(bits).lon = OrZero(sent, 108600000)
    BY <2>2 DEF ClassA
  <2>4. Reported(name, sent) = OrZero(sent, 108600000)
    BY <1>1, <1>5 DEF Reported, NotAvailable, OrZero
  <2>5. a.data[name] = OrZero(sent, 108600000) /\ a.nmea[CommonName(name)] = a.data[name]
    BY <1>3, <1>5, <2>3 DEF CommonName
  <2>6. QED
    BY <1>1, <1>2, <1>3, <1>5, <2>4, <2>5 DEF IsReported, a, type, sent, payload
<1>6. CASE name = "lat"
  <2>1. IsPlaced(payload, name, sent, 89, 27)
    BY <1>1, <1>2, <1>6 DEF IsPlaced, length
  <2>2. Coordinate(bits, 89, 27, 54600000) = OrZero(sent, 54600000)
    BY <1>6, <2>1, CoordinateFetched DEF bits
  <2>3. ClassA(bits).lat = OrZero(sent, 54600000)
    BY <2>2 DEF ClassA
  <2>4. Reported(name, sent) = OrZero(sent, 54600000)
    BY <1>1, <1>6 DEF Reported, NotAvailable, OrZero
  <2>5. a.data[name] = OrZero(sent, 54600000) /\ a.nmea[CommonName(name)] = a.data[name]
    BY <1>3, <1>6, <2>3 DEF CommonName
  <2>6. QED
    BY <1>1, <1>2, <1>3, <1>6, <2>4, <2>5 DEF IsReported, a, type, sent, payload
<1>7. CASE name = "cog"
  <2>1. IsPlaced(payload, name, sent, 116, 12)
    BY <1>1, <1>2, <1>7 DEF IsPlaced, length
  <2>2. FetchBits(bits, 116, 12) = sent
    BY <1>7, <2>1, PlainFetched DEF bits
  <2>3. ClassA(bits).cog = OrZero(sent, 3600)
    BY <2>2 DEF ClassA
  <2>4. Reported(name, sent) = OrZero(sent, 3600)
    BY <1>1, <1>7 DEF Reported, NotAvailable, OrZero
  <2>5. a.data[name] = OrZero(sent, 3600) /\ a.nmea[CommonName(name)] = a.data[name]
    BY <1>3, <1>7, <2>3 DEF CommonName
  <2>6. QED
    BY <1>1, <1>2, <1>3, <1>7, <2>4, <2>5 DEF IsReported, a, type, sent, payload
<1>8. QED
  BY <1>2, <1>5, <1>6, <1>7 DEF a

LEMMA VoyageIsReported ==
    ASSUME MessagesAssumption, NEW m \in Messages, NEW name \in DOMAIN m.meant,
           SixBit(m.payload[1]) = 5
    PROVE  IsReported(m, PipelineReport(m).ais, name)
<1> DEFINE payload == m.payload
           bits == ConvertNmeaToSixBit(payload)
           type == SixBit(payload[1])
           mmsi == FetchBits(bits, 6, 24)
           sent == m.meant[name]
           a == PipelineReport(m).ais
           length == BitLength(payload)
<1>1. /\ IsSent(m) /\ Armoured(payload) /\ length \in Nat /\ length >= 424
      /\ type = 5 /\ a = Report("data", type, mmsi, Voyage(bits))
  BY SentIsDecoded DEF FullLength
<1>2. ~ IsText(name) => /\ name \in {"imo", "shipType"}
                        /\ name = "imo" => CarriesNumber(payload, name, sent, <<40, 30>>)
                        /\ name = "shipType" => CarriesNumber(payload, name, sent, <<232, 8>>)
  <2> SUFFICES ASSUME ~ IsText(name)
               PROVE  /\ name \in {"imo", "shipType"}
                      /\ name = "imo" => CarriesNumber(payload, name, sent, <<40, 30>>)
                      /\ name = "shipType" => CarriesNumber(payload, name, sent, <<232, 8>>)
    OBVIOUS
  <2>1. NumberPlaces(type) = [imo |-> <<40, 30>>, shipType |-> <<232, 8>>]
    BY <1>1 DEF NumberPlaces
  <2>2. name \in DOMAIN NumberPlaces(type)
    BY <1>1 DEF IsSent
  <2>3. CarriesNumber(payload, name, sent, NumberPlaces(type)[name])
    BY <1>1, <2>2 DEF IsSent
  <2> HIDE DEF payload, type, sent
  <2>4. name \in {"imo", "shipType"}
    BY <2>1, <2>2
  <2>5. NumberPlaces(type).imo = <<40, 30>> /\ NumberPlaces(type).shipType = <<232, 8>>
    BY <2>1
  <2>6. name = "imo" => CarriesNumber(payload, name, sent, <<40, 30>>)
    BY ONLY <2>3, <2>5
  <2>7. name = "shipType" => CarriesNumber(payload, name, sent, <<232, 8>>)
    BY ONLY <2>3, <2>5
  <2>8. QED
    BY ONLY <2>3, <2>4, <2>6, <2>7
<1>3. IsText(name) => /\ name \in {"callSign", "shipName", "destPort"}
                      /\ name = "callSign" => CarriesText(payload, sent, <<70, 7>>)
                      /\ name = "shipName" => CarriesText(payload, sent, <<112, 20>>)
                      /\ name = "destPort" => CarriesText(payload, sent, <<302, 20>>)
  <2> SUFFICES ASSUME IsText(name)
               PROVE  /\ name \in {"callSign", "shipName", "destPort"}
                      /\ name = "callSign" => CarriesText(payload, sent, <<70, 7>>)
                      /\ name = "shipName" => CarriesText(payload, sent, <<112, 20>>)
                      /\ name = "destPort" => CarriesText(payload, sent, <<302, 20>>)
    OBVIOUS
  <2>1. CarriesText(payload, sent, TextPlaces[name])
    BY <1>1 DEF IsSent
  <2> HIDE DEF payload, sent
  <2>2. name \in {"callSign", "shipName", "destPort"}
    BY DEF IsText, TextPlaces
  <2>3. /\ TextPlaces.callSign = <<70, 7>> /\ TextPlaces.shipName = <<112, 20>>
        /\ TextPlaces.destPort = <<302, 20>>
    BY DEF TextPlaces
  <2>4. name = "callSign" => CarriesText(payload, sent, <<70, 7>>)
    BY ONLY <2>1, <2>3
  <2>5. name = "shipName" => CarriesText(payload, sent, <<112, 20>>)
    BY ONLY <2>1, <2>3
  <2>6. name = "destPort" => CarriesText(payload, sent, <<302, 20>>)
    BY ONLY <2>1, <2>3
  <2>7. QED
    BY ONLY <2>2, <2>4, <2>5, <2>6
<1>4. name \in {"imo", "shipType"} => ~ IsText(name)
  BY DEF IsText, TextPlaces
<1> HIDE DEF payload, bits, mmsi, sent, length
<1>5. /\ a # NoReport /\ a.type = type /\ a.data = Voyage(bits)
      /\ a.nmea.imo = Voyage(bits).imo /\ a.nmea.callSign = Voyage(bits).callSign
      /\ a.nmea.shipName = Voyage(bits).shipName /\ a.nmea.destPort = Voyage(bits).destPort
  BY <1>1, DataReport
<1> HIDE DEF a
<1>6. CASE name = "imo"
  <2>1. IsPlaced(payload, name, sent, 40, 30)
    BY <1>1, <1>2, <1>4, <1>6 DEF IsPlaced, length
  <2>2. FetchBits(bits, 40, 30) = sent
    BY <1>6, <2>1, PlainFetched DEF bits
  <2>3. Voyage(bits).imo = sent
    BY <2>2 DEF Voyage
  <2>4. Reported(name, sent) = sent
    BY <1>1, <1>6 DEF Reported, NotAvailable
  <2>5. a.data[name] = sent /\ a.nmea[CommonName(name)] = a.data[name]
    BY <1>5, <1>6, <2>3 DEF CommonName
  <2>6. QED
    BY <1>1, <1>4, <1>5, <1>6, <2>4, <2>5 DEF IsReported, a, type, sent, payload
<1>7. CASE name = "shipType"
  <2>1. IsPlaced(payload, name, sent, 232, 8)
    BY <1>1, <1>2, <1>4, <1>7 DEF IsPlaced, length
  <2>2. FetchBits(bits, 232, 8) = sent
    BY <1>7, <2>1, PlainFetched DEF bits
  <2>3. Voyage(bits).shipType = sent
    BY <2>2 DEF Voyage
  <2>4. Reported(name, sent) = sent
    BY <1>1, <1>7 DEF Reported, NotAvailable
  <2>5. a.data[name] = sent
    BY <1>5, <1>7, <2>3 DEF CommonName
  <2>6. QED
    BY <1>1, <1>4, <1>5, <1>7, <2>4, <2>5 DEF IsReported, a, type, sent, payload
<1>8. CASE name = "callSign"
  <2>1. IsText(name) /\ CarriesText(payload, sent, <<70, 7>>)
    BY <1>3, <1>8 DEF IsText, TextPlaces
  <2>2. 70 \in Nat /\ 7 \in Nat /\ 70 + 6 * 7 <= BitLength(payload)
    BY <1>1 DEF length
  <2>3. IsReportedText(DecodeAisText(bits, 70, 7), sent)
    BY <1>1, <2>1, <2>2, TextFetched DEF bits
  <2>4. a.data[name] = DecodeAisText(bits, 70, 7) /\ a.nmea[CommonName(name)] = a.data[name]
    BY <1>5, <1>8 DEF CommonName, Voyage
  <2>5. QED
    BY <1>1, <1>5, <1>8, <2>1, <2>3, <2>4 DEF IsReported, a, type, sent, payload
<1>9. CASE name = "shipName"
  <2>1. IsText(name) /\ CarriesText(payload, sent, <<112, 20>>)
    BY <1>3, <1>9 DEF IsText, TextPlaces
  <2>2. 112 \in Nat /\ 20 \in Nat /\ 112 + 6 * 20 <= BitLength(payload)
    BY <1>1 DEF length
  <2>3. IsReportedText(DecodeAisText(bits, 112, 20), sent)
    BY <1>1, <2>1, <2>2, TextFetched DEF bits
  <2>4. a.data[name] = DecodeAisText(bits, 112, 20) /\ a.nmea[CommonName(name)] = a.data[name]
    BY <1>5, <1>9 DEF CommonName, Voyage
  <2>5. QED
    BY <1>1, <1>5, <1>9, <2>1, <2>3, <2>4 DEF IsReported, a, type, sent, payload
<1>10. CASE name = "destPort"
  <2>1. IsText(name) /\ CarriesText(payload, sent, <<302, 20>>)
    BY <1>3, <1>10 DEF IsText, TextPlaces
  <2>2. 302 \in Nat /\ 20 \in Nat /\ 302 + 6 * 20 <= BitLength(payload)
    BY <1>1 DEF length
  <2>3. IsReportedText(DecodeAisText(bits, 302, 20), sent)
    BY <1>1, <2>1, <2>2, TextFetched DEF bits
  <2>4. a.data[name] = DecodeAisText(bits, 302, 20) /\ a.nmea[CommonName(name)] = a.data[name]
    BY <1>5, <1>10 DEF CommonName, Voyage
  <2>5. QED
    BY <1>1, <1>5, <1>10, <2>1, <2>3, <2>4 DEF IsReported, a, type, sent, payload
<1>11. QED
  BY <1>2, <1>3, <1>6, <1>7, <1>8, <1>9, <1>10 DEF a

\* SentIsReported: for every set of sentences of senders that keep to the layout of
\* M.1371, whatever they mean to say and whatever stands in the rest of the payload,
\* both callbacks are given the position and the course of class A and what a
\* message 5 says of the ship.
THEOREM SentAreReported == Spec => []SentIsReported
<1>1. Inv => SentIsReported
  <2> SUFFICES ASSUME Inv, NEW m \in input, NEW r \in pipeline, NEW name \in DOMAIN m.meant
               PROVE  IsReported(m, r.ais, name)
    BY DEF SentIsReported, IsReported
  <2>1. m \in Messages /\ r = PipelineReport(m) /\ MessagesAssumption
    BY ReportsOfInput, MessagesAssumption
  <2> DEFINE type == SixBit(m.payload[1])
  <2>2. type \in {1, 2, 3, 5}
    BY <2>1, SentIsDecoded
  <2>3. CASE type \in 1 .. 3
    BY <2>1, <2>3, ClassAIsReported
  <2>4. CASE type = 5
    BY <2>1, <2>4, VoyageIsReported
  <2>5. QED
    BY <2>2, <2>3, <2>4
<1>2. QED
  BY <1>1, InductiveInvariant, PTL
==============================================================================
