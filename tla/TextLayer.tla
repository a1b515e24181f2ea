------------------------------- MODULE TextLayer -------------------------------
(***************************************************************************)
(* The two ways from a sentence to the decoders: ParseMsg of the template  *)
(* NmeaDecoder (src/NMEA/compile_time_pipeline.h), which feeds AisDecoder  *)
(* and GeoMsgParser, and ParseMsg of Nmea0183Parser (src/NMEA/             *)
(* nmea0183_parser.cpp), whose AIS callback feeds an AisDecoder; and what  *)
(* the plug-in (src/nmea_decoder.cpp) takes the same sentence for.  The    *)
(* two parsers take a sentence in either order; they share no state.       *)
(*                                                                         *)
(* A sentence is [lead, size, header, f, payload, sumOk, meant]: its first *)
(* character, its length, its header and fields (see GeoMsgParser), the    *)
(* characters of field 5, whether its checksum is right, and what its      *)
(* sender put in: a function from names of fields of a report.             *)
(* The value of a text is its characters.                                  *)
(***************************************************************************)
EXTENDS AisDecoder, GeoMsgParser

CONSTANT Messages   \* the sentences that arrive

IsAisType(header) == header.type \in {"VDM", "VDO"}

HeaderType == [vendor : STRING, letters : Nat, prop : BOOLEAN, type : STRING]
FieldType  == [text : STRING, num : BOOLEAN, dot : Nat \cup {-1}, sum : BOOLEAN]

\* The parts of a sentence are parts of one text: a header ends with its type or
\* after it, commas stand between the fields, and $RATTRM tells the type itself.
IsCoherent(m) ==
    /\ IsAisType(m.header) => m.header.letters >= 6
    /\ m.size >= m.header.letters + Len(m.f) - 1
    /\ m.header.vendor = "$RATTRM" => m.header.type = "TTR"

(***************************************************************************)
(* What the sender of an AIS message puts in, where ITU-R M.1371 has it:   *)
(* numbers are <<start, width>> and texts <<start, characters>>.           *)
(***************************************************************************)
NumberPlaces(type) ==
    IF type = 5 THEN [imo |-> <<40, 30>>, shipType |-> <<232, 8>>]
                ELSE [lon |-> <<61, 28>>, lat |-> <<89, 27>>, cog |-> <<116, 12>>]

TextPlaces == [callSign |-> <<70, 7>>, shipName |-> <<112, 20>>, destPort |-> <<302, 20>>]
IsText(name) == name \in DOMAIN TextPlaces

FullLength(type) == IF type = 5 THEN 424 ELSE 168

\* The bits of the payload from start on are the lower width ones of v.
Carries(payload, v, start, width) ==
    \A k \in 0 .. width - 1 :
        CharacterBit(SixBit(payload[((start + k) \div 6) + 1]), (start + k) % 6)
            = Bit(v, width - 1 - k)

CarriesNumber(payload, name, v, place) ==
    /\ v \in IF name \in {"lon", "lat"} THEN -Power[place[2] - 1] .. Power[place[2] - 1] - 1
                                       ELSE 0 .. Power[place[2]] - 1
    /\ Carries(payload, v, place[1], place[2])

\* Codes from 64 on stand as what remains of them.
CarriesText(payload, text, place) ==
    /\ text \in Seq(32 .. 95) /\ Len(text) = place[2]
    /\ \A n \in DOMAIN text : Carries(payload, text[n] % 64, place[1] + 6 * (n - 1), 6)

\* A sender that means something sends a whole position report of class A or a
\* whole message 5.
IsSent(m) ==
    LET type == SixBit(m.payload[1])
    IN  /\ m.lead = "!" /\ IsAisType(m.header) /\ Len(m.f) >= 7
        /\ \A n \in DOMAIN m.payload : IsArmour(m.payload[n])
        /\ type \in {1, 2, 3, 5} /\ BitLength(m.payload) >= FullLength(type)
        /\ \A name \in DOMAIN m.meant :
              IF IsText(name)
              THEN type = 5 /\ CarriesText(m.payload, m.meant[name], TextPlaces[name])
              ELSE /\ name \in DOMAIN NumberPlaces(type)
                   /\ CarriesNumber(m.payload, name, m.meant[name], NumberPlaces(type)[name])

ASSUME MessagesAssumption ==
    \A m \in Messages :
        /\ m.size \in Nat /\ m.sumOk \in BOOLEAN /\ m.header \in HeaderType
        /\ m.f \in Seq(FieldType) /\ m.f # << >>
        /\ m.payload \in Seq(Nat)
        /\ IsCoherent(m)
        /\ DOMAIN m.meant # {} => IsSent(m)

VARIABLES
    input,      \* {the sentence at hand}
    pipeline,   \* {what the pipeline's decoders made of it}
    parser      \* {what Nmea0183Parser's callbacks were given of it}

vars == <<input, pipeline, parser>>

Init == input = {} /\ pipeline = {} /\ parser = {}

Arrive(m) == input = {} /\ input' = {m} /\ UNCHANGED <<pipeline, parser>>

\* Both have returned: the caller goes on to its next sentence.
Return ==
    /\ pipeline # {} /\ parser # {}
    /\ input' = {} /\ pipeline' = {} /\ parser' = {}

NoSentence == [does |-> "nothing"]

\* compile_time_pipeline.h:20: the whole sentence is split, and its last field
\* keeps the '*' and the checksum.
WithSum(f) == [f EXCEPT ![Len(f)].sum = TRUE]
Asterisk == 42
Field5WithSum(m) ==
    IF Len(m.f) = 6 THEN m.payload \o <<Asterisk, 53, 53>> ELSE m.payload

\* compile_time_pipeline.h:16-42.  The checksum is not looked at.
PipelineReport(m) ==
    LET isLong == m.size >= 7
        isAis  == /\ isLong /\ m.lead = "!" /\ m.header.letters >= 6
                  /\ IsAisType(m.header) /\ Len(m.f) >= 6
        isGeo  == isLong /\ m.lead = "$"
    IN  [ais |-> IF isAis THEN Decoded(Field5WithSum(m)) ELSE NoReport,
         geo |-> IF isGeo THEN Parsed(m.header, WithSum(m.f)) ELSE NoSentence]

PipelineParseMsg ==
    /\ pipeline = {}
    /\ \E m \in input : pipeline' = {PipelineReport(m)}
    /\ UNCHANGED <<input, parser>>

\* Seeded fault: the fill bits' field is not asked for.
EnoughForAisShort(f) == Len(f) >= 6

\* nmea0183_parser.cpp:37.
EnoughForAis(f) == Len(f) >= 7

\* nmea0183_parser.cpp:8-51: the sentence without its checksum is split.
ParserReport(m) ==
    LET isTaken == m.size >= 6 /\ m.lead \in {"$", "!"} /\ m.sumOk
        isAis   == /\ isTaken /\ m.lead = "!"
                   /\ IsAisType(m.header) /\ EnoughForAis(m.f)
        isOther == isTaken /\ m.lead # "!"
    IN  [header   |-> isTaken,
         ais      |-> IF isAis THEN Decoded(m.payload) ELSE NoReport,
         standard |-> IF isOther THEN {<<m.header.type, Tail(m.f)>>} ELSE {}]

Nmea0183ParseMsg ==
    /\ parser = {}
    /\ \E m \in input : parser' = {ParserReport(m)}
    /\ UNCHANGED <<input, pipeline>>

Next ==
    \/ \E m \in Messages : Arrive(m)
    \/ PipelineParseMsg
    \/ Nmea0183ParseMsg
    \/ Return

Spec == Init /\ [][Next]_vars
------------------------------------------------------------------------------
(***************************************************************************)
(* What the plug-in counts as a position, nmea_decoder.cpp, on the fields  *)
(* of the sentence without its checksum: lines 42-49 for "$", and 51-63    *)
(* for "!", of which only the first character of the payload is looked at. *)
(***************************************************************************)
Filled(f, indices) == \A n \in indices : ~ IsEmptyField(Field(f, n))

\* Seeded fault: the status of RMC is not tested.
RmcHasPositionAnyway(f) == Len(f) >= 7 /\ Filled(f, {3, 5})

\* Line 46.
RmcHasPosition(f) == Len(f) >= 7 /\ Says(Field(f, 2), "A") /\ Filled(f, {3, 5})

HasNmeaPosition(type, f) ==
    \/ type \in {"GGA", "GNS"} /\ Len(f) >= 6 /\ Filled(f, {2, 4})
    \/ type = "GLL" /\ Len(f) >= 5 /\ Filled(f, {1, 3})
    \/ type = "RMC" /\ RmcHasPosition(f)
    \/ type = "TLL" /\ Len(f) >= 5 /\ Filled(f, {2, 4})

AisPositionTypes == {1, 2, 3, 4, 9, 11, 18, 19, 21, 27}
HasAisPosition(f, payload) ==
    /\ Len(f) >= 6 /\ payload # << >>
    /\ IsArmour(payload[1]) /\ SixBit(payload[1]) \in AisPositionTypes
------------------------------------------------------------------------------
\* DecodePayload reads no field beyond the end of the payload, where FetchBits
\* makes 0 of it; but the last character of the port in a message 5 of exactly
\* 420 bits, which line 57 lets through, ends at bit 422.
FieldsInside ==
    \A m \in input, r \in pipeline :
        r.ais.kind # "none" =>
            LET length == BitLength(ConvertNmeaToSixBit(m.payload))
            IN  \A field \in FieldsRead(r.ais.type, length) :
                    \/ field[1] + field[2] <= length
                    \/ r.ais.type = 5 /\ length = 420 /\ field = <<416, 6>>

\* "Not available", of which 0 is reported.
NotAvailable == {<<"lon", 108600000>>, <<"lat", 54600000>>, <<"cog", 3600>>}
Reported(name, sent) == IF <<name, sent>> \in NotAvailable THEN 0 ELSE sent

\* A text is reported as it was sent, but for the spaces at its end, of which none
\* is left.  Nothing is said of it from the first '@' on, with which M.1371 fills
\* a field up: line 73 of ais_decoder.cpp means to make a space of it, and makes a
\* NUL.
IsReportedText(text, sent) ==
    LET said == {n \in DOMAIN sent : \A k \in 1 .. n : sent[k] # At}
    IN  /\ Len(text) <= Len(sent)
        /\ \A n \in said : IF n <= Len(text) THEN text[n] = sent[n] ELSE sent[n] = Space
        /\ text # << >> => text[Len(text)] # Space

\* What a field is called in an NmeaReport (ais_decoder.cpp:90, 95).
CommonName(name) == IF name = "cog" THEN "heading" ELSE name

\* The position and the course that a ship of class A sends, and what a message 5
\* says of a ship, are what both callbacks of AisDecoder are given, sign and all,
\* each field at its place whatever its neighbours are.  This claims nothing of
\* what the decoder has at another place than M.1371 or not at all: every MMSI,
\* status and speed of class A, messages 4, 18, 19, 24 and 27.
SentIsReported ==
    \A m \in input, r \in pipeline : \A name \in DOMAIN m.meant :
        LET sent == m.meant[name]
            got  == r.ais.data[name]
        IN  /\ r.ais # NoReport
            /\ IF IsText(name) THEN IsReportedText(got, sent) ELSE got = Reported(name, sent)
            /\ name # "shipType" => r.ais.nmea[CommonName(name)] = got

\* The two ParseMsg ask for six and for seven fields and cut the checksum off
\* or not; behind both, AisDecoder reports the same of a sentence whose
\* checksum is right.
SameReport ==
    \A m \in input, r \in pipeline, s \in parser : m.sumOk => r.ais = s.ais

\* GeoMsgParser reads no field that is not there; but $PTNL,GGK of exactly seven
\* fields lacks the field 7 of line 102.
GeoInside ==
    \A m \in input, r \in pipeline :
        r.geo.does = "outside" =>
            /\ m.header.vendor = "$PTNL" /\ Len(m.f) = 7
            /\ Says(Field(m.f, 1), "GGK")

\* The standard sentences with a position: the size that geo_msg_parser.cpp:32-61
\* asks for, and which fields are the coordinates and the other numbers.
PositionKinds ==
    [GGA |-> [size |-> 10, coordinates |-> {2, 4}, numbers |-> {6, 9}],
     GLL |-> [size |-> 7,  coordinates |-> {1, 3}, numbers |-> {}],
     RMC |-> [size |-> 9,  coordinates |-> {3, 5}, numbers |-> {7, 8}],
     GNS |-> [size |-> 10, coordinates |-> {2, 4}, numbers |-> {9}],
     TLL |-> [size |-> 6,  coordinates |-> {2, 4}, numbers |-> {}]]

\* A receiver without a fix leaves the numbers of a standard sentence empty, and
\* fills in time, status, mode and what else it likes; of other sentences only
\* those are meant that are empty behind the field that tells what they are.
IsStandard(header) == ~ header.prop /\ header.type \in DOMAIN PositionKinds
IsFixless(m) ==
    LET Blank(n) == Has(m.f, n) => IsEmptyField(Field(m.f, n))
        kind     == PositionKinds[m.header.type]
    IN  IF IsStandard(m.header) THEN \A n \in kind.coordinates \cup kind.numbers : Blank(n)
        ELSE /\ \A n \in 2 .. Len(m.f) - 1 : Blank(n)
             /\ Has(m.f, 1) => ~ Field(m.f, 1).num

\* ParseInMsg takes what a receiver without a fix says in RMC, GLL, GNS and TLL; it
\* throws (stoi and stod of "") on GGA and on those of the vendors' sentences that
\* convert without a test, and on a number in the last field, which "*hh" hangs
\* on: in a GNS of exactly ten fields, and an RMC of nine.
Untested == {"$PASHR", "$PFUG", "$PTNL", "$PLCICA", "$PSBG"}
FixlessIsTaken ==
    \A m \in input, r \in pipeline :
        IsFixless(m) /\ r.geo.does = "throws"
        => \/ m.header.vendor \in Untested \/ m.header.type = "GGA"
           \/ IsStandard(m.header) /\ Len(m.f) - 1 \in PositionKinds[m.header.type].numbers

\* AIS sentences that AisDecoder reports no position of, whatever their type
\* says: short or garbled ones, those whose payload has the checksum on it
\* (Field5WithSum), and types that it passes over.
PassedOver(m) ==
    LET type   == SixBit(m.payload[1])
        length == BitLength(m.payload)
    IN  \/ length < 38
        \/ type \in 1 .. 3 /\ length < 168
        \/ \E n \in DOMAIN m.payload : ~ IsArmour(m.payload[n])
        \/ Len(m.f) = 6
        \/ type \in {4, 9, 11, 21}

\* A field says something else than a number, or a coordinate has not the digits
\* of degrees and minutes before its '.'.
IsGarbled(kind, f) ==
    \/ \E n \in kind.coordinates : ~ Field(f, n).num \/ Field(f, n).dot \in 0 .. 2
    \/ \E n \in kind.numbers : ~ IsEmptyField(Field(f, n)) /\ ~ Field(f, n).num

\* A number is left empty that is converted all the same: those of GGA, and with
\* "*hh" on it the last field.
IsBlank(type, f) ==
    \E n \in PositionKinds[type].numbers :
        IsEmptyField(Field(f, n)) /\ (type = "GGA" \/ n = Len(f) - 1)

\* A sentence in which the plug-in counts a position is one GeoMsgParser or
\* AisDecoder reports a position of, unless it is shorter than what the parser asks
\* for, IsGarbled, IsBlank or PassedOver.
CountedIsReported ==
    \A m \in input, r \in pipeline :
        /\ m.lead = "$" /\ ~ m.header.prop /\ m.header.letters >= 6
             /\ HasNmeaPosition(m.header.type, m.f)
           => LET kind == PositionKinds[m.header.type]
              IN  \/ r.geo.does = "reports" /\ r.geo.pos
                  \/ Len(m.f) < kind.size
                  \/ IsGarbled(kind, m.f) \/ IsBlank(m.header.type, m.f)
        /\ m.lead = "!" /\ m.header.letters >= 6 /\ IsAisType(m.header)
             /\ HasAisPosition(m.f, m.payload) /\ ~ PassedOver(m)
           => r.ais.kind = "pos"
==============================================================================
