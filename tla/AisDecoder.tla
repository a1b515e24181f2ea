------------------------------ MODULE AisDecoder ------------------------------
(***************************************************************************)
(* AisDecoder of src/NMEA/ais_decoder.cpp: DecodePayload turns the payload *)
(* of an AIS sentence, characters of six bits each, into a position report *)
(* or a data report.  It keeps no state.                                   *)
(*                                                                         *)
(* A character is its code.  A number is the integer that the code divides *)
(* by 600000 or 60 (lon, lat) or, in messages 1 to 3, by 10 (sog, cog).    *)
(* The payload itself, which each report also carries, is left out.        *)
(***************************************************************************)
EXTENDS Integers, SequencesExt

\* Line 80.
IsArmour(c) == c \in 48 .. 119 /\ c \notin 88 .. 95
SixBit(c) == IF c - 48 > 40 THEN c - 56 ELSE c - 48
ConvertNmeaToSixBit(payload) ==
    IF \A n \in DOMAIN payload : IsArmour(payload[n])
    THEN [n \in DOMAIN payload |-> SixBit(payload[n])]
    ELSE << >>

BitLength(bits) == 6 * Len(bits)

\* A character, whose six bits are numbered from the highest, shifted to the
\* right until bit b is the lowest.
Places == <<32, 16, 8, 4, 2, 1>>
CharacterBit(v, b) == (v \div Places[b + 1]) % 2

\* Line 83: 0 when a bit lies beyond the payload.  No field has more than 30
\* bits, so that the shifts lose none of the 32 of uint32_t.
FetchBits(bits, start, count) ==
    LET first[n \in 0 .. count] ==
            IF n = 0 THEN 0
            ELSE LET b == start + n - 1
                 IN  2 * first[n - 1] + CharacterBit(bits[(b \div 6) + 1], b % 6)
    IN  IF start + count > BitLength(bits) THEN 0 ELSE first[count]

\* 1 << n; no mask is above bit 30.
Power[n \in 0 .. 30] == IF n = 0 THEN 1 ELSE 2 * Power[n - 1]

\* Bit k of v, 0 the lowest; of a negative number as in two's complement.
Bit(v, k) == (v \div Power[k]) % 2

\* Seeded fault: the mask begins one bit too high.
SignExtendedHigh(raw, width) ==
    IF Bit(raw, width - 1) = 1 THEN (raw % Power[width + 1]) - Power[width + 1] ELSE raw

\* Lines 39-40 and 50-51: bit width - 1 set, the mask sets all above it, and
\* the word is read as an int32_t.
SignExtended(raw, width) ==
    IF Bit(raw, width - 1) = 1 THEN (raw % Power[width]) - Power[width] ELSE raw

OrZero(value, notAvailable) == IF value = notAvailable THEN 0 ELSE value
ZeroFrom(value, limit)      == IF value >= limit THEN 0 ELSE value

\* Lines 39-41, 50-52, 84-85: the field at start, and 0 for "not available".
Coordinate(bits, start, width, notAvailable) ==
    OrZero(SignExtended(FetchBits(bits, start, width), width), notAvailable)

\* What AisPosReport begins with, ais_structures.h:14-21.
NoPosition == [nav |-> 15, sog |-> 0, lon |-> 0, lat |-> 0, cog |-> 0]

\* Lines 36-42.  The eight bits of sog are never 1023.
ClassA(bits) ==
    [nav |-> FetchBits(bits, 30, 4),
     sog |-> OrZero(FetchBits(bits, 42, 8), 1023),
     lon |-> Coordinate(bits, 61, 28, 108600000),
     lat |-> Coordinate(bits, 89, 27, 54600000),
     cog |-> OrZero(FetchBits(bits, 116, 12), 3600)]

\* Lines 49-53.
LongRange(bits) ==
    [NoPosition EXCEPT !.sog = ZeroFrom(FetchBits(bits, 43, 6), 63),
                       !.lon = Coordinate(bits, 49, 18, 108600),
                       !.lat = Coordinate(bits, 67, 17, 54600),
                       !.cog = ZeroFrom(FetchBits(bits, 84, 9), 511)]

Space == 32
At    == 64

\* Line 73, a character: 1 to 31 are moved to the letters, and '@' would become
\* a space; but '@' is 0 in six bits, and 0 stays a NUL.
TextCharacter(value) ==
    LET c == IF value \in 1 .. 31 THEN value + 64 ELSE value
    IN  IF c = At THEN Space ELSE c

\* Line 74.
TrimEnd(text) == SubSeq(text, 1, SelectLastInSeq(text, LAMBDA c : c # Space))

\* Lines 70-76.
DecodeAisText(bits, start, chars) ==
    TrimEnd([n \in 1 .. chars |-> TextCharacter(FetchBits(bits, start + 6 * (n - 1), 6))])

\* What AisDataReport begins with, ais_structures.h:33-40.
NoVoyage == [imo |-> 0, callSign |-> << >>, shipName |-> << >>, shipType |-> 0,
             destPort |-> << >>]

\* Lines 61-63.
Voyage(bits) ==
    [imo      |-> FetchBits(bits, 40, 30),
     callSign |-> DecodeAisText(bits, 70, 7),
     shipName |-> DecodeAisText(bits, 112, 20),
     shipType |-> FetchBits(bits, 232, 8),
     destPort |-> DecodeAisText(bits, 302, 20)]

\* Line 33.
IsClassA(type, length) == type \in 1 .. 3 /\ length >= 168

\* Seeded fault: a payload that ends with the latitude.
IsLongRangeShort(type, length) == type = 27 /\ length >= 84

\* Line 48.
IsLongRange(type, length) == type = 27 /\ length >= 96

\* Line 57.
IsVoyage(type, length) == type = 5 /\ length >= 420

\* Lines 9-19; the type that is not described is named by its number.
Describe(type) ==
    CASE type \in 1 .. 3 -> "Position Report Class A"
      [] type = 4  -> "Base Station Report"
      [] type = 5  -> "Static and Voyage Related Data"
      [] type = 18 -> "Standard Class B Position Report"
      [] type = 19 -> "Extended Class B Position Report"
      [] type = 24 -> "Class B Static Data Report"
      [] type = 27 -> "Long-Range AIS Broadcast Message"
      [] OTHER -> "AIS message type"

\* Lines 87-96: what the common callback is given after the other.
EmitNmeaReport(kind, type, mmsi, data) ==
    IF kind = "pos"
    THEN [hasPos |-> TRUE, mmsi |-> mmsi, descr |-> Describe(type), lon |-> data.lon,
          lat |-> data.lat, speed |-> data.sog, heading |-> data.cog]
    ELSE [hasPos |-> FALSE, mmsi |-> mmsi, descr |-> Describe(type), imo |-> data.imo,
          callSign |-> data.callSign, shipName |-> data.shipName,
          destPort |-> data.destPort]

\* Both callbacks: an AisPosReport or an AisDataReport, and the NmeaReport of it.
NoReport == [kind |-> "none"]
Report(kind, type, mmsi, data) ==
    [kind |-> kind, type |-> type, mmsi |-> mmsi, data |-> data,
     nmea |-> EmitNmeaReport(kind, type, mmsi, data)]

MessageType(bits) == FetchBits(bits, 0, 6)

\* DecodePayload, lines 26-68: what the callbacks are given.  A class B report,
\* and a long-range one that is too short, keep the 0 of AisPosReport; message
\* 24 keeps that of AisDataReport.
Decoded(payload) ==
    LET bits   == ConvertNmeaToSixBit(payload)
        length == BitLength(bits)
        type   == MessageType(bits)
        mmsi   == FetchBits(bits, 6, 24)
        position(data) == Report("pos", type, mmsi, data)
        voyage(data)   == Report("data", type, mmsi, data)
    IN  IF length < 38 THEN NoReport
        ELSE IF IsClassA(type, length) THEN position(ClassA(bits))
        ELSE IF type \in {18, 19, 27}
             THEN position(IF IsLongRange(type, length) THEN LongRange(bits) ELSE NoPosition)
        ELSE IF IsVoyage(type, length) \/ type = 24
             THEN voyage(IF type = 5 THEN Voyage(bits) ELSE NoVoyage)
        ELSE NoReport

\* The characters of a text, line 73, as fields of six bits.
TextFields(start, chars) == {<<start + 6 * n, 6>> : n \in 0 .. chars - 1}

\* <<start, count>> of the fields that are fetched, lines 31-63.
FieldsRead(type, length) ==
    {<<0, 6>>, <<6, 24>>}
    \cup (IF IsClassA(type, length)
          THEN {<<30, 4>>, <<42, 8>>, <<61, 28>>, <<89, 27>>, <<116, 12>>} ELSE {})
    \cup (IF IsLongRange(type, length)
          THEN {<<43, 6>>, <<49, 18>>, <<67, 17>>, <<84, 9>>} ELSE {})
    \cup (IF IsVoyage(type, length)
          THEN {<<40, 30>>, <<232, 8>>} \cup TextFields(70, 7)
               \cup TextFields(112, 20) \cup TextFields(302, 20)
          ELSE {})
==============================================================================
