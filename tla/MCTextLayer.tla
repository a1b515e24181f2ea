----------------------------- MODULE MCTextLayer -----------------------------
(***************************************************************************)
(* AIS sentences with payloads of every length at which DecodePayload      *)
(* decides something, and with positions at the ends of their ranges;      *)
(* sentences with every header GeoMsgParser knows, of every length, with   *)
(* all fields alike, or with one or all of the numbers empty.              *)
(***************************************************************************)
EXTENDS TextLayer, TLC

Plain(text, num, dot) == [text |-> text, num |-> num, dot |-> dot, sum |-> FALSE]
Empty  == Plain("", FALSE, -1)
Number == Plain("12", TRUE, -1)
Degree == Plain("4807.03", TRUE, 4)
Short  == Plain("5.3", TRUE, 1)
Letter == Plain("A", FALSE, -1)
Tag(text) == Plain(text, FALSE, -1)

\* Its fields are as good as empty, and "*hh" ends it.
Sentence(lead, header, f, payload, sumOk, meant) ==
    [lead |-> lead, size |-> header.letters + Len(f) + 2, header |-> header, f |-> f, payload |-> payload,
     sumOk |-> sumOk, meant |-> meant]
------------------------------------------------------------------------------
Armour(v) == IF v < 40 THEN v + 48 ELSE v + 56

Filler(type, chars, v) ==
    [n \in 1 .. chars |-> IF n = 1 THEN Armour(type) ELSE Armour(v)]

\* The payload of chars characters with value v in the w bits from start, for
\* each <<v, start, w>> in fields, and 0 elsewhere.
Encoded(chars, fields) ==
    LET bit(b) == IF \E x \in fields : b \in x[2] .. x[2] + x[3] - 1
                  THEN LET x == CHOOSE x \in fields : b \in x[2] .. x[2] + x[3] - 1
                       IN  Bit(x[1] % 2^x[3], x[2] + x[3] - 1 - b)
                  ELSE 0
        value(n) == 32 * bit(6 * n) + 16 * bit(6 * n + 1) + 8 * bit(6 * n + 2)
                    + 4 * bit(6 * n + 3) + 2 * bit(6 * n + 4) + bit(6 * n + 5)
    IN  [n \in 1 .. chars |-> Armour(value(n - 1))]

Coordinates(width, notAvailable) ==
    {0, 1, -1, notAvailable, 2^(width - 1) - 1, -2^(width - 1)}

Ais(kind, letters) == [vendor |-> "!AI", letters |-> letters, prop |-> FALSE, type |-> kind]
AisFields(size) == [n \in 1 .. size |-> IF n = 4 THEN Empty ELSE Number]

AisFillers ==
    {Sentence("!", Ais("VDM", 6), AisFields(size), Filler(type, chars, v), sumOk, << >>) :
        size \in {5, 6, 7}, type \in {1, 4, 5, 9, 18, 24, 27, 48}, v \in {0, 63},
        chars \in {6, 7, 14, 15, 16, 27, 28, 69, 70, 71}, sumOk \in BOOLEAN}
AisRejected ==
    {Sentence("!", header, AisFields(7), payload, TRUE, << >>) :
        header \in {Ais("ABM", 6), Ais("VDM", 7), Ais("", 5)},
        payload \in {<< >>, <<49, 88>> \o Filler(1, 28, 0), Filler(1, 28, 0)}}
\* A sentence with a payload of the fields <<v, start, w>>.
AisSentence(chars, fields, meant) ==
    Sentence("!", Ais("VDO", 6), AisFields(7), Encoded(chars, fields), TRUE, meant)

ClassAPositions ==
    {AisSentence(28, {<<type, 0, 6>>, <<lon, 61, 28>>, <<lat, 89, 27>>, <<cog, 116, 12>>}
                     \cup beside,
                 [lon |-> lon, lat |-> lat, cog |-> cog]) :
        type \in {1, 3}, lon \in Coordinates(28, 108600000), lat \in Coordinates(27, 54600000),
        cog \in {0, 3599, 3600},
        beside \in {{}, {<<2^30 - 1, 8, 30>>, <<2^23 - 1, 38, 23>>, <<2^30 - 1, 128, 30>>}}}
\* Messages that the decoder reads no position of, and one of which it reads what
\* stands from bit 43 on.
Others ==
    {AisSentence(28, {<<place[1], 0, 6>>, <<-1, place[2], 28>>, <<1, place[3], 27>>}, << >>) :
        place \in {<<4, 79, 107>>, <<18, 57, 85>>, <<19, 57, 85>>}}
    \cup {AisSentence(16, {<<27, 0, 6>>, <<sog, 43, 6>>, <<lon, 49, 18>>, <<-1, 67, 17>>,
                          <<cog, 84, 9>>}, << >>) :
            sog \in {0, 62, 63}, cog \in {359, 511}, lon \in Coordinates(18, 108600)}

\* A text of chars characters from bit start, filled up with pad.
Padded(text, chars, pad) == [n \in 1 .. chars |-> IF n <= Len(text) THEN text[n] ELSE pad]
TextBits(text, start) == {<<text[n] % 64, start + 6 * (n - 1), 6>> : n \in DOMAIN text}

A == 65
Z == 90
Zero == 48
Question == 63
Bracket == 91
Names == {<< >>, <<A>>, <<Space, A>>, <<A, Space, Space, Z>>, <<Bracket, Zero, Question>>,
          [n \in 1 .. 7 |-> Z]}

Voyages ==
    {LET call == Padded(callSign, 7, pad)
         name == Padded(shipName, 20, pad)
         dest == Padded(<<Z, Z>>, 20, pad)
     IN  AisSentence(71, {<<5, 0, 6>>, <<imo, 40, 30>>, <<kind, 232, 8>>}
                         \cup TextBits(call, 70) \cup TextBits(name, 112)
                         \cup TextBits(dest, 302),
                     [imo |-> imo, shipType |-> kind, callSign |-> call, shipName |-> name,
                      destPort |-> dest]) :
        callSign \in Names, shipName \in {<<A, Space, Z>>, << >>}, pad \in {Space, At},
        imo \in {2^30 - 1, 2^29, 1}, kind \in {0, 255}}

\* Sentences shorter than a ParseMsg takes.
Tiny ==
    {[Sentence(lead, Ais("", 3), <<Empty>>, << >>, TRUE, << >>) EXCEPT !.size = size] :
        lead \in {"!", "$", "\\"}, size \in 5 .. 8}
------------------------------------------------------------------------------
\* <<header, tag>>: the header and what field 1 says.
Standard(type) ==
    <<[vendor |-> "$GP", letters |-> 6, prop |-> FALSE, type |-> type], "">>
Vendor(name, letters, tag) ==
    <<[vendor |-> name, letters |-> letters, prop |-> TRUE, type |-> "-"], tag>>
Headers ==
    {Standard(type) : type \in {"GGA", "GLL", "RMC", "GNS", "TLL", "TTM", "ZDA"}}
    \cup {Vendor("$PFUG", 6, tag) : tag \in {"LLQ", "GDP", "POS", "XYZ"}}
    \cup {Vendor("$PTNL", 5, tag) : tag \in {"PJK", "GGK", "VGK"}}
    \cup {Vendor("$PASHR", 6, "POS"), Vendor("$PFEC", 5, "TLL"), Vendor("$PSBG", 5, "GAZ"),
          Vendor("$PLCICA", 7, "GGQ"), Vendor("$PGRMF", 6, "1"), Vendor("$PXYZ", 5, "1")}
    \cup {<<[vendor |-> "$RATTRM", letters |-> 7, prop |-> FALSE, type |-> "TTR"], "">>,
          <<[vendor |-> "$GP", letters |-> 3, prop |-> FALSE, type |-> ""], "">>}

\* Field 1 has the tag, field 2 of RMC is "A" or not, field hole is empty.
Fields(h, size, filler, valid, hole) ==
    [n \in 1 .. size |->
        IF n = 2 /\ h[2] # "" THEN Tag(h[2])
        ELSE IF n = hole + 1 THEN Empty
        ELSE IF n = 3 /\ h[1].type = "RMC" /\ valid THEN Letter
        ELSE filler]
Geo ==
    {Sentence("$", h[1], Fields(h, size, filler, valid, hole), << >>, TRUE, << >>) :
        h \in Headers, size \in 1 .. 14, filler \in {Number, Degree, Short, Empty, Letter},
        valid \in BOOLEAN, hole \in {0, 2, 4, 6, 7, 8, 9, 11}}

\* Standard sentences without their numbers.
Fixless ==
    {LET kind == PositionKinds[type]
         f    == [n \in 1 .. size |-> IF n - 1 \in kind.coordinates \cup kind.numbers
                                      THEN Empty ELSE filler]
     IN  Sentence("$", Standard(type)[1], f, << >>, TRUE, << >>) :
        type \in DOMAIN PositionKinds, size \in 1 .. 14, filler \in {Number, Letter}}

MCMessages == AisFillers \cup AisRejected \cup ClassAPositions \cup Others
              \cup Voyages \cup Tiny \cup Geo \cup Fixless
==============================================================================
