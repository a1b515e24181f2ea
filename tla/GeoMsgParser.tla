----------------------------- MODULE GeoMsgParser -----------------------------
(***************************************************************************)
(* GeoMsgParser of src/NMEA/geo_msg_parser.cpp: ParseInMsg tells from the  *)
(* header which fields of a sentence hold a position or the name of a      *)
(* target, and reports them.  It keeps no state.                           *)
(*                                                                         *)
(* The fields are numbered from 0, the header, as in the code.  A field is *)
(* [text, num, dot, sum]: what it says, whether stod and stoi accept it,   *)
(* where its '.' is (-1: nowhere), and whether "*hh" hangs on it.  The     *)
(* values of the numbers, the projection and the descriptions are left out.*)
(***************************************************************************)
EXTENDS Integers, Sequences

Field(f, n) == f[n + 1]
Has(f, n)   == n \in 0 .. Len(f) - 1
Says(x, text)   == x.text = text /\ ~ x.sum
IsEmptyField(x) == Says(x, "")

\* What is read of a sentence: whether that is a position, and from which pairs
\* of a coordinate and its hemisphere; the fields converted as they are, and
\* those converted only if they are not empty; those that are only looked at or
\* copied; the field that names a target.
Reads(pos, pairs, strict, lenient, plain, object) ==
    [pos |-> pos, pairs |-> pairs, strict |-> strict, lenient |-> lenient,
     plain |-> plain, object |-> object]
None   == -1
NoRead == Reads(FALSE, {}, {}, {}, {}, None)

Pairs(first) == {<<first, first + 1>>, <<first + 2, first + 3>>}

\* Seeded fault: GLL accepted without its time.
GllShort(f) == Len(f) >= 5

\* The size line 38 asks for.
Gll(f) == Len(f) >= 7

\* Seeded fault: the altitude of GNS converted without the test for "".
GnsReadsUntested == Reads(TRUE, Pairs(2), {9}, {}, {1}, None)

\* Lines 54-59.
GnsReads == Reads(TRUE, Pairs(2), {}, {9}, {1}, None)

\* ParseStandard, lines 29-70.
ParseStandard(type, f) ==
    CASE type = "GGA" /\ Len(f) >= 10 -> Reads(TRUE, Pairs(2), {6, 9}, {}, {1}, None)
      [] type = "GLL" /\ Gll(f) -> Reads(TRUE, Pairs(1), {}, {}, {5}, None)
      [] type = "RMC" /\ Len(f) >= 9 /\ Says(Field(f, 2), "A") ->
             Reads(TRUE, Pairs(3), {}, {7, 8}, {1, 2}, None)
      [] type = "GNS" /\ Len(f) >= 10 -> GnsReads
      [] type = "TLL" /\ Len(f) >= 6 -> Reads(TRUE, Pairs(2), {}, {}, {}, 1)
      [] type = "TTM" /\ Len(f) >= 2 -> Reads(FALSE, {}, {}, {}, {}, 1)
      [] OTHER -> NoRead

\* The last branch of ParseProp, lines 123-131: any other vendor's sentence is
\* taken for a position.
Unknown(f) == Reads(TRUE, {}, {}, {}, {}, IF Has(f, 1) THEN 1 ELSE None)

\* Lines 84-93: "$PFUG" and what follows it.
Fugro(f) ==
    CASE Says(Field(f, 1), "LLQ") \/ Says(Field(f, 1), "GDP") ->
             Reads(TRUE, {}, {2, 3, 4}, {}, {}, None)
      [] Says(Field(f, 1), "POS") -> Reads(TRUE, {}, {2, 3}, {}, {}, None)
      [] OTHER -> NoRead

\* Lines 95-104: "$PTNL" and what follows it.
Trimble(f) ==
    CASE Says(Field(f, 1), "PJK") -> Reads(TRUE, {}, {2, 3}, {}, {}, None)
      [] Says(Field(f, 1), "GGK") -> Reads(TRUE, Pairs(3), {7}, {}, {}, None)
      [] OTHER -> NoRead

\* ParseProp, lines 72-132.
ParseProp(vendor, f) ==
    CASE vendor = "$PASHR" /\ Len(f) >= 11 /\ Says(Field(f, 1), "POS") ->
             Reads(TRUE, {}, {2, 4, 5}, {}, {}, None)
      [] vendor = "$PFEC" /\ Len(f) >= 7 /\ Says(Field(f, 1), "TLL") ->
             Reads(TRUE, Pairs(3), {}, {}, {}, 2)
      [] vendor = "$PFUG" /\ Len(f) >= 5 -> Fugro(f)
      [] vendor = "$PTNL" /\ Len(f) >= 7 -> Trimble(f)
      [] vendor = "$PLCICA" /\ Len(f) >= 7 -> Reads(TRUE, Pairs(2), {6}, {}, {}, None)
      [] vendor = "$PGRMF" /\ Len(f) >= 13 -> Reads(TRUE, Pairs(6), {}, {11}, {}, None)
      [] vendor = "$PSBG" /\ Len(f) >= 5 /\ Says(Field(f, 1), "GAZ") ->
             Reads(TRUE, {}, {2, 3, 4}, {}, {}, None)
      [] OTHER -> Unknown(f)

\* GeoToDec, lines 134-145: 0.0 without a value, a hemisphere or a '.'; with
\* fewer than three digits before the '.', stod or substr throws.
GeoToDecThrows(x, hemi) ==
    /\ ~ IsEmptyField(x) /\ ~ IsEmptyField(hemi)
    /\ x.dot # -1
    /\ x.dot < 3 \/ ~ x.num

\* Indices that are read.
InPairs(pairs) == UNION {{p[1], p[2]} : p \in pairs}
Indices(r) ==
    r.strict \cup r.lenient \cup r.plain \cup InPairs(r.pairs)
    \cup (IF r.object = None THEN {} ELSE {r.object})

\* Some conversion of a field that is there throws.
Throws(r, f) ==
    \/ \E n \in r.strict : Has(f, n) /\ ~ Field(f, n).num
    \/ \E n \in r.lenient :
          Has(f, n) /\ ~ IsEmptyField(Field(f, n)) /\ ~ Field(f, n).num
    \/ \E p \in r.pairs : Has(f, p[1]) /\ Has(f, p[2])
          /\ GeoToDecThrows(Field(f, p[1]), Field(f, p[2]))

\* ParseInMsg, lines 13-27.  A header is [vendor, letters, prop, type]: what
\* it begins with, its length, whether its second character is a P, and the
\* three from the fourth.
Read(header, f) ==
    IF header.letters < 4 THEN NoRead
    ELSE IF header.vendor = "$RATTRM" /\ Len(f) >= 2 THEN Reads(FALSE, {}, {}, {}, {}, 1)
    ELSE IF header.prop THEN ParseProp(header.vendor, f)
    ELSE ParseStandard(header.type, f)

\* What ParseInMsg does: it reads beyond the last field, it throws, it reports.
Parsed(header, f) ==
    LET r == Read(header, f)
        named == r.object # None /\ (IF Has(f, r.object)
                                     THEN ~ IsEmptyField(Field(f, r.object)) ELSE FALSE)
    IN  IF \E n \in Indices(r) : ~ Has(f, n) THEN [does |-> "outside"]
        ELSE IF Throws(r, f) THEN [does |-> "throws"]
        ELSE IF r.pos \/ named THEN [does |-> "reports", pos |-> r.pos, named |-> named]
        ELSE [does |-> "nothing"]
==============================================================================
