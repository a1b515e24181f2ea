--------------------------- MODULE IdentifyMethods ---------------------------
(***************************************************************************)
(* src/DHF/_example/include/IdentifyMethods.h: searching an array of       *)
(* identifiers, each a byte that says its type and a value of the size     *)
(* that goes with the type.  An array d is a sequence of bytes; an offset  *)
(* counts from 0, so that h[off] is d[off + 1].                            *)
(*                                                                         *)
(* An identifier is [type, at], at the offset of its value.  A value that  *)
(* was copied out of the array stands as that offset.                      *)
(***************************************************************************)
EXTENDS IdentifyDefs, SequencesExt

\* The loop of the functions that count the bytes left, hl, down.
Items(d) ==
    LET from[o \in 0 .. Len(d)] ==
          IF Len(d) - o <= 1 \/ Len(d) - (o + 1) < getIdentifySize[d[o + 1]] THEN << >>
          ELSE <<[type |-> d[o + 1], at |-> o + 1]>> \o
               from[o + 1 + getIdentifySize[d[o + 1]]]
    IN  from[0]

\* The loop of those that advance off and test l, which they never change.  At
\* off = l they read h[l] and leave, whatever it is: l - off is negative then.
ItemsByOffset(d) ==
    LET from[o \in 0 .. Len(d)] ==
          IF \/ Len(d) <= 1 \/ o = Len(d)
             \/ Len(d) - (o + 1) < getIdentifySize[d[o + 1]] THEN << >>
          ELSE <<[type |-> d[o + 1], at |-> o + 1]>> \o
               from[o + 1 + getIdentifySize[d[o + 1]]]
    IN  from[0]

\* h[l] is read: the loop has come to the end of the array.
ReadsPast(d) ==
    LET items == ItemsByOffset(d)
    IN  items # << >> /\ Last(items).at + getIdentifySize[Last(items).type] = Len(d)
------------------------------------------------------------------------------
(***************************************************************************)
(* Copies of identifiers.  A list to be searched for is a sequence of      *)
(* [type, ident]; v[at] is the value at that offset.                       *)
(***************************************************************************)
FirstOf(items, type) ==
    SelectInSeq(items, LAMBDA i : i.type = type)

\* ParseIdentify: the first one, whichever module it belongs to.
ParseIdentify(d, type, ident, v) ==
    LET items == Items(d)
        hit   == SelectInSeq(items, LAMBDA i : ~ IsModule(i.type) /\ i.type = type)
    IN  IF hit = 0 THEN [found |-> FALSE, ident |-> ident]
                   ELSE [found |-> TRUE, ident |-> v[items[hit].at]]

\* Seeded fault: an identifier of an earlier module stays found.
ParseLastKeptFound(d, type, ident, v) ==
    FoldLeft(LAMBDA r, i : IF i.type = type /\ ~ IsModule(i.type)
                           THEN [found |-> TRUE, ident |-> v[i.at]] ELSE r,
             [found |-> FALSE, ident |-> ident], Items(d))

\* ParseIdentifyFromLastModule, one identifier: a module clears r, not ident.
ParseLast(d, type, ident, v) ==
    FoldLeft(LAMBDA r, i : IF IsModule(i.type) THEN [r EXCEPT !.found = FALSE]
                           ELSE IF i.type = type THEN [found |-> TRUE, ident |-> v[i.at]]
                           ELSE r,
             [found |-> FALSE, ident |-> ident], Items(d))

\* One round of the loops over a list: the first entry of that type is filled in.
Noted(r, i, v) ==
    LET hit == FirstOf(r.idents, i.type)
    IN  IF IsModule(i.type) THEN [r EXCEPT !.types = {}]
        ELSE IF hit = 0 THEN r
        ELSE [types |-> r.types \cup {i.type},
              idents |-> [r.idents EXCEPT ![hit].ident = v[i.at]]]

Searched(d, idents, v) ==
    FoldLeft(LAMBDA r, i : Noted(r, i, v), [types |-> {}, idents |-> idents], Items(d))

\* All of the list was found behind the last module.
IsFound(r) == Cardinality(r.types) = Len(r.idents)

\* ParseIdentifyFromLastModule, one list.
ParseLastList(d, idents, v) ==
    LET r == Searched(d, idents, v)
    IN  [found |-> IsFound(r), idents |-> r.idents]

\* ParseIdentifyFromLastModule, two lists, of which the first comes first.
ParseLastLists(d, idents1, idents2, v) ==
    LET r1 == Searched(d, idents1, v)
        r2 == Searched(d, idents2, v)
    IN  [found |-> IF IsFound(r1) THEN 1 ELSE IF IsFound(r2) THEN 2 ELSE 0,
         idents1 |-> r1.idents, idents2 |-> r2.idents]
------------------------------------------------------------------------------
(***************************************************************************)
(* All identifiers.  An entry is [type, ident, own]; own: ident points to  *)
(* a block of its own, not into d.  A result is the entries and how many   *)
(* blocks were made.                                                       *)
(***************************************************************************)
Entry(i, put, v) == [type |-> i.type, ident |-> v[i.at], own |-> put]

\* ParseAllIdentifyFromLastModule: a module clears the list, not its blocks.
ParseAllLast(d, idents, put, v) ==
    FoldLeft(LAMBDA r, i :
               IF IsModule(i.type) THEN [r EXCEPT !.idents = << >>]
               ELSE [idents |-> Append(r.idents, Entry(i, put, v)),
                     made |-> r.made + IF put THEN 1 ELSE 0],
             [idents |-> idents, made |-> 0], Items(d))

\* ParseAllIdentifys: the modules as well.
ParseAllIdentifys(d, idents, v) ==
    LET items == Items(d)
    IN  [idents |-> idents \o [k \in DOMAIN items |-> Entry(items[k], TRUE, v)],
         made |-> Len(items)]

\* Seeded fault: the list is cleared, the blocks stay.
ClearAllForgotten(idents) == 0

\* ClearAllIdentifys, ClearAllSearchIdents: the number of blocks it frees.
ClearAllIdentifys(idents) == Len(idents)
------------------------------------------------------------------------------
(***************************************************************************)
(* Offsets.  A list is a sequence of [type, off].                          *)
(***************************************************************************)

\* PutSearchOffIdent for each of the types.
SearchOffs(types, none) == [k \in DOMAIN types |-> [type |-> types[k], off |-> none]]

\* One step of a sequence: entry r.i is the one that is looked for next.
Stepped(r, i, res, v) ==
    [idents |-> [r.idents EXCEPT ![r.i].off = v[i.at]],
     i |-> IF r.i = Len(r.idents) THEN 1 ELSE r.i + 1,
     res |-> IF r.i = Len(r.idents) THEN res ELSE 0]

IsNext(r, i) == ~ IsModule(i.type) /\ r.idents[r.i].type = i.type

\* Seeded fault: a sequence that has begun again is still reported.
SeqKeptRes(d, idents, v) ==
    IF idents = << >> THEN [idents |-> idents, i |-> 1, res |-> 0]
    ELSE FoldLeft(LAMBDA r, i : IF IsNext(r, i)
                                THEN LET s == Stepped(r, i, 1, v)
                                     IN  [s EXCEPT !.res = IF r.res = 1 THEN 1 ELSE @]
                                ELSE r,
                  [idents |-> idents, i |-> 1, res |-> 0], ItemsByOffset(d))

\* ParseOffSeqIdentify, one list.
ParseOffSeq(d, idents, v) ==
    IF idents = << >> THEN [idents |-> idents, i |-> 1, res |-> 0]
    ELSE FoldLeft(LAMBDA r, i : IF IsNext(r, i) THEN Stepped(r, i, 1, v) ELSE r,
                  [idents |-> idents, i |-> 1, res |-> 0], ItemsByOffset(d))

\* ParseOffSeqIdentify, two lists: what the first waits for the second never gets.
ParseOffSeqs(d, idents1, idents2, v) ==
    LET start == [one |-> [idents |-> idents1, i |-> 1, res |-> 0],
                  two |-> [idents |-> idents2, i |-> 1, res |-> 0], res |-> 0]
        round(r, i) ==
          IF IsNext(r.one, i)
          THEN LET s == Stepped(r.one, i, 1, v) IN [r EXCEPT !.one = s, !.res = s.res]
          ELSE IF IsNext(r.two, i)
          THEN LET s == Stepped(r.two, i, 2, v) IN [r EXCEPT !.two = s, !.res = s.res]
          ELSE r
    IN  IF idents1 = << >> \/ idents2 = << >> THEN start
        ELSE FoldLeft(round, start, ItemsByOffset(d))

\* ParseAllOffIdentify: SetOffIdent for each; a multiset keeps equals in order.
ParseAllOff(d, info, v) ==
    LET items == ItemsByOffset(d)
    IN  info \o [k \in DOMAIN items |-> [type |-> items[k].type, off |-> v[items[k].at]]]

\* What ParseAllOffIdentify returns: the module_id of the last module, which
\* is the second byte of a TModuleSchemeAID; junk, if there is no module.
ModuleId(d, junk, v) ==
    FoldLeft(LAMBDA id, i : IF i.type = AID_MODULE THEN v[i.at]
                            ELSE IF i.type = AID_MODULE_AND_SCHEME THEN v[i.at + 1]
                            ELSE id, junk, ItemsByOffset(d))

\* GetOffIdent and GetOffLastIdent.
GetOffIdent(info, type, none) ==
    LET hit == FirstOf(info, type) IN IF hit = 0 THEN none ELSE info[hit].off
GetOffLastIdent(info, type, none) ==
    LET hit == SelectLastInSeq(info, LAMBDA i : i.type = type)
    IN  IF hit = 0 THEN none ELSE info[hit].off

\* ParseOffIdentify: a loop of its own.
ParseOffIdentify(d, type, none, v) ==
    LET items == ItemsByOffset(d)  hit == FirstOf(items, type)
    IN  IF hit = 0 THEN none ELSE v[items[hit].at]
==============================================================================
