------------------------------- MODULE MCSdk ---------------------------------
(***************************************************************************)
(* Arrays of up to three identifiers, of a module (1), a direction (53,    *)
(* one byte), a port (38, two bytes) and a type that has no size (0), and  *)
(* of up to two with a module of the other kind (2), whole and cut off in  *)
(* the middle of the last.  Schemes of one and of two modules, and up to   *)
(* two links.                                                              *)
(***************************************************************************)
EXTENDS Sdk

Types == {AID_DATA, AID_MODULE, 38, 53}
TypeLists == UNION {[1 .. k -> Types] : k \in 1 .. 3} \cup
             UNION {[1 .. k -> Types \cup {AID_MODULE_AND_SCHEME}] : k \in 1 .. 2}

\* The bytes of a value are never looked at as types: 255 has no size.
Written(types) ==
    FoldLeft(LAMBDA r, t :
               [bytes |-> r.bytes \o <<t>> \o [i \in 1 .. getIdentifySize[t] |-> 255],
                wrote |-> Append(r.wrote, [type |-> t, at |-> Len(r.bytes) + 1])],
             NoArray, types)

\* What is left of an array when its last identifier loses some of its bytes.
Cuts(a) ==
    {[a EXCEPT !.bytes = SubSeq(a.bytes, 1, l)] :
        l \in Last(a.wrote).at .. Len(a.bytes)}

MCArrays == UNION {Cuts(Written(types)) : types \in TypeLists}
MCWanted == {38, 53}
MCList1 == <<53, 38>>
MCList2 == <<38>>

Param(v) == [name |-> "p", value |-> v]
Sets(v) == [name |-> "s", cnt |-> 1, params |-> <<Param(v)>>]
Opts(vs) == [cnt |-> Len(vs), args |-> [k \in DOMAIN vs |-> Sets(vs[k])]]
Module(uid, name, pos, v, vs) ==
    [uid |-> uid, name |-> name, position |-> pos, settings |-> Sets(v), options |-> Opts(vs)]

Singles == {<<Module(1, name, pos, v, vs)>> :
              name \in {"a", "b"}, pos \in {0, 1}, v \in {0, 1},
              vs \in {<< >>, <<0>>, <<0, 0>>, <<0, 1>>}}
Pairs == {<<Module(u, na, 0, va, << >>), Module(3 - u, nb, 0, vb, << >>)>> :
              u \in {1, 2}, na \in {"a", "b"}, nb \in {"a", "b"}, va \in {0, 1}, vb \in {0, 1}}
MCSchemes == Singles \cup Pairs

Links == [uid : {1, 2}, src : {1, 2}, dst : {2}]
MCLinkLists == UNION {[1 .. k -> Links] : k \in 0 .. 2}
==============================================================================
