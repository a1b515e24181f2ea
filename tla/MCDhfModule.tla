----------------------------- MODULE MCDhfModule -----------------------------
(***************************************************************************)
(* A stream of a sentence with a position and an AIS sentence, with line   *)
(* ends of one and of two characters.  Datagrams: a group of two whose     *)
(* spliced sentence happens to have the right checksum, the line 3 that is *)
(* left over of another group with the same id, and one without a group.   *)
(***************************************************************************)
EXTENDS DhfModule

MCRaw == <<"g", "end", "end", "v", "w", "end">>

\* A sentence is a tuple of its bytes.
Gga   == <<"g">>
Vdm   == <<"v", "w">>
Part1 == <<"p1">>
Part2 == <<"p2">>
Part3 == <<"p3">>
MCSentences == {Gga, Vdm, Part1, Part2, Part3}

MCText == [s \in MCSentences |-> s]
MCKind ==
    (Gga   :> [ais |-> FALSE, type |-> "GGA", pos |-> TRUE]) @@
    (Vdm   :> [ais |-> TRUE, type |-> "5", pos |-> FALSE]) @@
    (Part1 :> [ais |-> TRUE, type |-> "1", pos |-> TRUE]) @@
    (Part2 :> [ais |-> TRUE, type |-> "none", pos |-> FALSE]) @@
    (Part3 :> [ais |-> TRUE, type |-> "none", pos |-> FALSE])
MCBodyXor ==
    (Gga :> {0}) @@ (Vdm :> {1}) @@ (Part1 :> {2}) @@ (Part2 :> {}) @@ (Part3 :> {3})

MCGroups == {"G"}
MCDatagrams ==
    {[g |-> "G", total |-> 2, i |-> 1, s |-> Part1],
     [g |-> "G", total |-> 2, i |-> 2, s |-> Part2],
     [g |-> "G", total |-> 3, i |-> 3, s |-> Part3],
     [g |-> "G", total |-> 0, i |-> 0, s |-> Gga]}
==============================================================================
