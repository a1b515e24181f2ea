--------------------------- MODULE MCNetProcessor ----------------------------
(***************************************************************************)
(* Two clients.  The first sends an empty line and one of four bytes, one  *)
(* more than the limit and a '\n', and may come back to send two empty     *)
(* lines at once.  The second sends an empty line.                         *)
(***************************************************************************)
EXTENDS NetProcessor

CONSTANTS k1, k2

MCKeys   == {k1, k2}
MCScript ==
    [k \in MCKeys |->
        IF k = k1 THEN << [len |-> 5, ends |-> {1, 5}],
                          [len |-> 2, ends |-> {1, 2}] >>
                  ELSE << [len |-> 1, ends |-> {1}] >>]
==============================================================================
