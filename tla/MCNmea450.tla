------------------------------ MODULE MCNmea450 ------------------------------
(***************************************************************************)
(* Three messages.  With a cleaner: two groups of three and of two lines   *)
(* that use the same id, and one sentence without a g: tag.  Without one,  *)
(* as in main.cpp, ids are used again at once; the third message is a      *)
(* group of two lines with an id of its own.                               *)
(***************************************************************************)
EXTENDS Nmea450Traffic

MCMessages  == 1 .. 3
MCGroups    == {"AI01_9999", "AI02_9999"}
MCSentences == {<<1, 1>>, <<1, 2>>, <<1, 3>>, <<2, 1>>, <<2, 2>>, <<3, 1>>, <<3, 2>>}
MCBodyXor   == [s \in MCSentences |-> {s[2], s[2] + s[1]}]

Cleaned ==
    [groupOf |-> [m \in MCMessages |-> "AI01_9999"], linesOf |-> <<3, 2, 0>>,
     cleaner |-> TRUE, cleanPeriod |-> 2, reuseGap |-> 6, lineGap |-> 3,
     losses |-> 2, copies |-> 2]
AsInMain ==
    [groupOf |-> <<"AI01_9999", "AI01_9999", "AI02_9999">>, linesOf |-> <<3, 2, 2>>,
     cleaner |-> FALSE, cleanPeriod |-> 1, reuseGap |-> 0, lineGap |-> 1,
     losses |-> 1, copies |-> 2]

MCDeployments == {Cleaned, AsInMain}
Hasty    == {[Cleaned EXCEPT !.reuseGap = 1, !.losses = 1, !.copies = 0]}
Lossless == {[Cleaned EXCEPT !.losses = 0, !.copies = 0]}
==============================================================================
