----------------------------- MODULE MCPipeline ------------------------------
(***************************************************************************)
(* Nine packets through a ring of four slots whose indices wrap after      *)
(* eight pushes: the ring fills up, and the ninth push uses a word of the  *)
(* second round.                                                           *)
(***************************************************************************)
EXTENDS Pipeline

CONSTANTS rmc, part1, part2

MCItems  == {rmc, part1, part2}
MCScript == <<rmc, part1, part2, rmc, part1, rmc, part1, part2, rmc>>
==============================================================================
