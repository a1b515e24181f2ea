---------------------------- MODULE MCGcService ------------------------------
(***************************************************************************)
(* GcService with two controllers and two starts (MCGcService.cfg); with   *)
(* two controllers and one start, the least in which a Start overtakes a   *)
(* Stop (MCGcServiceStop.cfg); and with one controller and a network       *)
(* thread that feeds the parser (MCGcServicePool.cfg).                     *)
(***************************************************************************)
EXTENDS GcService
==============================================================================
