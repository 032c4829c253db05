---------------------------- MODULE MCCollectors ----------------------------
(* Instances of Collectors for TLC. *)
EXTENDS Collectors

CONSTANTS d1, d2
MCDevices == <<d1, d2>>
=============================================================================
