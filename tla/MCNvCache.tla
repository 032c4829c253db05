------------------------------ MODULE MCNvCache -----------------------------
(* Instance of NvCache for TLC. *)
EXTENDS NvCache
=============================================================================
