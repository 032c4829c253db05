-------------------------- MODULE MCCachingClients --------------------------
(* Instances of CachingClients for TLC. *)
EXTENDS CachingClients, TLC

Symmetry == Permutations(Threads)
=============================================================================
