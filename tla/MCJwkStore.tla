----------------------------- MODULE MCJwkStore -----------------------------
(* Instance of JwkStore: two threads, two key identifiers. *)
EXTENDS JwkStore
=============================================================================
