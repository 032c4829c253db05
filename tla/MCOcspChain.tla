---------------------------- MODULE MCOcspChain -----------------------------
(* Instance of OcspChain: a hierarchy of four levels. *)
EXTENDS OcspChain
=============================================================================
