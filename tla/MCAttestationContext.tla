------------------------ MODULE MCAttestationContext ------------------------
(* Instances of AttestationContext for TLC. *)
EXTENDS AttestationContext
=============================================================================
