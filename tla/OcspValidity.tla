---------------------------- MODULE OcspValidity ----------------------------
(***************************************************************************)
(* How long an OCSP response is valid, as NvHttpOcspClient reads it        *)
(* (nv_ocsp.cpp): nextUpdate when the responder sends one, and otherwise a *)
(* default after thisUpdate.                                               *)
(***************************************************************************)
EXTENDS Integers

CONSTANTS
    Validities,          \* nextUpdate - thisUpdate, as the responder sets it
    NoNextUpdate,        \* a response without nextUpdate
    DefaultValidity      \* DEFAULT_NEXT_UPDATE_TTL_SECONDS

ASSUME OcspValidityConstants ==
    Validities \subseteq Nat \cup {NoNextUpdate} /\ DefaultValidity \in Nat

NextUpdate(thisupd, validity) ==
    thisupd + (IF validity = NoNextUpdate THEN DefaultValidity ELSE validity)

=============================================================================
