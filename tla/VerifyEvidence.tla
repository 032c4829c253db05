--------------------------- MODULE VerifyEvidence ---------------------------
(***************************************************************************)
(* verify_evidence, the call that IGpuVerifier and ISwitchVerifier stand   *)
(* for, and the detached EAT it hands out.  LocalVerifier and              *)
(* RemoteVerifier implement it.                                            *)
(*                                                                         *)
(* A piece of evidence is represented by the nonce it was collected with;  *)
(* what else is in it is chosen when the code looks at it.  A digest is    *)
(* the token itself.                                                       *)
(***************************************************************************)
EXTENDS Integers, Sequences, FiniteSets

CONSTANTS
    Nonces,
    NoNonce,
    MaxEvidence,        \* bound on the pieces of evidence of a call
    NoEat

ASSUME VerifyEvidenceConstants == NoNonce \notin Nonces /\ MaxEvidence \in Nat

VARIABLES
    stage,              \* where the call is
    device,             \* which of the two interfaces
    evidence,
    policy,             \* EvidencePolicy
    wantsEat,           \* out_detached_eat is not null
    out_claims,
    out_detached_eat,
    result

call == <<device, evidence, policy, wantsEat>>
outputs == <<out_claims, out_detached_eat, result>>

DeviceTypes == {"gpu", "switch"}
Policies == [verify_rim_signature : BOOLEAN, verify_rim_cert_chain : BOOLEAN]
Evidences == UNION {[1..n -> Nonces] : n \in 0..MaxEvidence}

\* The two results after which attest_device goes on to the claims.
Verified == {"Ok", "OverallResultFalse"}
Errors == {"BadArgument", "InternalError", "InvalidSignature", "NonceMismatch",
           "FwidMismatch", "CertChainVerificationFailure", "RimVersionMismatch",
           "RimInvalidSignature", "RimMeasurementConflict", "HttpError",
           "NrasForbidden", "NrasAttestationError", "NrasTokenInvalid"}

CallTypeOK ==
    /\ device \in DeviceTypes /\ evidence \in Evidences
    /\ policy \in Policies /\ wantsEat \in BOOLEAN
    /\ result \in {"none"} \cup Verified \cup Errors
    /\ Len(out_claims) <= MaxEvidence

CallInit ==
    /\ stage = "idle"
    /\ device = "gpu" /\ evidence = <<>> /\ wantsEat = FALSE
    /\ policy = [verify_rim_signature |-> TRUE, verify_rim_cert_chain |-> TRUE]
    /\ out_claims = <<>> /\ out_detached_eat = NoEat /\ result = "none"

\* The caller (attest_gpus, attest_switches) passes empty claims.
verify_evidence(first) ==
    /\ stage = "idle" /\ stage' = first
    /\ device' \in DeviceTypes /\ evidence' \in Evidences
    /\ policy' \in Policies /\ wantsEat' \in BOOLEAN
    /\ out_claims' = <<>> /\ out_detached_eat' = NoEat /\ result' = "none"

\* An early return leaves the claims as they are.
ReturnWith(error) ==
    /\ stage' = "done" /\ result' = error
    /\ UNCHANGED <<call, out_claims, out_detached_eat>>

-----------------------------------------------------------------------------
\* validate_and_decode_EAT, of what it is called with: an overall token with
\* a nonce, and the device tokens exactly as the overall token lists them.
\* (For whether each token is signed, see RemoteVerifier.)
ValidEat(eat) ==
    /\ eat.overall.nonce # NoNonce
    /\ \A k \in DOMAIN eat.overall.digests :
          /\ k \in DOMAIN eat.tokens
          /\ eat.tokens[k] = eat.overall.digests[k]
    /\ Cardinality(DOMAIN eat.overall.digests) = Cardinality(DOMAIN eat.tokens)

=============================================================================
