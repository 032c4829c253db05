------------------------------ MODULE Verifiers -----------------------------
(***************************************************************************)
(* The two implementations of verify_evidence together, and what both owe  *)
(* to AttestationContext::attest_device, which goes on to the policy of    *)
(* the application after Ok and after OverallResultFalse alike.            *)
(***************************************************************************)
EXTENDS LocalVerifier, RemoteVerifier

vars == <<stage, call, outputs, local, remote>>

TypeOK ==
    /\ stage \in {"idle", "evidence", "report", "claims", "driver", "vbios", "measurements",
                  "eat", "request", "append", "done"}
    /\ CallTypeOK /\ LocalTypeOK /\ RemoteTypeOK

Init == CallInit /\ LocalInit /\ RemoteInit

\* A new call begins with nothing of an earlier one.
VerifyLocally ==
    /\ verify_evidence("evidence")
    /\ UNCHANGED <<local, remote>>

VerifyRemotely ==
    /\ verify_evidence("request")
    /\ UNCHANGED <<local, remote>>

\* The caller has used the results.
Return ==
    /\ stage = "done" /\ stage' = "idle"
    /\ device' = "gpu" /\ evidence' = <<>> /\ wantsEat' = FALSE
    /\ policy' = [verify_rim_signature |-> TRUE, verify_rim_cert_chain |-> TRUE]
    /\ out_claims' = <<>> /\ out_detached_eat' = NoEat /\ result' = "none"
    /\ report' = NoNonce /\ claims' = NoClaims /\ seen' = <<>>
    /\ response' = NoResponse /\ left' = {}

Next ==
    \/ VerifyLocally \/ VerifyRemotely \/ Return
    \/ LocalStep /\ UNCHANGED remote
    \/ RemoteStep /\ UNCHANGED local

Spec == Init /\ [][Next]_vars

-----------------------------------------------------------------------------
Locally == response = NoResponse
HasVerdict == stage = "done" /\ result \in Verified

\* Whenever the result is one that attest_device accepts, the claims are
\* complete: locally one for each piece of evidence, in its order and with its
\* nonce; remotely one for each device of the answer, although
\* OverallResultFalse is returned like an error and the loops have many exits.
ClaimsAreComplete ==
    HasVerdict =>
        IF Locally
        THEN /\ Len(out_claims) = Len(evidence)
             /\ \A i \in DOMAIN evidence : out_claims[i].nonce = evidence[i]
        ELSE \E order \in [DOMAIN out_claims -> DOMAIN response.tokens] :
                /\ {order[i] : i \in DOMAIN order} = DOMAIN response.tokens
                /\ Len(out_claims) = Cardinality(DOMAIN response.tokens)
                /\ \A i \in DOMAIN order : out_claims[i] = response.tokens[order[i]]

\* What Ok of a local verifier stands for: every report answers the nonce its
\* evidence was requested with, RIM documents have the version the report
\* names and, if the policy asks for it, a valid signature.  With a detached
\* EAT it also stands for measurements that really match and chains that
\* really are good, of one device at least.
LocallyBacked ==
    /\ \A i \in DOMAIN evidence :
          /\ seen[i].nonce = evidence[i]
          /\ Rims(device) \subseteq seen[i].version
          /\ policy.verify_rim_signature => Rims(device) \subseteq seen[i].signed
    /\ wantsEat => /\ evidence # <<>>
                   /\ \A i \in DOMAIN evidence : seen[i].match /\ Chains(device) \subseteq seen[i].good

\* What Ok of a remote verifier stands for: a signed positive result of the
\* service for the nonce of the first piece of evidence, and signed device
\* tokens in which it reports no error, or one the policy tells it to ignore.
RemotelyBacked ==
    /\ response.overall.signed /\ response.overall.result
    /\ response.overall.nonce = evidence[1]
    /\ response.overall.digests = response.tokens
    /\ \A k \in DOMAIN response.tokens :
          /\ response.tokens[k].signed
          /\ \/ response.tokens[k].code = "none"
             \/ response.tokens[k].code = "rimsignature" /\ ~policy.verify_rim_signature

\* Ok is backed by the documents (LocalGpuVerifier, LocalSwitchVerifier) or by
\* the tokens of the service (NvRemoteGpuVerifier, NvRemoteSwitchVerifier).
AcceptedIsBacked ==
    stage = "done" /\ result = "Ok" => IF Locally THEN LocallyBacked ELSE RemotelyBacked

\* A detached EAT is handed out exactly with a verdict and when one was asked
\* for; it says what the call returned, holds one token per claim, and one made
\* by get_detached_eat is accepted by validate_and_decode_EAT, except that of no
\* evidence, which has neither nonce nor devices.
EatIsFaithful ==
    stage = "done" =>
        /\ (out_detached_eat # NoEat) <=> (wantsEat /\ result \in Verified)
        /\ out_detached_eat # NoEat =>
              /\ out_detached_eat.overall.result <=> result = "Ok"
              /\ Cardinality(DOMAIN out_detached_eat.tokens) = Len(out_claims)
              /\ evidence # <<>> => ValidEat(out_detached_eat)

=============================================================================
