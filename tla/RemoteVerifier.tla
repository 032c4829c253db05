--------------------------- MODULE RemoteVerifier ---------------------------
(***************************************************************************)
(* NvRemoteGpuVerifier and NvRemoteSwitchVerifier: verify_evidence through *)
(* NRAS.  The service is external: it may answer anything.  A token is     *)
(* reduced to whether NvJwt accepts it (issuer, key, signature) and to the *)
(* error code among its claims, "none" if there is none.                   *)
(***************************************************************************)
EXTENDS VerifyEvidence

CONSTANTS
    Submodules,         \* device names in answers of the service
    NoResponse

VARIABLES
    response,           \* attest_response
    left                \* the items of claims still to be visited

remote == <<response, left>>

ErrorCodes == {"none", "nonce", "chain", "signature", "rimsignature", "other"}
Tokens == [signed : BOOLEAN, code : ErrorCodes]
TokenMaps == UNION {[S -> Tokens] : S \in SUBSET Submodules}

Overalls == [signed : BOOLEAN, nonce : Nonces \cup {NoNonce}, result : BOOLEAN, digests : TokenMaps]
Responses == [overall : Overalls, tokens : TokenMaps]

ASSUME RemoteVerifierConstants ==
    IsFiniteSet(Submodules) /\ NoEat \notin Responses /\ NoResponse \notin Responses

\* NvJwt::validate_and_decode of the overall token and of those it lists.
Signed(eat) ==
    /\ eat.overall.signed
    /\ \A k \in DOMAIN eat.overall.digests : eat.tokens[k].signed

\* The answers that validate_and_decode_EAT accepts.
ValidResponses == {r \in Responses : ValidEat(r) /\ Signed(r)}

RemoteTypeOK ==
    /\ response = NoResponse \/ response \in Responses
    /\ left \subseteq Submodules

RemoteInit == response = NoResponse /\ left = {}

RemoteFail(errors) == \E e \in errors : ReturnWith(e) /\ UNCHANGED remote

-----------------------------------------------------------------------------
\* The nonce of the request is that of the first piece of evidence.
EatNonceMatches(eat) == eat.overall.nonce = evidence[1]

\* From the request to the start of the loop over the claims.
RequestAttestation ==
    /\ stage = "request"
    /\ \/ evidence = <<>> /\ RemoteFail({"BadArgument"})
       \/ evidence # <<>> /\ RemoteFail({"InternalError", "HttpError", "NrasForbidden",
                                         "NrasAttestationError", "NrasTokenInvalid"})
       \/ /\ evidence # <<>>
          /\ \E eat \in ValidResponses :
                /\ EatNonceMatches(eat)
                /\ response' = eat
                /\ left' = DOMAIN eat.overall.digests
          /\ out_claims' = <<>>
          /\ stage' = "append"
          /\ UNCHANGED <<call, out_detached_eat, result>>

handle_nras_error_claim(code) ==
    CASE code = "none" -> "Ok"
      [] code = "nonce" -> "NonceMismatch"
      [] code = "chain" -> "CertChainVerificationFailure"
      [] code = "signature" -> "InvalidSignature"
      [] code = "rimsignature" -> IF policy.verify_rim_signature THEN "RimInvalidSignature" ELSE "Ok"
      [] OTHER -> "InternalError"

\* One item of the unordered map.
AppendClaims ==
    /\ stage = "append"
    /\ \E k \in left :
          LET error == handle_nras_error_claim(response.tokens[k].code)
          IN  \/ /\ error = "Ok"
                 /\ out_claims' = Append(out_claims, response.tokens[k])
                 /\ left' = left \ {k}
                 /\ UNCHANGED <<call, stage, out_detached_eat, result, response>>
              \/ RemoteFail({IF error = "Ok" THEN "InternalError" ELSE error})

\* Variation: the result is returned before the loop is done.
FinishEarly ==
    /\ stage = "append" /\ stage' = "done"
    /\ out_detached_eat' = IF wantsEat THEN response ELSE NoEat
    /\ result' = IF response.overall.result THEN "Ok" ELSE "OverallResultFalse"
    /\ UNCHANGED <<call, out_claims, remote>>

Finish ==
    /\ stage = "append" /\ left = {} /\ stage' = "done"
    /\ out_detached_eat' = IF wantsEat THEN response ELSE NoEat
    /\ result' = IF response.overall.result THEN "Ok" ELSE "OverallResultFalse"
    /\ UNCHANGED <<call, out_claims, remote>>

RemoteStep == RequestAttestation \/ AppendClaims \/ Finish

=============================================================================
