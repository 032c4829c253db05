----------------------------- MODULE OcspChain ------------------------------
(***************************************************************************)
(* Revocation claims for one certificate chain:                            *)
(* X509CertChain::verify and generate_ocsp_claims_for_path (nv_x509.cpp),  *)
(* the two clients that answer for a certificate (NvHttpOcspClient and     *)
(* RawProofOcspClient, nv_ocsp.cpp), and the rules of the overall-result   *)
(* policy about one chain (claims_evaluator.cpp).                          *)
(*                                                                         *)
(* Certificates are the levels 0..Root of one hierarchy: level c is issued *)
(* by c + 1 and Root is the trust anchor.  A presented chain is any        *)
(* sequence of them, so certificates may be missing, repeated or           *)
(* reordered.  Signatures and DER are external: a proof whose signature is *)
(* wrong is a failing client.                                              *)
(***************************************************************************)
EXTENDS OcspValidity, Sequences, FiniteSetsExt

CONSTANTS
    Root,
    MaxChain,            \* bound on the length of a presented chain
    Issued,              \* thisUpdate of a response
    FutureTolerance,     \* FUTURE_TOLERANCE_SECONDS
    MaxSignedAge,        \* MAX_SIGNED_AGE_SECONDS
    VerificationTimes,   \* m_verification_time of a RawProofOcspClient
    NoReason

ASSUME OcspChainConstants ==
    /\ Root \in Nat /\ MaxChain \in Nat
    /\ Issued \subseteq Nat \ {0} /\ VerificationTimes \subseteq Nat
    /\ FutureTolerance \in Nat /\ MaxSignedAge \in Nat

VARIABLES
    pc, type, presented, expired, client, verificationTime,
    subject_idx, claims, result,
    asked,               \* what was asked so far, with the answers (history)
    accepted             \* the policy's verdict on the chain

vars == <<pc, type, presented, expired, client, verificationTime,
          subject_idx, claims, result, asked, accepted>>
call == <<type, presented, expired, client, verificationTime>>

Statuses == {"GOOD", "REVOKED", "UNKOWN"}
Clients == {"http", "proofs", "any"}
Chains == UNION {[1..n -> 0..Root] : n \in 1..MaxChain}

\* OCSPClaims() of nv_x509.h.
NoClaims == [status |-> "UNDEFINED", revocation_reason |-> NoReason,
             nonce_matches |-> FALSE, ocsp_response_valid |-> FALSE,
             ocsp_resp_expiration_time |-> 0, signed_age |-> FALSE,
             verification_time |-> 0, status_deadline |-> 0,
             oldest_this_update |-> 0, covered_certificates |-> 0]

TypeOK ==
    /\ pc \in {"idle", "verify", "ask", "returned", "judged"}
    /\ type \in {"identity", "rim"} /\ presented \in Chains
    /\ expired \in BOOLEAN /\ accepted \in BOOLEAN
    /\ client \in Clients /\ verificationTime \in VerificationTimes
    /\ subject_idx \in -1..MaxChain
    /\ DOMAIN claims = DOMAIN NoClaims
    /\ claims.status \in Statuses \cup {"UNDEFINED"}
    /\ claims.revocation_reason \in 0..Root \cup {NoReason}
    /\ claims.covered_certificates = Len(asked) /\ Len(asked) <= Root
    /\ result \in {"Ok", "CertChainVerificationFailure", "OcspInvalidResponse", "ClientError"}

Init ==
    /\ pc = "idle" /\ type = "rim" /\ presented = <<Root>> /\ expired = FALSE
    /\ client = "http" /\ verificationTime = CHOOSE t \in VerificationTimes : TRUE
    /\ subject_idx = 0 /\ claims = NoClaims /\ result = "Ok"
    /\ asked = <<>> /\ accepted = FALSE

-----------------------------------------------------------------------------
\* What the clients answer about certificate c.

Response(c, status, this, next) ==
    [status |-> status, reason |-> c, thisupd |-> this, nextupd |-> next,
     nonce_matches |-> FALSE, response_valid |-> TRUE, signed_age |-> FALSE,
     verification_time |-> 0, status_deadline |-> 0]

\* NvHttpOcspClient: the responder may or may not echo the nonce.
HttpResponse(c, status, this, validity, nonce) ==
    [Response(c, status, this, NextUpdate(this, validity)) EXCEPT !.nonce_matches = nonce]

HttpAnswers(c) ==
    {HttpResponse(c, s, u, v, n) :
        s \in Statuses, u \in Issued, v \in Validities, n \in BOOLEAN}

Deadline(this, next) == IF next < this + MaxSignedAge THEN next ELSE this + MaxSignedAge

\* Variation: a thisUpdate in the future is not looked at.
InWindowFromFuture(vt) ==
    {p \in Issued \X (Validities \ {NoNextUpdate}) :
        p[2] > 0 /\ vt < Deadline(p[1], p[1] + p[2])}

\* The proofs RawProofOcspClient takes at time vt: <<thisUpdate, validity>>.
InWindow(vt) ==
    {p \in Issued \X (Validities \ {NoNextUpdate}) :
        /\ p[2] > 0
        /\ p[1] - FutureTolerance <= vt
        /\ vt < Deadline(p[1], p[1] + p[2])}

\* RawProofOcspClient::get_ocsp_response.
ProofResponse(c, status, this, next, vt) ==
    [Response(c, status, this, next) EXCEPT
        !.signed_age = TRUE, !.verification_time = vt,
        !.status_deadline = Deadline(this, next)]

ProofAnswers(c, vt) ==
    {ProofResponse(c, s, p[1], p[1] + p[2], vt) : s \in Statuses, p \in InWindow(vt)}

\* Any other IOcspHttpClient, for instance one that falls back from the one
\* to the other, or that does not vouch for its answer.
AnyAnswers(c) ==
    LET real == HttpAnswers(c) \cup UNION {ProofAnswers(c, t) : t \in VerificationTimes}
    IN  real \cup {[r EXCEPT !.response_valid = FALSE] : r \in HttpAnswers(c)}
             \cup {[r EXCEPT !.nonce_matches = TRUE] : r \in real}

Answers(c) == CASE client = "http"   -> HttpAnswers(c)
                [] client = "proofs" -> ProofAnswers(c, verificationTime)
                [] client = "any"    -> AnyAnswers(c)

-----------------------------------------------------------------------------
\* The path X509_verify_cert builds from the first certificate, taking the
\* issuers from the rest of the chain and the anchor from the store
\* (external); no path is the empty sequence.
Path(chain) ==
    LET leaf == chain[1]
        pool == {chain[i] : i \in 2..Len(chain)}
    IN  IF (leaf + 1)..(Root - 1) \subseteq pool
        THEN [i \in 1..(Root - leaf + 1) |-> leaf + i - 1]
        ELSE <<>>

\* Variation: any chain from which a path can be built.
VerifyAnyPath(chain) == Path(chain) # <<>>

\* X509CertChain::verify: the presented chain has to be the built path.
verify(chain) == Path(chain) = chain

\* start_indx: the leaf of a device identity chain is not asked about.
start_indx == IF type = "identity" THEN 1 ELSE 0

Return(error) == pc' = "returned" /\ result' = error

\* generate_cert_chain_claims is called for a parsed chain.
Begin ==
    /\ pc = "idle"
    /\ type' \in {"identity", "rim"} /\ presented' \in Chains
    /\ expired' \in BOOLEAN /\ client' \in Clients
    /\ verificationTime' \in VerificationTimes
    /\ client' # "proofs" => verificationTime' = verificationTime
    /\ pc' = "verify"
    /\ UNCHANGED <<subject_idx, claims, result, asked, accepted>>

Verify ==
    /\ pc = "verify"
    /\ IF verify(presented)
       THEN /\ pc' = "ask" /\ subject_idx' = Len(presented) - 2
            /\ UNCHANGED result
       ELSE Return("CertChainVerificationFailure") /\ UNCHANGED subject_idx
    /\ UNCHANGED <<call, claims, asked, accepted>>

SmallerOf(a, b) == IF a < b THEN a ELSE b

\* "One chain is judged one way."
Consistent(c, r) ==
    /\ c.covered_certificates > 0 => c.signed_age = r.signed_age
    /\ r.signed_age => ~r.nonce_matches
    /\ r.signed_age /\ c.covered_certificates > 0 =>
           c.verification_time = r.verification_time

\* The claims after the first answer.
FirstClaims(c, r) ==
    [status                    |-> r.status,
     revocation_reason         |-> c.revocation_reason,
     nonce_matches             |-> r.nonce_matches,
     ocsp_response_valid       |-> r.response_valid,
     ocsp_resp_expiration_time |-> r.nextupd,
     signed_age                |-> r.signed_age,
     verification_time         |-> r.verification_time,
     status_deadline           |-> r.status_deadline,
     oldest_this_update        |-> IF r.signed_age THEN r.thisupd ELSE 0,
     covered_certificates      |-> 1]

\* Variation: the lowest certificate decides the status.
MoreLastWins(c, r) ==
    [c EXCEPT !.ocsp_response_valid = @ /\ r.response_valid,
              !.nonce_matches = @ /\ r.nonce_matches,
              !.status = r.status,
              !.signed_age = r.signed_age,
              !.status_deadline = SmallerOf(@, r.status_deadline),
              !.oldest_this_update = IF r.signed_age THEN SmallerOf(@, r.thisupd) ELSE @,
              !.covered_certificates = @ + 1,
              !.ocsp_resp_expiration_time = SmallerOf(@, r.nextupd)]

\* Variation: the deadline of the lowest certificate is kept.
MoreLastDeadline(c, r) ==
    [c EXCEPT !.ocsp_response_valid = @ /\ r.response_valid,
              !.nonce_matches = @ /\ r.nonce_matches,
              !.status = IF @ = "GOOD" THEN r.status ELSE @,
              !.status_deadline = r.status_deadline,
              !.oldest_this_update = r.thisupd,
              !.covered_certificates = @ + 1,
              !.ocsp_resp_expiration_time = SmallerOf(@, r.nextupd)]

\* ... and after a further one.
MoreClaims(c, r) ==
    [status                    |-> IF c.status = "GOOD" THEN r.status ELSE c.status,
     revocation_reason         |-> IF c.status = "GOOD" /\ r.status = "REVOKED"
                                   THEN r.reason ELSE c.revocation_reason,
     nonce_matches             |-> c.nonce_matches /\ r.nonce_matches,
     ocsp_response_valid       |-> c.ocsp_response_valid /\ r.response_valid,
     ocsp_resp_expiration_time |-> SmallerOf(c.ocsp_resp_expiration_time, r.nextupd),
     signed_age                |-> r.signed_age,
     verification_time         |-> c.verification_time,
     status_deadline           |-> SmallerOf(c.status_deadline, r.status_deadline),
     oldest_this_update        |-> IF r.signed_age THEN SmallerOf(c.oldest_this_update, r.thisupd)
                                                   ELSE c.oldest_this_update,
     covered_certificates      |-> c.covered_certificates + 1]

Merge(c, r) == IF c.covered_certificates = 0 THEN FirstClaims(c, r) ELSE MoreClaims(c, r)

\* One iteration of the loop from below the root down to start_indx.
Ask ==
    /\ pc = "ask" /\ subject_idx >= start_indx
    /\ LET subject == presented[subject_idx + 1]
           issuer  == presented[subject_idx + 2]
       IN  \E r \in Answers(subject) :
              IF Consistent(claims, r)
              THEN /\ claims' = Merge(claims, r)
                   /\ asked' = Append(asked, [subject |-> subject, issuer |-> issuer,
                                              response |-> r])
                   /\ subject_idx' = subject_idx - 1
                   /\ UNCHANGED <<pc, result>>
              ELSE /\ Return("OcspInvalidResponse")
                   /\ UNCHANGED <<claims, asked, subject_idx>>
    /\ UNCHANGED <<call, accepted>>

ClientFails ==
    /\ pc = "ask" /\ subject_idx >= start_indx
    /\ Return("ClientError")
    /\ UNCHANGED <<call, claims, asked, subject_idx, accepted>>

Finish ==
    /\ pc = "ask" /\ subject_idx < start_indx
    /\ Return("Ok")
    /\ UNCHANGED <<call, claims, asked, subject_idx, accepted>>

\* check_cert_chain_status_freshness; the signed-age object is serialised
\* only for a signed-age chain.
Fresh(c) ==
    \/ c.nonce_matches /\ ~c.signed_age
    \/ /\ ~c.nonce_matches /\ c.signed_age
       /\ c.covered_certificates > 0
       /\ c.status_deadline > c.verification_time

\* check_gpu_ar_cert_chain and its four siblings.
check_cert_chain(c) ==
    /\ ~expired
    /\ c.status = "GOOD"
    /\ c.ocsp_response_valid
    /\ Fresh(c)

\* Claims reach the policy only when generate_cert_chain_claims succeeded.
Judge ==
    /\ pc = "returned"
    /\ pc' = "judged"
    /\ accepted' = (result = "Ok" /\ check_cert_chain(claims))
    /\ UNCHANGED <<call, subject_idx, claims, result, asked>>

\* The next chain starts with new claims.
NextChain ==
    /\ pc = "judged"
    /\ pc' = "idle" /\ type' = "rim" /\ presented' = <<Root>> /\ expired' = FALSE
    /\ client' = "http" /\ verificationTime' = CHOOSE t \in VerificationTimes : TRUE
    /\ subject_idx' = 0 /\ claims' = NoClaims /\ result' = "Ok"
    /\ asked' = <<>> /\ accepted' = FALSE

Next == Begin \/ Verify \/ Ask \/ ClientFails \/ Finish \/ Judge \/ NextChain

Spec == Init /\ [][Next]_vars

-----------------------------------------------------------------------------
Complete == pc \in {"returned", "judged"} /\ result = "Ok"

Answer(i) == asked[i].response

\* The answers that decided, as sets over the whole chain.
Replies == {Answer(i) : i \in DOMAIN asked}

\* However the chain was presented, claims are produced only after every
\* certificate below the anchor, from the leaf (a device's own leaf excepted)
\* upwards, was asked about once, under the certificate that issued it.
EveryCertificateIsAsked ==
    Complete =>
        /\ [i \in DOMAIN asked |-> asked[i].subject] =
               [i \in 1..(IF Root > presented[1] + start_indx
                          THEN Root - presented[1] - start_indx ELSE 0) |-> Root - i]
        /\ \A i \in DOMAIN asked : asked[i].issuer = asked[i].subject + 1

\* The policy accepts a chain only if at least one certificate was checked,
\* each was GOOD in a valid response, and all were fresh in the same way: all
\* by nonce, or all by signed times around one verification time.
AcceptedIsGoodAndFresh ==
    accepted =>
        /\ Replies # {}
        /\ \A r \in Replies : r.status = "GOOD" /\ r.response_valid
        /\ \/ \A r \in Replies : r.nonce_matches /\ ~r.signed_age
           \/ \E t \in VerificationTimes : \A r \in Replies :
                 /\ r.signed_age /\ r.verification_time = t
                 /\ r.thisupd - FutureTolerance <= t
                 /\ t < r.nextupd /\ t < r.thisupd + MaxSignedAge

\* The reported status is that of the highest certificate that is not good
\* (the comment in the loop), and a reason, when there is one, is the reason
\* of that certificate.
HighestBadIsReported ==
    Complete /\ asked # <<>> =>
        LET bad == {i \in DOMAIN asked : Answer(i).status # "GOOD"}
        IN  IF bad = {}
            THEN claims.status = "GOOD" /\ claims.revocation_reason = NoReason
            ELSE /\ claims.status = Answer(Min(bad)).status
                 /\ claims.revocation_reason \in {NoReason, asked[Min(bad)].subject}

\* The times of the claims are the earliest of the chain: "We should take the
\* minimum expiration time of all OCSP responses in the chain" (the comment in
\* the loop, nv_x509.cpp:634).  The header has another account of the first of
\* them, "expiration time of the ocsp response of the last cert in the chain"
\* (nv_x509.h:106), which is not what the loop computes: the last answer, that
\* for the lowest certificate, counts only if it is the earliest.
EarliestTimesAreReported ==
    Complete /\ asked # <<>> =>
        /\ claims.ocsp_resp_expiration_time = Min({r.nextupd : r \in Replies})
        /\ claims.signed_age =>
              /\ claims.status_deadline = Min({Deadline(r.thisupd, r.nextupd) : r \in Replies})
              /\ claims.oldest_this_update = Min({r.thisupd : r \in Replies})

=============================================================================
