------------------------- MODULE AttestationContext -------------------------
(***************************************************************************)
(* AttestationContext (attestation.cpp): the object an application         *)
(* configures and then calls attest_device on, any number of times and in  *)
(* any order.  ensure_init builds what the application did not supply (RIM *)
(* store, OCSP client, evidence source, verifier) from the settings of     *)
(* that moment and keeps it; setters have to discard what they outdate.    *)
(*                                                                         *)
(* A URL, key or option is a number, 0 the default.  An object remembers   *)
(* who made it and the settings it was made from.  Evidence sources are    *)
(* made or set, but never discarded, and are left out of the state.        *)
(***************************************************************************)
EXTENDS Integers

CONSTANTS
    Settings,           \* values of URLs, keys and options; 0 is the default
    HttpSettings,       \* values of HttpOptions
    null

ASSUME SettingsConstants == 0 \in Settings /\ 0 \in HttpSettings

Devices == {"gpu", "switch"}
Local == "Local"
Remote == "Remote"

VARIABLES
    device,                     \* m_gpu_enabled or m_switch_enabled
    m_default_verifier_type,
    m_default_http_options,
    m_default_rim_store_url, m_default_ocsp_url, m_default_nras_url,
    m_service_key, m_eat_options,
    m_default_rim_store, m_default_ocsp_client,
    m_verifier,                 \* m_gpu_verifier and m_switch_verifier
    m_claims_evaluator,         \* a relying party policy is set
    outcome                     \* of attest_device, until the next setter (history)

urls == <<m_default_rim_store_url, m_default_ocsp_url, m_default_nras_url>>
options == <<m_service_key, m_eat_options, m_default_http_options>>
made == <<m_default_rim_store, m_default_ocsp_client, m_verifier>>
chosen == <<device, m_default_verifier_type, m_claims_evaluator>>
vars == <<urls, options, made, chosen, outcome>>

-----------------------------------------------------------------------------
UserObject == [by |-> "user"]

\* A RIM store or OCSP client that ensure_init makes.
ClientFor(url) ==
    [by |-> "context", url |-> url, key |-> m_service_key, http |-> m_default_http_options]

Clients == [by : {"context"}, url : Settings, key : Settings, http : HttpSettings]

Verifiers ==
    [by : {"context"}, type : {Local}, rim : Clients \cup {UserObject},
     ocsp : Clients \cup {UserObject}, eat : Settings]
    \cup
    [by : {"context"}, type : {Remote}, url : Settings, key : Settings, http : HttpSettings]

Errors == {"Ok", "InitError", "EvidenceError", "VerifierError", "OverallResultFalse",
           "PolicyError", "RelyingPartyPolicyMismatch"}

Outcomes == [error : Errors, good : BOOLEAN, eat : BOOLEAN, accepted : BOOLEAN]

ASSUME NullIsNoObject == null \notin Clients \cup Verifiers \cup {UserObject} \cup Outcomes

TypeOK ==
    /\ device \in Devices
    /\ m_default_verifier_type \in {Local, Remote}
    /\ m_default_http_options \in HttpSettings
    /\ {m_default_rim_store_url, m_default_ocsp_url, m_default_nras_url} \subseteq Settings
    /\ m_service_key \in Settings /\ m_eat_options \in Settings
    /\ m_default_rim_store \in Clients \cup {UserObject, null}
    /\ m_default_ocsp_client \in Clients \cup {UserObject, null}
    /\ m_verifier \in [Devices -> Verifiers \cup {UserObject, null}]
    /\ m_claims_evaluator \in BOOLEAN
    /\ outcome \in Outcomes \cup {null}

NoVerifiers == [d \in Devices |-> null]

\* AttestationContext().
Init ==
    /\ device = "gpu"
    /\ m_default_verifier_type = Remote
    /\ m_default_http_options = 0
    /\ m_default_rim_store_url = 0 /\ m_default_ocsp_url = 0 /\ m_default_nras_url = 0
    /\ m_service_key = 0 /\ m_eat_options = 0
    /\ m_default_rim_store = null /\ m_default_ocsp_client = null
    /\ m_verifier = NoVerifiers
    /\ m_claims_evaluator = FALSE
    /\ outcome = null

-----------------------------------------------------------------------------
set_device_type(d) ==
    /\ device' = d
    /\ UNCHANGED <<urls, options, made, m_default_verifier_type,
                   m_claims_evaluator>>

set_verifier_type(type) ==
    /\ m_verifier' = IF type # m_default_verifier_type THEN NoVerifiers ELSE m_verifier
    /\ m_default_verifier_type' = type
    /\ UNCHANGED <<urls, options, m_default_rim_store, m_default_ocsp_client, device,
                   m_claims_evaluator>>

\* Discards nothing.
set_default_http_options(h) ==
    /\ m_default_http_options' = h
    /\ UNCHANGED <<urls, m_service_key, m_eat_options, made, chosen>>

set_default_rim_store_url(url) ==
    /\ m_default_rim_store_url' = url
    /\ m_default_rim_store' = null
    /\ m_verifier' = NoVerifiers
    /\ UNCHANGED <<m_default_ocsp_url, m_default_nras_url, options, m_default_ocsp_client,
                   chosen>>

set_default_ocsp_url(url) ==
    /\ m_default_ocsp_url' = url
    /\ m_default_ocsp_client' = null
    /\ m_verifier' = NoVerifiers
    /\ UNCHANGED <<m_default_rim_store_url, m_default_nras_url, options, m_default_rim_store,
                   chosen>>

set_default_nras_url(url) ==
    /\ m_default_nras_url' = url
    /\ m_verifier' = NoVerifiers
    /\ UNCHANGED <<m_default_rim_store_url, m_default_ocsp_url, options, m_default_rim_store,
                   m_default_ocsp_client, chosen>>

set_default_rim_store ==
    /\ m_default_rim_store' = UserObject
    /\ m_verifier' = NoVerifiers
    /\ UNCHANGED <<urls, options, m_default_ocsp_client, chosen>>

set_default_ocsp_client ==
    /\ m_default_ocsp_client' = UserObject
    /\ m_verifier' = NoVerifiers
    /\ UNCHANGED <<urls, options, m_default_rim_store, chosen>>

\* The policy itself is passed to the verifier with every call.
set_evidence_policy ==
    /\ m_verifier' = NoVerifiers
    /\ UNCHANGED <<urls, options, m_default_rim_store, m_default_ocsp_client, chosen>>

set_claims_evaluator(present) ==
    /\ m_claims_evaluator' = present
    /\ UNCHANGED <<urls, options, made, device, m_default_verifier_type>>

\* set_gpu_evidence_source and the JSON file variants, when the file is good.
set_evidence_source(d) ==
    d \in Devices /\ UNCHANGED <<urls, options, made, chosen>>

set_verifier(d) ==
    /\ m_verifier' = [m_verifier EXCEPT ![d] = UserObject]
    /\ UNCHANGED <<urls, options, m_default_rim_store, m_default_ocsp_client, chosen>>

set_detached_eat_options(e) ==
    /\ m_eat_options' = e
    /\ m_verifier' = NoVerifiers
    /\ UNCHANGED <<urls, m_service_key, m_default_http_options, m_default_rim_store,
                   m_default_ocsp_client, chosen>>

\* Variation: the clients made with the old key are kept.
ServiceKeyKeepsClients(key) ==
    /\ m_service_key' = key
    /\ m_verifier' = NoVerifiers
    /\ UNCHANGED <<urls, m_eat_options, m_default_http_options, m_default_rim_store,
                   m_default_ocsp_client, chosen>>

set_service_key(key) ==
    /\ m_service_key' = key
    /\ m_verifier' = NoVerifiers
    /\ m_default_rim_store' = null /\ m_default_ocsp_client' = null
    /\ UNCHANGED <<urls, m_eat_options, m_default_http_options, chosen>>

-----------------------------------------------------------------------------
OrElse(object, default) == IF object = null THEN default ELSE object

\* ensure_init: what is missing is made, in this order, and kept.
RimStore == OrElse(m_default_rim_store, ClientFor(m_default_rim_store_url))
OcspClient == OrElse(m_default_ocsp_client, ClientFor(m_default_ocsp_url))

DefaultVerifier ==
    IF m_default_verifier_type = Local
    THEN [by |-> "context", type |-> Local, rim |-> RimStore, ocsp |-> OcspClient,
          eat |-> m_eat_options]
    ELSE [by |-> "context", type |-> Remote, url |-> m_default_nras_url,
          key |-> m_service_key, http |-> m_default_http_options]

Verifier == OrElse(m_verifier[device], DefaultVerifier)

ensure_init ==
    /\ m_default_rim_store' = RimStore
    /\ m_default_ocsp_client' = OcspClient
    /\ m_verifier' = [m_verifier EXCEPT ![device] = Verifier]

\* verify_evidence.  A local verifier evaluates the overall result only while
\* it writes a detached EAT; NRAS always reports it; a verifier of the
\* application may do either.
OverallErrors(good, eat) ==
    {e \in {"Ok", "OverallResultFalse"} :
        /\ e = "OverallResultFalse" => ~good
        /\ e = "Ok" => good \/ Verifier.by = "user" \/ (Verifier.type = Local /\ ~eat)}

\* Variation: a mismatch is logged only.
JudgeIgnoresMismatch(error, verdict) ==
    IF m_claims_evaluator /\ verdict = "error" THEN "PolicyError" ELSE error

\* The claims evaluator runs on every result, also on a false overall result.
Judge(error, verdict) ==
    CASE ~m_claims_evaluator -> error
      [] m_claims_evaluator /\ verdict = "match" -> "Ok"
      [] m_claims_evaluator /\ verdict = "mismatch" -> "RelyingPartyPolicyMismatch"
      [] m_claims_evaluator /\ verdict = "error" -> "PolicyError"

\* What only matters after Ok is not kept for an error.
Record(error, good, eat, accepted) ==
    outcome' = [error |-> error, good |-> good /\ error = "Ok", eat |-> eat /\ error = "Ok",
                accepted |-> accepted /\ error = "Ok"]

\* attest_device: evidence is collected, verified and judged.
attest_device(good, eat, verdict) ==
    /\ ensure_init
    /\ \/ \E error \in OverallErrors(good, eat) :
             Record(Judge(error, verdict), good, eat, m_claims_evaluator /\ verdict = "match")
       \/ \E error \in {"EvidenceError", "VerifierError"} : Record(error, good, eat, FALSE)
    /\ UNCHANGED <<urls, options, chosen>>

\* ... or ensure_init fails on the way: what it made so far stays.
InitFails ==
    /\ m_default_rim_store' \in {m_default_rim_store, RimStore}
    /\ m_default_ocsp_client' \in {m_default_ocsp_client} \cup
          (IF m_default_rim_store' = null THEN {} ELSE {OcspClient})
    /\ Record("InitError", FALSE, FALSE, FALSE)
    /\ UNCHANGED <<urls, options, chosen, m_verifier>>

Configure ==
    /\ \/ \E d \in Devices : set_device_type(d) \/ set_evidence_source(d) \/ set_verifier(d)
       \/ \E t \in {Local, Remote} : set_verifier_type(t)
       \/ \E h \in HttpSettings : set_default_http_options(h)
       \/ \E s \in Settings :
             \/ set_default_rim_store_url(s) \/ set_default_ocsp_url(s)
             \/ set_default_nras_url(s) \/ set_detached_eat_options(s) \/ set_service_key(s)
       \/ set_default_rim_store \/ set_default_ocsp_client \/ set_evidence_policy
       \/ \E b \in BOOLEAN : set_claims_evaluator(b)
    /\ outcome' = null

Next ==
    \/ Configure
    \/ \E good, eat \in BOOLEAN, v \in {"match", "mismatch", "error"} : attest_device(good, eat, v)
    \/ InitFails

Spec == Init /\ [][Next]_vars

-----------------------------------------------------------------------------
Current(client, url) ==
    client \in {null, UserObject} \/ (client.url = url /\ client.key = m_service_key)

\* Whatever was configured in whatever order between attestations, the
\* clients and verifiers that the context made and still holds reflect its
\* current URLs, service key, EAT options and verifier type, and a local
\* verifier uses the very RIM store and OCSP client of the context.  (HTTP
\* options are not part of it: changing them discards nothing.)
NothingOutdated ==
    /\ Current(m_default_rim_store, m_default_rim_store_url)
    /\ Current(m_default_ocsp_client, m_default_ocsp_url)
    /\ \A d \in Devices :
          LET v == m_verifier[d]
          IN  v \notin {null, UserObject} =>
                /\ v.type = m_default_verifier_type
                /\ v.type = Local => /\ v.rim = m_default_rim_store
                                     /\ v.ocsp = m_default_ocsp_client
                                     /\ v.eat = m_eat_options
                /\ v.type = Remote => v.url = m_default_nras_url /\ v.key = m_service_key

\* attest_device returns Ok under a relying party policy only if that policy
\* accepted the claims, and without one only if the overall result is true
\* wherever the verifier of the context computed it.
VerdictIsBacked ==
    outcome # null /\ outcome.error = "Ok" =>
        IF m_claims_evaluator THEN outcome.accepted
        ELSE \/ outcome.good \/ m_verifier[device] = UserObject
             \/ m_verifier[device].type = Local /\ ~outcome.eat

\* "NVAT_RC_OK if the system is trustworthy according to the RP policy (if RP
\* policy is not set, this indicates that the `x-nvidia-overall-result` claim
\* in the detached EAT is true)" (nvat.h.in), for the context's own verifiers.
OkMeansOverallResult ==
    outcome # null /\ outcome.error = "Ok" /\ ~m_claims_evaluator
        /\ m_verifier[device] # UserObject => outcome.good

=============================================================================
