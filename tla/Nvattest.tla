------------------------------ MODULE Nvattest ------------------------------
(***************************************************************************)
(* The command line tool of nv-attestation-cli.  An invocation parses and  *)
(* validates its options, starts the SDK and either collects evidence or   *)
(* configures one AttestationContext, option by option, and attests with   *)
(* it; then it shuts the SDK down, prints and returns the result code as   *)
(* its exit status.  The evidence that collect-evidence prints can be kept *)
(* in a file, merged with others, and attested by a later invocation.      *)
(*                                                                         *)
(* The other user of AttestationContext is an application that links the   *)
(* SDK and calls it in any order: the specification of that module.        *)
(*                                                                         *)
(* A setting is 0 (the default, nothing) or 1.  An evidence file is a set  *)
(* of entries, each with the name of an architecture and a nonce.          *)
(***************************************************************************)
EXTENDS AttestationContext

CONSTANTS
    Nonces,             \* the nonces in use
    AttestErrors,       \* codes with which nvat_attest_device fails
    BadNonce,           \* a --nonce that nvat_nonce_from_hex refuses
    malformed           \* the content of a file that is not an evidence list

VARIABLES
    build,              \* the program run; "verification-only": NVAT_VERIFICATION_ONLY
    pc,                 \* the next step of the process, or who uses the context
    argv,               \* what the command line and the environment say
    clients,            \* the RIM store, OCSP client and NRAS URL it has set
    evidence,           \* what was read from the file or collected, null before
    result,             \* result_code, null before
    printed,            \* the output has claims or evidence (--format json)
    file                \* the evidence file

process == <<argv, clients, evidence, result, printed>>
context == <<vars>>
cliVars == <<build, pc, process, file>>

-----------------------------------------------------------------------------
\* The values of nvat_rc_t.
NVAT_RC_OK == 0
NVAT_RC_INTERNAL_ERROR == 2
NVAT_RC_BAD_ARGUMENT == 4
NVAT_RC_ALLOC_FAILED == 5
NVAT_RC_FEATURE_NOT_ENABLED == 6
NVAT_RC_RP_POLICY_MISMATCH == 11
NVAT_RC_OVERALL_RESULT_FALSE == 12

nvat_rc_t ==
    (0 .. 7) \cup (10 .. 14) \cup (101 .. 108) \cup (201 .. 205) \cup {301}
    \cup (401 .. 405) \cup (500 .. 510) \cup (600 .. 608) \cup (700 .. 702) \cup (800 .. 802)

Verdicts == {NVAT_RC_OK, NVAT_RC_RP_POLICY_MISMATCH, NVAT_RC_OVERALL_RESULT_FALSE}

\* A call of the C API can always run out of memory; some refuse what they get.
ApiErrors == {NVAT_RC_BAD_ARGUMENT, NVAT_RC_ALLOC_FAILED}

ASSUME NvattestConstants ==
    /\ 1 \in HttpSettings
    /\ AttestErrors \subseteq nvat_rc_t \ Verdicts

\* CLI11's code for a ValidationError.
UsageError == 105

-----------------------------------------------------------------------------
Builds == {"full", "verification-only"}
Hardware == {"nvml", "corelib", "nscq"}

AttestLines ==
    [subcommand : {"attest"}, device : Devices, source : Hardware \cup {"file"},
     nonce : Nonces \cup {null, BadNonce}, verifier : {Local, Remote},
     rim_store : {"remote", "dir"}, policy : BOOLEAN,
     key : Settings,            \* --service-key
     ocsp_url : Settings,       \* --ocsp-url; 0 is the empty string
     nras_url : Settings,       \* --nras-url, likewise
     bundle : BOOLEAN,          \* --ocsp-proof-bundle
     time : {"none", "good"},   \* --ocsp-verification-time
     given : BOOLEAN]           \* a network option is on the command line itself

CollectLines ==
    [subcommand : {"collect-evidence"}, device : Devices, source : Hardware \cup {"file"},
     nonce : Nonces \cup {null, BadNonce}]

\* The members that the options' checks allow.
SourceExists(o) ==
    o.source \in (IF o.device = "gpu" THEN {"nvml", "corelib", "file"} ELSE {"nscq", "file"})

\* validate_evidence_collection_options: the file must exist.
CollectionIsValid(o) == SourceExists(o) /\ (o.source = "file" => file # null)

\* The callback of the attest subcommand.  Settings of the environment are
\* accepted in offline mode and have no effect there.
VerificationIsValid(o) ==
    IF o.bundle
    THEN o.time = "good" /\ o.verifier = Local /\ o.rim_store = "dir" /\ ~o.given
    ELSE o.time = "none"

IsValid(o) ==
    /\ CollectionIsValid(o)
    /\ o.subcommand = "attest" => VerificationIsValid(o)

requests_hardware_collection(o) ==
    \/ o.subcommand = "collect-evidence"
    \/ o.verifier # Local
    \/ o.source # "file"

-----------------------------------------------------------------------------
NoClients == [rim |-> null, ocsp |-> null, nras |-> null]

CliInit ==
    /\ Init
    /\ build = "full"
    /\ pc \in {"application", "idle"}
    /\ argv = null /\ clients = NoClients /\ evidence = null
    /\ result = null /\ printed = FALSE
    /\ file = null

\* Outside offline mode the callback also looks for a readable CA bundle.
NeedsCaBundle(o) == o.subcommand = "attest" /\ ~o.bundle

\* main of either build, up to the dispatch of the subcommand.  Once they are
\* valid, it is of no interest where options were given.
Start(o, b) ==
    /\ pc = "idle"
    /\ build' = b
    /\ evidence' = null /\ printed' = FALSE
    /\ \/ /\ ~IsValid(o) \/ NeedsCaBundle(o)
          /\ result' = UsageError /\ UNCHANGED <<pc, argv>>
       \/ /\ IsValid(o)
          /\ IF b = "verification-only" /\ requests_hardware_collection(o)
             THEN result' = NVAT_RC_FEATURE_NOT_ENABLED /\ UNCHANGED <<pc, argv>>
             ELSE /\ pc' = "init_sdk" /\ result' = null
                  /\ argv' = IF o.subcommand = "attest" THEN [o EXCEPT !.given = FALSE] ELSE o
    /\ UNCHANGED <<context, clients, file>>

\* return AttestOutput(err) or CollectEvidenceOutput(err); the handles are
\* freed and nvat_sdk_shutdown follows.
Return(rc) ==
    /\ result' = rc
    /\ pc' = "shutdown"

Fail(rc) ==
    /\ Return(rc)
    /\ UNCHANGED <<context, build, argv, clients, evidence, printed, file>>

CallFails == \E rc \in ApiErrors : Fail(rc)

\* A call that configures the context, and the step after it.
Configures(Setter, next) ==
    /\ Setter
    /\ outcome' = null
    /\ pc' = next
    /\ UNCHANGED <<build, argv, result, printed, file>>

Skips(next) ==
    /\ pc' = next
    /\ UNCHANGED <<context, build, process, file>>

offline_status == argv.bundle

\* init_sdk, and the check of the offline options that attest repeats.
InitSdk ==
    /\ pc = "init_sdk"
    /\ \/ CallFails
       \/ IF argv.subcommand = "collect-evidence" THEN Skips("collect nonce")
          ELSE IF offline_status /\ (argv.verifier # Local \/ argv.rim_store # "dir")
               THEN Fail(NVAT_RC_BAD_ARGUMENT)
               ELSE Skips("context")

-----------------------------------------------------------------------------
\* attest: the context is created, with HTTP options unless offline ...
CreateContext ==
    /\ pc = "context"
    /\ \/ CallFails
       \/ /\ Configures(IF offline_status THEN UNCHANGED <<urls, options, made, chosen>>
                        ELSE set_default_http_options(1), "policy")
          /\ UNCHANGED <<clients, evidence>>

SetEvidencePolicy ==
    /\ pc = "policy"
    /\ \/ CallFails
       \/ Configures(set_evidence_policy, "device") /\ UNCHANGED <<clients, evidence>>

SetDevice ==
    /\ pc = "device"
    /\ \/ CallFails
       \/ Configures(set_device_type(argv.device), "source") /\ UNCHANGED <<clients, evidence>>

-----------------------------------------------------------------------------
\* Evidence in JSON.  Of an entry only the architecture and the nonce matter
\* here; "Ampere" stands for the architectures without a name.
Architectures == {"Hopper", "Ampere"}

to_string(arch) == IF arch = "Hopper" THEN "HOPPER" ELSE "UNKNOWN"
from_string(name) == IF name = "HOPPER" THEN "Hopper" ELSE "Unknown"

to_json(items) == {[arch |-> to_string(e.arch), nonce |-> e.nonce] : e \in items}
from_json(entries) == {[arch |-> from_string(e.arch), nonce |-> e.nonce] : e \in entries}

\* collection_from_json: one entry that is not understood spoils the list.
IsEvidenceList(content) ==
    content # malformed /\ \A e \in content : from_string(e.arch) # "Unknown"

\* Variation: the nonce of some entry is the one given.
SomeNonceMatches(items, nonce) == items = {} \/ \E e \in items : e.nonce = nonce

\* get_evidence of a JSON source.  A generated nonce (null) is in no file.
NonceMatches(items, nonce) == \A e \in items : e.nonce = nonce

\* set_gpu_evidence_source_json_file or its switch variant; without it the
\* context collects with NVML or NSCQ.
SetSource ==
    /\ pc = "source"
    /\ \/ argv.source = "corelib" /\ Fail(NVAT_RC_BAD_ARGUMENT)
       \/ argv.source \in {"nvml", "nscq"} /\ Skips("key")
       \/ argv.source = "file" /\ CallFails
       \/ /\ argv.source = "file"
          /\ IF IsEvidenceList(file)
             THEN /\ Configures(set_evidence_source(argv.device), "key")
                  /\ evidence' = from_json(file)
                  /\ UNCHANGED clients
             ELSE Fail(NVAT_RC_INTERNAL_ERROR)

-----------------------------------------------------------------------------
\* Variation: the key is left to the stores and clients set later.
KeyForRemoteOnly ==
    /\ pc = "key"
    /\ IF argv.verifier = Local \/ argv.key = 0 THEN Skips("rim")
       ELSE \/ CallFails
            \/ Configures(set_service_key(argv.key), "rim") /\ UNCHANGED <<clients, evidence>>

\* Setting the key discards the clients of the context, so it comes first.
SetServiceKey ==
    /\ pc = "key"
    /\ IF offline_status \/ argv.key = 0 THEN Skips("rim")
       ELSE \/ CallFails
            \/ Configures(set_service_key(argv.key), "rim") /\ UNCHANGED <<clients, evidence>>

SetRimStore ==
    /\ pc = "rim"
    /\ IF argv.verifier # Local THEN Skips("ocsp")
       ELSE IF argv.rim_store = "remote" /\ offline_status THEN Fail(NVAT_RC_BAD_ARGUMENT)
       ELSE \/ CallFails
            \/ /\ Configures(set_default_rim_store, "ocsp")
               /\ clients' = [clients EXCEPT !.rim =
                     [kind |-> argv.rim_store,
                      key |-> IF argv.rim_store = "remote" THEN argv.key ELSE 0]]
               /\ UNCHANGED evidence

\* Variation: the URL decides before the bundle is looked at.
OcspUrlFirst ==
    /\ pc = "ocsp"
    /\ \/ CallFails
       \/ IF argv.ocsp_url # 0 \/ offline_status
          THEN /\ Configures(set_default_ocsp_client, "nras")
               /\ clients' = [clients EXCEPT !.ocsp =
                     IF argv.ocsp_url # 0 THEN [kind |-> "http", key |-> argv.key]
                     ELSE [kind |-> "proofs", key |-> 0]]
               /\ UNCHANGED evidence
          ELSE Skips("nras")

\* Offline, the bundle and the time are read and nvat_ocsp_client_create_raw_proofs
\* checks them; without a bundle and a URL the context makes its own client.
SetOcspClient ==
    /\ pc = "ocsp"
    /\ IF offline_status \/ argv.ocsp_url # 0
       THEN \/ CallFails
            \/ /\ Configures(set_default_ocsp_client, "nras")
               /\ clients' = [clients EXCEPT !.ocsp =
                     IF offline_status THEN [kind |-> "proofs", key |-> 0]
                     ELSE [kind |-> "http", key |-> argv.key]]
               /\ UNCHANGED evidence
       ELSE Skips("nras")

\* The URL of NRAS goes through the environment of the process; if the option
\* is empty, NVAT_NRAS_BASE_URL stays as it is.
SetNrasUrl ==
    /\ pc = "nras"
    /\ IF offline_status \/ argv.nras_url = 0 THEN Skips("relying party")
       ELSE /\ pc' = "relying party"
            /\ clients' = [clients EXCEPT !.nras = argv.nras_url]
            /\ UNCHANGED <<context, build, argv, evidence, result, printed, file>>

\* set_relying_party_policy: the file is read and handed to the Rego engine.
SetRelyingPartyPolicy ==
    /\ pc = "relying party"
    /\ IF argv.policy
       THEN \/ CallFails
            \/ Configures(set_claims_evaluator(TRUE), "verifier") /\ UNCHANGED <<clients, evidence>>
       ELSE Skips("verifier")

SetVerifierType ==
    /\ pc = "verifier"
    /\ \/ CallFails
       \/ Configures(set_verifier_type(argv.verifier), "nonce") /\ UNCHANGED <<clients, evidence>>

ParseNonce ==
    /\ pc = "nonce"
    /\ IF argv.nonce = BadNonce THEN Fail(NVAT_RC_BAD_ARGUMENT) ELSE Skips("attest")

VerdictCode(error) ==
    CASE error = "Ok" -> NVAT_RC_OK
      [] error = "OverallResultFalse" -> NVAT_RC_OVERALL_RESULT_FALSE
      [] error = "RelyingPartyPolicyMismatch" -> NVAT_RC_RP_POLICY_MISMATCH

HasVerdict(error) == error \in {"Ok", "OverallResultFalse", "RelyingPartyPolicyMismatch"}

\* nvat_attest_device, with a pointer for the detached EAT.
AttestDevice ==
    /\ pc = "attest"
    /\ \/ InitFails
       \/ \E good \in BOOLEAN, v \in {"match", "mismatch", "error"} : attest_device(good, TRUE, v)
    /\ argv.source = "file" /\ ~NonceMatches(evidence, argv.nonce) =>
          outcome'.error \in {"InitError", "EvidenceError"}
    /\ IF HasVerdict(outcome'.error)
       THEN pc' = "serialize" /\ result' = VerdictCode(outcome'.error)
       ELSE \E rc \in AttestErrors : Return(rc)
    /\ UNCHANGED <<build, argv, clients, evidence, printed, file>>

\* Variation: the output is made from the code of the last call.
LastCodeCounts ==
    /\ pc = "serialize"
    /\ \E rc \in ApiErrors \cup {NVAT_RC_OK} : Fail(rc)

\* The output has the code of the attestation, unless serializing fails.
SerializeClaims ==
    /\ pc = "serialize"
    /\ CallFails \/ Fail(result)

-----------------------------------------------------------------------------
\* collect_evidence.
CollectNonce ==
    /\ pc = "collect nonce"
    /\ IF argv.nonce = BadNonce THEN Fail(NVAT_RC_BAD_ARGUMENT) ELSE Skips("create source")

CreateSource ==
    /\ pc = "create source"
    /\ \/ CallFails
       \/ IF argv.source # "file" THEN Skips("collect")
          ELSE IF IsEvidenceList(file)
               THEN /\ evidence' = from_json(file)
                    /\ pc' = "collect"
                    /\ UNCHANGED <<context, build, argv, clients, result, printed, file>>
               ELSE Fail(NVAT_RC_INTERNAL_ERROR)

\* Without --nonce a nonce is generated; it may be any.
CollectEvidence ==
    /\ pc = "collect"
    /\ \/ CallFails
       \/ /\ IF argv.source = "file"
             THEN NonceMatches(evidence, argv.nonce) /\ UNCHANGED evidence
             ELSE \E found \in SUBSET Architectures \ {{}}, n \in Nonces :
                     /\ argv.nonce \in {null, n}
                     /\ evidence' = {[arch |-> a, nonce |-> n] : a \in found}
          /\ Return(NVAT_RC_OK)
          /\ UNCHANGED <<context, build, argv, clients, printed, file>>

\* nvat_sdk_shutdown, the output of to_json and the end of the process.  A
\* behaviour ends with its first attestation; evidence is collected before.
Exit ==
    /\ pc = "shutdown"
    /\ pc' = IF argv.subcommand = "attest" THEN "exited" ELSE "idle"
    /\ printed' = (result \in (IF argv.subcommand = "attest" THEN Verdicts ELSE {NVAT_RC_OK}))
    /\ argv' = IF argv.subcommand = "attest" THEN argv ELSE null
    /\ UNCHANGED <<context, build, clients, evidence, result, file>>

\* The operator keeps the printed evidence, alone or with what the file has,
\* or the file is damaged.
Save ==
    /\ pc = "idle"
    /\ \/ printed /\ file' = to_json(evidence)
       \/ printed /\ file \notin {null, malformed} /\ file' = file \cup to_json(evidence)
       \/ file' = malformed
    /\ UNCHANGED <<context, build, pc, process>>

CliNext ==
    \/ pc = "application" /\ Next /\ UNCHANGED cliVars
    \/ /\ pc = "idle"
       /\ \E o \in AttestLines \cup CollectLines, b \in Builds : Start(o, b)
    \/ InitSdk \/ CreateContext \/ SetEvidencePolicy \/ SetDevice \/ SetSource
    \/ SetServiceKey \/ SetRimStore \/ SetOcspClient \/ SetNrasUrl
    \/ SetRelyingPartyPolicy \/ SetVerifierType \/ ParseNonce \/ AttestDevice
    \/ SerializeClaims \/ CollectNonce \/ CreateSource \/ CollectEvidence
    \/ Exit \/ Save

CliSpec == CliInit /\ [][CliNext]_<<context, cliVars>>

-----------------------------------------------------------------------------
\* The process has called attest_device, and the context could be set up.
Attested ==
    /\ pc \in {"serialize", "shutdown", "exited"}
    /\ outcome # null
    /\ outcome.error # "InitError"

\* What attest_device worked with is what the command line asked for: the
\* device, the verifier, the policy, and clients that carry the service key
\* and the configured HTTP options, whatever the order in which the steps of
\* attest configured them and whatever a setter discards.
AttestsAsAsked ==
    Attested /\ ~argv.bundle =>
        LET v == m_verifier[device]
        IN  /\ device = argv.device /\ m_claims_evaluator = argv.policy
            /\ v.by = "context" /\ v.type = argv.verifier
            /\ m_default_http_options = 1
            /\ v.type = Remote =>
                  /\ v.key = argv.key /\ v.http = 1
                  /\ clients.nras = IF argv.nras_url # 0 THEN argv.nras_url ELSE null
            /\ v.type = Local =>
                  /\ v.rim = UserObject /\ clients.rim.kind = argv.rim_store
                  /\ clients.rim.kind = "remote" => clients.rim.key = argv.key
                  /\ IF argv.ocsp_url # 0
                     THEN v.ocsp = UserObject /\ clients.ocsp = [kind |-> "http", key |-> argv.key]
                     ELSE v.ocsp = [by |-> "context", url |-> 0, key |-> argv.key, http |-> 1]

\* "offline status mode builds no HTTP-backed component at all" (attest.cpp):
\* the context verifies locally, with the RIM directory and the status proofs
\* of the command line, and has made no client of its own, whatever URL or
\* key the environment supplies.
OfflineIsOffline ==
    argv # null /\ argv.subcommand = "attest" /\ argv.bundle =>
        /\ m_default_rim_store \in {null, UserObject}
        /\ m_default_ocsp_client \in {null, UserObject}
        /\ clients.rim \in {null, [kind |-> "dir", key |-> 0]}
        /\ clients.ocsp \in {null, [kind |-> "proofs", key |-> 0]}
        /\ m_service_key = 0 /\ m_default_http_options = 0 /\ clients.nras = null
        /\ m_verifier[device] # null => m_verifier[device].type = Local

\* The exit status of an attestation, the low eight bits of the result code,
\* is zero exactly if attest_device accepted the device and its claims were
\* printed; claims are printed only for one of the three verdicts.
StatusTellsTheVerdict ==
    pc = "exited" =>
        /\ result \in nvat_rc_t
        /\ result % 256 = 0 <=> outcome # null /\ outcome.error = "Ok" /\ printed
        /\ printed => HasVerdict(outcome.error) /\ result = VerdictCode(outcome.error)

\* A verdict on evidence from a file is about evidence that was collected for
\* the nonce of this attestation, in every entry of a file that may have been
\* put together from several collections.
FileEvidenceHasTheNonce ==
    Attested /\ HasVerdict(outcome.error) /\ argv.source = "file" =>
        \A e \in evidence : e.nonce = argv.nonce /\ e.arch # "Unknown"

=============================================================================
