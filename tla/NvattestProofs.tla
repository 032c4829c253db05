--------------------------- MODULE NvattestProofs ---------------------------
(***************************************************************************)
(* The properties of AttestationContext for all settings, that is for any  *)
(* application and any number of URLs, keys and options; and what holds of *)
(* the command line tool for any nonces, settings and errors of an         *)
(* attestation.  The tool is one of the applications that                  *)
(* AttestationContext is about; what it asks of the context is followed    *)
(* step by step through attest.                                            *)
(***************************************************************************)
EXTENDS Nvattest, TLAPS

(* Any application.                                                        *)

\* A local verifier was built from clients that were there, and are kept.
LocalHasClients ==
    \A d \in Devices :
        m_verifier[d] \notin {null, UserObject} /\ m_verifier[d].type = Local =>
            m_default_rim_store # null /\ m_default_ocsp_client # null

IInv == TypeOK /\ NothingOutdated /\ LocalHasClients /\ VerdictIsBacked

\* The invariant holds of a new context.
LEMMA IInvInit == Init => IInv
BY SettingsConstants, NullIsNoObject, Zenon DEF Init, IInv, TypeOK, NothingOutdated, LocalHasClients,
   VerdictIsBacked, Current, Devices, Local, Remote, NoVerifiers

\* No setter leaves anything behind that it outdates.
LEMMA ConfigureKeeps == IInv /\ Configure => IInv'
<1> SUFFICES ASSUME IInv, Configure PROVE IInv'
  OBVIOUS
<1>0. outcome' = null
  BY DEF Configure
<1> USE <1>0, SettingsConstants, NullIsNoObject
    DEF IInv, TypeOK, Devices, Local, Remote, NoVerifiers, urls, options, made, chosen
<1>1. ASSUME NEW d \in Devices, set_device_type(d) PROVE IInv'
  BY <1>1 DEF set_device_type, NothingOutdated, LocalHasClients, VerdictIsBacked, Current
<1>2. ASSUME NEW d \in Devices, set_evidence_source(d) PROVE IInv'
  BY <1>2 DEF set_evidence_source, NothingOutdated, LocalHasClients, VerdictIsBacked, Current
<1>3. ASSUME NEW d \in Devices, set_verifier(d) PROVE IInv'
  BY <1>3 DEF set_verifier, NothingOutdated, LocalHasClients, VerdictIsBacked, Current
<1>4. ASSUME NEW type \in {Local, Remote}, set_verifier_type(type) PROVE IInv'
  BY <1>4 DEF set_verifier_type, NothingOutdated, LocalHasClients, VerdictIsBacked, Current
<1>5. ASSUME NEW h \in HttpSettings, set_default_http_options(h) PROVE IInv'
  BY <1>5 DEF set_default_http_options, NothingOutdated, LocalHasClients, VerdictIsBacked, Current
<1>6. ASSUME NEW s \in Settings, set_default_rim_store_url(s) PROVE IInv'
  BY <1>6 DEF set_default_rim_store_url, NothingOutdated, LocalHasClients, VerdictIsBacked, Current
<1>7. ASSUME NEW s \in Settings, set_default_ocsp_url(s) PROVE IInv'
  BY <1>7 DEF set_default_ocsp_url, NothingOutdated, LocalHasClients, VerdictIsBacked, Current
<1>8. ASSUME NEW s \in Settings, set_default_nras_url(s) PROVE IInv'
  BY <1>8 DEF set_default_nras_url, NothingOutdated, LocalHasClients, VerdictIsBacked, Current
<1>9. ASSUME NEW s \in Settings, set_detached_eat_options(s) PROVE IInv'
  BY <1>9 DEF set_detached_eat_options, NothingOutdated, LocalHasClients, VerdictIsBacked, Current
<1>10. ASSUME NEW s \in Settings, set_service_key(s) PROVE IInv'
  BY <1>10 DEF set_service_key, NothingOutdated, LocalHasClients, VerdictIsBacked, Current
<1>11. ASSUME set_default_rim_store PROVE IInv'
  BY <1>11 DEF set_default_rim_store, NothingOutdated, LocalHasClients, VerdictIsBacked, Current
<1>12. ASSUME set_default_ocsp_client PROVE IInv'
  BY <1>12 DEF set_default_ocsp_client, NothingOutdated, LocalHasClients, VerdictIsBacked, Current
<1>13. ASSUME set_evidence_policy PROVE IInv'
  BY <1>13 DEF set_evidence_policy, NothingOutdated, LocalHasClients, VerdictIsBacked, Current
<1>14. ASSUME NEW b \in BOOLEAN, set_claims_evaluator(b) PROVE IInv'
  BY <1>14 DEF set_claims_evaluator, NothingOutdated, LocalHasClients, VerdictIsBacked, Current
<1>15. QED
  BY <1>1, <1>2, <1>3, <1>4, <1>5, <1>6, <1>7, <1>8, <1>9, <1>10, <1>11, <1>12, <1>13, <1>14, Zenon DEF Configure

\* What ensure_init has in hand: objects, never null, of the current settings.
LEMMA EnsureInitMakes ==
    IInv => /\ RimStore \in Clients \cup {UserObject} /\ Current(RimStore, m_default_rim_store_url)
            /\ OcspClient \in Clients \cup {UserObject} /\ Current(OcspClient, m_default_ocsp_url)
            /\ Verifier \in Verifiers \cup {UserObject}
<1> SUFFICES ASSUME IInv PROVE /\ RimStore \in Clients \cup {UserObject}
                               /\ Current(RimStore, m_default_rim_store_url)
                               /\ OcspClient \in Clients \cup {UserObject}
                               /\ Current(OcspClient, m_default_ocsp_url)
                               /\ Verifier \in Verifiers \cup {UserObject}
  OBVIOUS
<1>1. /\ RimStore \in Clients \cup {UserObject}
      /\ Current(RimStore, m_default_rim_store_url)
  BY DEF IInv, TypeOK, NothingOutdated, RimStore, OrElse, ClientFor, Clients, Current
<1>2. /\ OcspClient \in Clients \cup {UserObject}
      /\ Current(OcspClient, m_default_ocsp_url)
  BY DEF IInv, TypeOK, NothingOutdated, OcspClient, OrElse, ClientFor, Clients, Current
<1>3. DefaultVerifier \in Verifiers
  BY <1>1, <1>2 DEF IInv, TypeOK, DefaultVerifier, Verifiers, Local, Remote
<1>4. Verifier \in Verifiers \cup {UserObject}
  BY <1>3 DEF IInv, TypeOK, Verifier, OrElse
<1>5. QED
  BY <1>1, <1>2, <1>4

\* attest_device leaves an outcome.
LEMMA AttestRecords ==
    ASSUME IInv, NEW good \in BOOLEAN, NEW eat \in BOOLEAN,
           NEW v \in {"match", "mismatch", "error"}, attest_device(good, eat, v)
    PROVE  outcome' \in Outcomes
<1>1. CASE \E error \in OverallErrors(good, eat) :
              Record(Judge(error, v), good, eat, m_claims_evaluator /\ v = "match")
  <2>1. PICK error \in OverallErrors(good, eat) :
              Record(Judge(error, v), good, eat, m_claims_evaluator /\ v = "match")
    BY <1>1
  <2>2. Judge(error, v) \in Errors
    BY DEF Judge, OverallErrors, Errors, IInv, TypeOK
  <2>3. QED
    BY <2>1, <2>2 DEF Record, Outcomes, IInv, TypeOK
<1>2. CASE \E error \in {"EvidenceError", "VerifierError"} : Record(error, good, eat, FALSE)
  BY <1>2 DEF Record, Outcomes, Errors
<1>3. QED
  BY <1>1, <1>2, Zenon DEF attest_device

\* attest_device keeps what it makes consistent, and its verdict is backed.
LEMMA AttestKeeps ==
    ASSUME IInv, NEW good \in BOOLEAN, NEW eat \in BOOLEAN,
           NEW v \in {"match", "mismatch", "error"}, attest_device(good, eat, v)
    PROVE  IInv'
<1>1. /\ RimStore \in Clients \cup {UserObject} /\ Current(RimStore, m_default_rim_store_url)
      /\ OcspClient \in Clients \cup {UserObject} /\ Current(OcspClient, m_default_ocsp_url)
      /\ Verifier \in Verifiers \cup {UserObject}
  BY EnsureInitMakes
<1>2. /\ m_default_rim_store' = RimStore /\ m_default_ocsp_client' = OcspClient
      /\ m_verifier' = [m_verifier EXCEPT ![device] = Verifier]
      /\ UNCHANGED <<urls, options, chosen>>
  BY DEF attest_device, ensure_init
<1>3. TypeOK'
  <2>1. outcome' \in Outcomes
    BY AttestRecords
  <2>2. QED
    BY <1>1, <1>2, <2>1 DEF IInv, TypeOK, urls, options, chosen
<1>4. NothingOutdated' /\ LocalHasClients'
  <2>1. /\ RimStore # null /\ OcspClient # null
        /\ m_default_rim_store # null => RimStore = m_default_rim_store
        /\ m_default_ocsp_client # null => OcspClient = m_default_ocsp_client
    BY <1>1, NullIsNoObject DEF RimStore, OcspClient, OrElse
  <2>2. LocalHasClients'
    BY <1>2, <2>1 DEF LocalHasClients
  <2>3. ASSUME NEW d \in Devices, m_verifier'[d] \notin {null, UserObject}
        PROVE  LET w == m_verifier'[d]
               IN  /\ w.type = m_default_verifier_type
                   /\ w.type = Local => /\ w.rim = RimStore /\ w.ocsp = OcspClient
                                        /\ w.eat = m_eat_options
                   /\ w.type = Remote => w.url = m_default_nras_url /\ w.key = m_service_key
    <3>1. CASE d # device \/ m_verifier[d] # null
      <4>1. m_verifier'[d] = m_verifier[d]
        BY <1>2, <3>1 DEF IInv, TypeOK, Verifier, OrElse
      <4>2. QED
        BY <2>1, <2>3, <4>1 DEF IInv, NothingOutdated, LocalHasClients
    <3>2. CASE d = device /\ m_verifier[d] = null
      <4>1. m_verifier'[d] = DefaultVerifier
        BY <1>2, <3>2 DEF IInv, TypeOK, Verifier, OrElse
      <4>2. QED
        BY <4>1 DEF DefaultVerifier, IInv, TypeOK, Local, Remote
    <3>3. QED
      BY <3>1, <3>2
  <2>4. QED
    BY <1>1, <1>2, <2>2, <2>3 DEF NothingOutdated, Current, urls, options, chosen
<1>5. VerdictIsBacked'
  <2>1. m_verifier'[device'] = Verifier /\ m_claims_evaluator' = m_claims_evaluator
    BY <1>2 DEF chosen, IInv, TypeOK
  <2>2. CASE \E error \in OverallErrors(good, eat) :
                Record(Judge(error, v), good, eat, m_claims_evaluator /\ v = "match")
    <3>1. PICK error \in OverallErrors(good, eat) :
                Record(Judge(error, v), good, eat, m_claims_evaluator /\ v = "match")
      BY <2>2
    <3>2. CASE m_claims_evaluator
      BY <2>1, <3>1, <3>2, Zenon DEF VerdictIsBacked, Record, Judge
    <3>3. CASE ~m_claims_evaluator
      <4>1. Judge(error, v) = error
        BY <3>3 DEF Judge
      <4>2. error = "Ok" => good \/ Verifier = UserObject \/ (Verifier.type = Local /\ ~eat)
        BY <1>1 DEF OverallErrors, Verifiers
      <4>3. QED
        BY <2>1, <3>1, <3>3, <4>1, <4>2 DEF VerdictIsBacked, Record
    <3>4. QED
      BY <3>2, <3>3
  <2>3. CASE \E error \in {"EvidenceError", "VerifierError"} : Record(error, good, eat, FALSE)
    BY <2>3 DEF VerdictIsBacked, Record
  <2>4. QED
    BY <2>2, <2>3, Zenon DEF attest_device
<1>6. QED
  BY <1>3, <1>4, <1>5 DEF IInv

\* ... also when ensure_init fails on the way.
LEMMA InitFailsKeeps == IInv /\ InitFails => IInv'
<1> SUFFICES ASSUME IInv, InitFails PROVE IInv'
  OBVIOUS
<1>1. /\ RimStore \in Clients \cup {UserObject} /\ Current(RimStore, m_default_rim_store_url)
      /\ OcspClient \in Clients \cup {UserObject} /\ Current(OcspClient, m_default_ocsp_url)
  BY EnsureInitMakes
<1>2. /\ m_default_rim_store' \in {m_default_rim_store, RimStore}
      /\ m_default_ocsp_client' \in {m_default_ocsp_client, OcspClient}
      /\ UNCHANGED <<urls, options, chosen, m_verifier>>
      /\ outcome' = [error |-> "InitError", good |-> FALSE, eat |-> FALSE, accepted |-> FALSE]
  BY Zenon DEF InitFails, Record
<1>3. TypeOK'
  BY <1>1, <1>2 DEF IInv, TypeOK, urls, options, chosen, Outcomes, Errors
<1>4. /\ m_default_rim_store # null => m_default_rim_store' = m_default_rim_store
      /\ m_default_ocsp_client # null => m_default_ocsp_client' = m_default_ocsp_client
  BY <1>2 DEF RimStore, OcspClient, OrElse
<1>5. NothingOutdated' /\ LocalHasClients'
  BY <1>1, <1>2, <1>4 DEF IInv, NothingOutdated, LocalHasClients, Current, urls, options, chosen
<1>6. VerdictIsBacked'
  BY <1>2 DEF VerdictIsBacked
<1>7. QED
  BY <1>3, <1>5, <1>6 DEF IInv

\* Every call of the application preserves the invariant.
LEMMA IInvNext == IInv /\ [Next]_vars => IInv'
<1>1. IInv /\ UNCHANGED vars => IInv'
  BY DEF vars, urls, options, made, chosen, IInv, TypeOK, NothingOutdated, LocalHasClients,
         VerdictIsBacked, Current
<1>2. QED
  BY <1>1, ConfigureKeeps, AttestKeeps, InitFailsKeeps DEF Next

\* NothingOutdated for all settings: whatever is configured between
\* attestations, the context keeps no client or verifier of older settings.
THEOREM NothingEverOutdated == Spec => []NothingOutdated
<1>1. IInv => NothingOutdated
  BY DEF IInv
<1>2. QED
  BY <1>1, IInvInit, IInvNext, PTL DEF Spec

\* VerdictIsBacked for all settings: Ok of attest_device is the word of the
\* relying party policy, or without one the overall result where it is known.
THEOREM VerdictAlwaysBacked == Spec => []VerdictIsBacked
<1>1. IInv => VerdictIsBacked
  BY DEF IInv
<1>2. QED
  BY <1>1, IInvInit, IInvNext, PTL DEF Spec

-----------------------------------------------------------------------------
(* The command line tool.                                                  *)

(* The labels after each call of attest, up to nvat_attest_device.         *)

AfterVerifier == {"nonce", "attest"}
AfterPolicy == AfterVerifier \cup {"verifier"}
AfterNras == AfterPolicy \cup {"relying party"}
AfterOcsp == AfterNras \cup {"nras"}
AfterRim == AfterOcsp \cup {"ocsp"}
AfterKey == AfterRim \cup {"rim"}
AfterSource == AfterKey \cup {"key"}
AfterDevice == AfterSource \cup {"source"}
AfterContext == AfterDevice \cup {"policy", "device"}
Collects == {"collect nonce", "create source", "collect"}
Preparing == AfterContext \cup Collects \cup {"idle", "init_sdk", "context"}
Ending == {"serialize", "shutdown", "exited"}

\* The command line fits what is being done.
ArgvInv ==
    /\ pc \in Preparing \cup Ending \cup {"application"}
    /\ pc \in {"application", "idle"} => argv = null
    /\ pc \in AfterContext \cup {"context", "serialize", "exited"} => argv \in AttestLines
    /\ pc \in Collects => argv \in CollectLines
    /\ pc \in {"init_sdk", "shutdown"} => argv \in AttestLines \cup CollectLines
    /\ pc \in AfterContext \cup {"context"} /\ argv.bundle =>
          argv.verifier = Local /\ argv.rim_store = "dir"

Untouched == pc \in Preparing \/ (pc = "shutdown" /\ argv.subcommand # "attest")

\* What the calls made so far have left in the context and in clients.
SetSoFar ==
    Untouched =>
        /\ m_default_ocsp_url = 0 /\ m_verifier = NoVerifiers /\ outcome = null
        /\ m_default_http_options = IF pc \in AfterContext /\ ~argv.bundle THEN 1 ELSE 0
        /\ pc \in AfterDevice => device = argv.device
        /\ m_service_key = IF pc \in AfterKey /\ ~argv.bundle THEN argv.key ELSE 0
        /\ IF pc \in AfterRim /\ argv.verifier = Local
           THEN /\ m_default_rim_store = UserObject
                /\ clients.rim = [kind |-> argv.rim_store,
                                  key |-> IF argv.rim_store = "remote" THEN argv.key ELSE 0]
           ELSE m_default_rim_store = null /\ clients.rim = null
        /\ IF pc \in AfterOcsp /\ (argv.bundle \/ argv.ocsp_url # 0)
           THEN /\ m_default_ocsp_client = UserObject
                /\ clients.ocsp = IF argv.bundle THEN [kind |-> "proofs", key |-> 0]
                                  ELSE [kind |-> "http", key |-> argv.key]
           ELSE m_default_ocsp_client = null /\ clients.ocsp = null
        /\ clients.nras = IF pc \in AfterNras /\ ~argv.bundle /\ argv.nras_url # 0
                          THEN argv.nras_url ELSE null
        /\ m_claims_evaluator = (pc \in AfterPolicy /\ argv.policy)
        /\ m_default_verifier_type = IF pc \in AfterVerifier THEN argv.verifier ELSE Remote

\* The shape of clients, and what a file of evidence becomes.
ClientsInv == clients = [rim |-> clients.rim, ocsp |-> clients.ocsp, nras |-> clients.nras]

EvidenceInv ==
    pc \in AfterSource /\ argv.source = "file" => \A e \in evidence : e.arch # "Unknown"

\* A code that stands for a verdict is the one of the outcome.
ResultInv ==
    /\ pc = "serialize" =>
          outcome # null /\ HasVerdict(outcome.error) /\ result = VerdictCode(outcome.error)
    /\ pc = "shutdown" /\ argv.subcommand = "attest" =>
          /\ result \in nvat_rc_t
          /\ result \in Verdicts => /\ outcome # null /\ HasVerdict(outcome.error)
                                    /\ result = VerdictCode(outcome.error)

CliInv ==
    /\ ArgvInv /\ SetSoFar /\ ClientsInv /\ EvidenceInv /\ ResultInv
    /\ OfflineIsOffline /\ AttestsAsAsked /\ FileEvidenceHasTheNonce /\ StatusTellsTheVerdict

-----------------------------------------------------------------------------
\* The tool starts with a new context.
LEMMA CliInvInit == CliInit => CliInv
<1> SUFFICES ASSUME CliInit PROVE CliInv
  OBVIOUS
<1> USE DEF CliInit, Init
<1>1. ArgvInv /\ ClientsInv /\ EvidenceInv /\ ResultInv
  BY Zenon DEF ArgvInv, ClientsInv, EvidenceInv, ResultInv, NoClients, Preparing, AfterContext,
     AfterDevice, AfterSource, AfterKey, AfterRim, AfterOcsp, AfterNras, AfterPolicy,
     AfterVerifier, Collects, Ending
<1>2. SetSoFar
  BY Zenon DEF SetSoFar, Untouched, NoClients, Preparing, AfterContext, AfterDevice, AfterSource,
     AfterKey, AfterRim, AfterOcsp, AfterNras, AfterPolicy, AfterVerifier, Collects, Remote
<1>3. OfflineIsOffline /\ AttestsAsAsked /\ FileEvidenceHasTheNonce /\ StatusTellsTheVerdict
  BY DEF OfflineIsOffline, AttestsAsAsked, FileEvidenceHasTheNonce, StatusTellsTheVerdict, Attested
<1>4. QED
  BY <1>1, <1>2, <1>3 DEF CliInv

\* A call that fails ends attest or collect_evidence with its code.
LEMMA FailKeeps ==
    ASSUME CliInv, pc \in Preparing \ {"idle"}, NEW rc \in nvat_rc_t \ Verdicts, Fail(rc)
    PROVE  CliInv'
<1> USE DEF Preparing, AfterContext, AfterDevice, AfterSource, AfterKey, AfterRim, AfterOcsp,
     AfterNras, AfterPolicy, AfterVerifier, Collects, Ending, Fail, Return
<1>1. ArgvInv' /\ ClientsInv' /\ EvidenceInv' /\ ResultInv'
  <2>1. argv \in AttestLines \cup CollectLines
    BY Zenon DEF CliInv, ArgvInv
  <2>2. ArgvInv'
    BY <2>1, Zenon DEF ArgvInv
  <2>3. ClientsInv' /\ EvidenceInv' /\ ResultInv'
    BY Zenon DEF CliInv, ClientsInv, EvidenceInv, ResultInv
  <2>4. QED
    BY <2>2, <2>3, Zenon
<1>2. UNCHANGED vars /\ argv' = argv /\ clients' = clients
  BY Zenon DEF context
<1>3. outcome = null /\ outcome' = null
  BY <1>2, Zenon DEF CliInv, SetSoFar, Untouched, vars
<1>4. SetSoFar'
  <2>1. SUFFICES ASSUME argv.subcommand # "attest" PROVE SetSoFar'
    BY <1>2, Zenon DEF SetSoFar, Untouched
  <2>2. pc \in Collects \cup {"init_sdk"}
    BY <2>1, Zenon DEF CliInv, ArgvInv, AttestLines
  <2>3. QED
    BY <1>2, <2>2, Zenon DEF CliInv, SetSoFar, Untouched, vars, urls, options, made, chosen
<1>5. OfflineIsOffline'
  BY <1>2, Zenon DEF CliInv, OfflineIsOffline, vars, urls, options, made, chosen
<1>6. AttestsAsAsked' /\ FileEvidenceHasTheNonce' /\ StatusTellsTheVerdict'
  BY <1>3, Zenon DEF AttestsAsAsked, FileEvidenceHasTheNonce, StatusTellsTheVerdict, Attested
<1>7. QED
  BY <1>1, <1>4, <1>5, <1>6, Zenon DEF CliInv

\* What is left to show of a state before nvat_attest_device.
PreparedInv == pc \in Preparing /\ ArgvInv /\ SetSoFar /\ ClientsInv /\ EvidenceInv

\* Before nvat_attest_device nothing more has to be shown.
LEMMA PreparedSuffices == IInv /\ PreparedInv => CliInv
<1> SUFFICES ASSUME IInv, PreparedInv PROVE CliInv
  OBVIOUS
<1> USE DEF PreparedInv, Preparing, AfterContext, AfterDevice, AfterSource, AfterKey, AfterRim,
     AfterOcsp, AfterNras, AfterPolicy, AfterVerifier, Collects
<1>1. ResultInv /\ AttestsAsAsked /\ FileEvidenceHasTheNonce /\ StatusTellsTheVerdict
  BY Zenon DEF ResultInv, AttestsAsAsked, FileEvidenceHasTheNonce, StatusTellsTheVerdict, Attested
<1>2. OfflineIsOffline
  <2> SUFFICES ASSUME argv # null, argv.subcommand = "attest", argv.bundle PROVE OfflineIsOffline
    BY Zenon DEF OfflineIsOffline
  <2>1. m_verifier[device] = null
    BY Zenon DEF SetSoFar, Untouched, NoVerifiers, IInv, TypeOK
  <2>2. pc \in AfterRim => argv.rim_store = "dir"
    BY Zenon DEF ArgvInv
  <2>3. QED
    BY <2>1, <2>2, Zenon DEF OfflineIsOffline, SetSoFar, Untouched
<1>3. QED
  BY <1>1, <1>2, Zenon DEF CliInv

\* Every call that configures the context, in the order attest makes them.
LEMMA PreparingKeeps ==
    ASSUME IInv, CliInv, InitSdk \/ CreateContext \/ SetEvidencePolicy \/ SetDevice \/ SetSource
                 \/ SetServiceKey \/ SetRimStore \/ SetOcspClient \/ SetNrasUrl
                 \/ SetRelyingPartyPolicy \/ SetVerifierType \/ ParseNonce \/ CollectNonce
                 \/ CreateSource
    PROVE  PreparedInv' \/ CliInv'
<1> USE DEF Preparing, AfterContext, AfterDevice, AfterSource, AfterKey, AfterRim,
     AfterOcsp, AfterNras, AfterPolicy, AfterVerifier, Collects
<1>1. /\ \A rc \in ApiErrors : rc \in nvat_rc_t \ Verdicts
      /\ NVAT_RC_INTERNAL_ERROR \in nvat_rc_t \ Verdicts
      /\ NVAT_RC_BAD_ARGUMENT \in nvat_rc_t \ Verdicts
  BY DEF ApiErrors, NVAT_RC_INTERNAL_ERROR, NVAT_RC_BAD_ARGUMENT, NVAT_RC_ALLOC_FAILED, nvat_rc_t,
     Verdicts, NVAT_RC_OK, NVAT_RC_RP_POLICY_MISMATCH, NVAT_RC_OVERALL_RESULT_FALSE
<1> DEFINE Fails == CallFails \/ Fail(NVAT_RC_INTERNAL_ERROR) \/ Fail(NVAT_RC_BAD_ARGUMENT)
<1>a. pc \in Preparing \ {"idle"}
  BY Zenon DEF InitSdk, CreateContext, SetEvidencePolicy, SetDevice, SetSource, SetServiceKey,
     SetRimStore, SetOcspClient, SetNrasUrl, SetRelyingPartyPolicy, SetVerifierType, ParseNonce,
     CollectNonce, CreateSource
<1>b. Fails => CliInv'
  BY <1>1, <1>a, FailKeeps, Zenon DEF CallFails
<1> SUFFICES ASSUME ~Fails PROVE PreparedInv'
  BY <1>b
<1> USE DEF CliInv, Skips, Configures, context, process, offline_status,
            vars, urls, options, made, chosen
<1>2. CASE InitSdk
  <2>1. pc' \in Preparing /\ ArgvInv' /\ ClientsInv'
    <3>1. /\ argv \in AttestLines => argv.subcommand = "attest"
          /\ argv \in CollectLines => argv.subcommand = "collect-evidence"
      BY DEF AttestLines, CollectLines
    <3>2. QED
      BY <1>2, <3>1, ZenonT(30) DEF InitSdk, ArgvInv, ClientsInv
  <2>2. SetSoFar'
    BY <1>2, ZenonT(40) DEF InitSdk, SetSoFar, Untouched, ArgvInv, ClientsInv
  <2>3. EvidenceInv'
    BY <1>2, Zenon DEF InitSdk, EvidenceInv
  <2>4. QED
    BY <2>1, <2>2, <2>3, Zenon DEF PreparedInv
<1>3. CASE CreateContext
  <2>1. pc' \in Preparing /\ ArgvInv' /\ ClientsInv'
    BY <1>3, Zenon DEF CreateContext, set_default_http_options, ArgvInv, ClientsInv
  <2>2. SetSoFar'
    BY <1>3, Zenon DEF CreateContext, set_default_http_options, SetSoFar, Untouched, ArgvInv,
       ClientsInv
  <2>3. EvidenceInv'
    BY <1>3, Zenon DEF CreateContext, set_default_http_options, EvidenceInv
  <2>4. QED
    BY <2>1, <2>2, <2>3, Zenon DEF PreparedInv
<1>4. CASE SetEvidencePolicy
  <2>1. pc' \in Preparing /\ ArgvInv' /\ ClientsInv'
    BY <1>4, Zenon DEF SetEvidencePolicy, set_evidence_policy, ArgvInv, ClientsInv
  <2>2. SetSoFar'
    BY <1>4, Zenon DEF SetEvidencePolicy, set_evidence_policy, SetSoFar, Untouched, ArgvInv,
       ClientsInv
  <2>3. EvidenceInv'
    BY <1>4, Zenon DEF SetEvidencePolicy, set_evidence_policy, EvidenceInv
  <2>4. QED
    BY <2>1, <2>2, <2>3, Zenon DEF PreparedInv
<1>5. CASE SetDevice
  <2>1. pc' \in Preparing /\ ArgvInv' /\ ClientsInv'
    BY <1>5, Zenon DEF SetDevice, set_device_type, ArgvInv, ClientsInv
  <2>2. SetSoFar'
    BY <1>5, Zenon DEF SetDevice, set_device_type, SetSoFar, Untouched, ArgvInv, ClientsInv
  <2>3. EvidenceInv'
    BY <1>5, Zenon DEF SetDevice, set_device_type, EvidenceInv
  <2>4. QED
    BY <2>1, <2>2, <2>3, Zenon DEF PreparedInv
<1>6. CASE SetSource
  <2>1. pc' \in Preparing /\ ArgvInv' /\ ClientsInv'
    BY <1>6, Zenon DEF SetSource, set_evidence_source, ArgvInv, ClientsInv
  <2>2. SetSoFar'
    BY <1>6, ZenonT(40) DEF SetSource, set_evidence_source, SetSoFar, Untouched, ArgvInv, ClientsInv
  <2>3. EvidenceInv'
    <3>1. CASE argv.source # "file"
      BY <1>6, <3>1, Zenon DEF SetSource, set_evidence_source, EvidenceInv
    <3>2. CASE argv.source = "file"
      <4>1. evidence' = from_json(file) /\ IsEvidenceList(file)
        BY <1>6, <3>2 DEF SetSource
      <4>2. ASSUME NEW e \in from_json(file) PROVE e.arch # "Unknown"
        <5>1. PICK f \in file : e = [arch |-> from_string(f.arch), nonce |-> f.nonce]
          BY DEF from_json
        <5>2. QED
          BY <4>1, <5>1 DEF IsEvidenceList
      <4>3. QED
        BY <4>1, <4>2, Zenon DEF EvidenceInv
    <3>3. QED
      BY <3>1, <3>2
  <2>4. QED
    BY <2>1, <2>2, <2>3, Zenon DEF PreparedInv
<1>7. CASE SetServiceKey
  <2>1. pc' \in Preparing /\ ArgvInv' /\ ClientsInv'
    BY <1>7, Zenon DEF SetServiceKey, set_service_key, ArgvInv, ClientsInv
  <2>2. SetSoFar'
    BY <1>7, ZenonT(40) DEF SetServiceKey, set_service_key, SetSoFar, Untouched, ArgvInv, ClientsInv
  <2>3. EvidenceInv'
    BY <1>7, Zenon DEF SetServiceKey, set_service_key, EvidenceInv
  <2>4. QED
    BY <2>1, <2>2, <2>3, Zenon DEF PreparedInv
<1>8. CASE SetRimStore
  <2>1. pc' \in Preparing /\ ArgvInv' /\ ClientsInv'
    BY <1>8, Zenon DEF SetRimStore, set_default_rim_store, ArgvInv, ClientsInv
  <2>2. SetSoFar'
    <3>1. CASE argv.verifier # Local
      BY <1>8, <3>1 DEF SetRimStore, SetSoFar, Untouched
    <3>2. CASE argv.verifier = Local
      <4>1. /\ clients'.ocsp = clients.ocsp /\ clients'.nras = clients.nras
            /\ clients'.rim = [kind |-> argv.rim_store,
                               key |-> IF argv.rim_store = "remote" THEN argv.key ELSE 0]
        BY <1>8, <3>2 DEF SetRimStore, ClientsInv
      <4>2. QED
        BY <1>8, <3>2, <4>1, Zenon DEF SetRimStore, set_default_rim_store, SetSoFar, Untouched
    <3>3. QED
      BY <3>1, <3>2
  <2>3. EvidenceInv'
    BY <1>8, Zenon DEF SetRimStore, set_default_rim_store, EvidenceInv
  <2>4. QED
    BY <2>1, <2>2, <2>3, Zenon DEF PreparedInv
<1>9. CASE SetOcspClient
  <2>1. pc' \in Preparing /\ ArgvInv' /\ ClientsInv'
    BY <1>9, ZenonT(40) DEF SetOcspClient, set_default_ocsp_client, ArgvInv, ClientsInv
  <2>2. SetSoFar'
    <3>1. CASE ~(argv.bundle \/ argv.ocsp_url # 0)
      BY <1>9, <3>1 DEF SetOcspClient, SetSoFar, Untouched
    <3>2. CASE argv.bundle \/ argv.ocsp_url # 0
      <4>1. /\ clients'.rim = clients.rim /\ clients'.nras = clients.nras
            /\ clients'.ocsp = IF argv.bundle THEN [kind |-> "proofs", key |-> 0]
                               ELSE [kind |-> "http", key |-> argv.key]
        BY <1>9, <3>2 DEF SetOcspClient, ClientsInv
      <4>2. QED
        BY <1>9, <3>2, <4>1, ZenonT(40) DEF SetOcspClient, set_default_ocsp_client, SetSoFar,
           Untouched
    <3>3. QED
      BY <3>1, <3>2
  <2>3. EvidenceInv'
    BY <1>9, Zenon DEF SetOcspClient, set_default_ocsp_client, EvidenceInv
  <2>4. QED
    BY <2>1, <2>2, <2>3, Zenon DEF PreparedInv
<1>10. CASE SetNrasUrl
  <2>1. pc' \in Preparing /\ ArgvInv' /\ ClientsInv'
    BY <1>10, Zenon DEF SetNrasUrl, ArgvInv, ClientsInv
  <2>2. SetSoFar'
    <3>1. CASE argv.bundle \/ argv.nras_url = 0
      BY <1>10, <3>1, Zenon DEF SetNrasUrl, SetSoFar, Untouched
    <3>2. CASE ~argv.bundle /\ argv.nras_url # 0
      <4>1. /\ clients'.rim = clients.rim /\ clients'.ocsp = clients.ocsp
            /\ clients'.nras = argv.nras_url
        BY <1>10, <3>2 DEF SetNrasUrl, ClientsInv
      <4>2. QED
        BY <1>10, <3>2, <4>1, Zenon DEF SetNrasUrl, SetSoFar, Untouched
    <3>3. QED
      BY <3>1, <3>2, Zenon
  <2>3. EvidenceInv'
    BY <1>10, Zenon DEF SetNrasUrl, EvidenceInv
  <2>4. QED
    BY <2>1, <2>2, <2>3, Zenon DEF PreparedInv
<1>11. CASE SetRelyingPartyPolicy
  <2>1. pc' \in Preparing /\ ArgvInv' /\ ClientsInv'
    BY <1>11, Zenon DEF SetRelyingPartyPolicy, set_claims_evaluator, ArgvInv, ClientsInv
  <2>2. SetSoFar'
    BY <1>11, ZenonT(30) DEF SetRelyingPartyPolicy, set_claims_evaluator, SetSoFar, Untouched,
       ArgvInv, ClientsInv
  <2>3. EvidenceInv'
    BY <1>11, Zenon DEF SetRelyingPartyPolicy, set_claims_evaluator, EvidenceInv
  <2>4. QED
    BY <2>1, <2>2, <2>3, Zenon DEF PreparedInv
<1>12. CASE SetVerifierType
  <2>1. pc' \in Preparing /\ ArgvInv' /\ ClientsInv'
    BY <1>12, Zenon DEF SetVerifierType, set_verifier_type, ArgvInv, ClientsInv
  <2>2. SetSoFar'
    BY <1>12, ZenonT(40) DEF SetVerifierType, set_verifier_type, SetSoFar, Untouched, ArgvInv,
       ClientsInv
  <2>3. EvidenceInv'
    BY <1>12, Zenon DEF SetVerifierType, set_verifier_type, EvidenceInv
  <2>4. QED
    BY <2>1, <2>2, <2>3, Zenon DEF PreparedInv
<1>13. CASE ParseNonce
  <2>1. pc' \in Preparing /\ ArgvInv' /\ ClientsInv'
    BY <1>13, Zenon DEF ParseNonce, ArgvInv, ClientsInv
  <2>2. SetSoFar'
    BY <1>13, Zenon DEF ParseNonce, SetSoFar, Untouched, ArgvInv, ClientsInv
  <2>3. EvidenceInv'
    BY <1>13, Zenon DEF ParseNonce, EvidenceInv
  <2>4. QED
    BY <2>1, <2>2, <2>3, Zenon DEF PreparedInv
<1>14. CASE CollectNonce
  <2>1. pc' \in Preparing /\ ArgvInv' /\ ClientsInv'
    BY <1>14, Zenon DEF CollectNonce, ArgvInv, ClientsInv
  <2>2. SetSoFar'
    BY <1>14, ZenonT(40) DEF CollectNonce, SetSoFar, Untouched, ArgvInv, ClientsInv
  <2>3. EvidenceInv'
    BY <1>14, Zenon DEF CollectNonce, EvidenceInv
  <2>4. QED
    BY <2>1, <2>2, <2>3, Zenon DEF PreparedInv
<1>15. CASE CreateSource
  <2>1. pc' \in Preparing /\ ArgvInv' /\ ClientsInv'
    BY <1>15, Zenon DEF CreateSource, ArgvInv, ClientsInv
  <2>2. SetSoFar'
    BY <1>15, ZenonT(30) DEF CreateSource, SetSoFar, Untouched, ArgvInv, ClientsInv
  <2>3. EvidenceInv'
    BY <1>15, Zenon DEF CreateSource, EvidenceInv
  <2>4. QED
    BY <2>1, <2>2, <2>3, Zenon DEF PreparedInv
<1>16. QED
  BY <1>2, <1>3, <1>4, <1>5, <1>6, <1>7, <1>8, <1>9, <1>10, <1>11, <1>12, <1>13, <1>14, <1>15

\* nvat_attest_device, with what the calls before it have set.
LEMMA AttestDeviceKeeps == ASSUME IInv, IInv', CliInv, AttestDevice PROVE CliInv'
<1> USE DEF AfterContext, AfterDevice, AfterSource, AfterKey, AfterRim, AfterOcsp, AfterNras,
     AfterPolicy, AfterVerifier
<1>1. /\ pc = "attest" /\ pc' \in {"serialize", "shutdown"} /\ argv \in AttestLines
      /\ UNCHANGED <<argv, clients, evidence, urls, options, chosen>>
  BY Zenon DEF AttestDevice, InitFails, attest_device, Return, CliInv, ArgvInv
<1>2. argv.subcommand = "attest" /\ argv.bundle \in BOOLEAN
  BY <1>1, ZenonT(30) DEF AttestLines
<1>3. /\ m_default_ocsp_url = 0 /\ m_verifier = NoVerifiers /\ device = argv.device
      /\ m_default_http_options = IF ~argv.bundle THEN 1 ELSE 0
      /\ m_service_key = IF ~argv.bundle THEN argv.key ELSE 0
      /\ m_default_verifier_type = argv.verifier /\ m_claims_evaluator = argv.policy
      /\ clients.nras = IF ~argv.bundle /\ argv.nras_url # 0 THEN argv.nras_url ELSE null
      /\ argv.bundle => argv.verifier = Local /\ argv.rim_store = "dir"
  BY <1>1, ZenonT(30) DEF CliInv, SetSoFar, Untouched, Preparing, ArgvInv, AttestLines
<1>4. /\ argv.verifier = Local => /\ m_default_rim_store = UserObject
                                  /\ clients.rim = [kind |-> argv.rim_store,
                                        key |-> IF argv.rim_store = "remote" THEN argv.key ELSE 0]
      /\ argv.verifier # Local => clients.rim = null /\ m_default_rim_store = null
  BY <1>1 DEF CliInv, SetSoFar, Untouched, Preparing
<1>5. IF argv.bundle \/ argv.ocsp_url # 0
      THEN /\ m_default_ocsp_client = UserObject
           /\ clients.ocsp = IF argv.bundle THEN [kind |-> "proofs", key |-> 0]
                             ELSE [kind |-> "http", key |-> argv.key]
      ELSE m_default_ocsp_client = null /\ clients.ocsp = null
  BY <1>1 DEF CliInv, SetSoFar, Untouched, Preparing
<1>6. device \in Devices /\ m_verifier \in [Devices -> Verifiers \cup {UserObject, null}]
  BY DEF IInv, TypeOK
<1>7. m_verifier[device] = null
  BY <1>3, <1>6 DEF NoVerifiers
<1>8. UserObject # null
  BY NullIsNoObject
<1>9. ArgvInv' /\ ClientsInv' /\ EvidenceInv' /\ SetSoFar' /\ StatusTellsTheVerdict'
  BY <1>1, <1>2, ZenonT(40) DEF CliInv, ArgvInv, ClientsInv, EvidenceInv, SetSoFar, Untouched,
     Preparing,
     Collects, Ending, StatusTellsTheVerdict
<1>10. outcome' # null
  <2>1. InitFails => outcome' \in Outcomes
    BY DEF InitFails, Record, Outcomes, Errors
  <2>2. QED
    BY <2>1, AttestRecords, NullIsNoObject, Zenon DEF AttestDevice
<1>11. ResultInv'
  <2>1. CASE HasVerdict(outcome'.error)
    BY <1>10, <2>1 DEF AttestDevice, ResultInv
  <2>2. CASE ~HasVerdict(outcome'.error)
    BY <2>2, NvattestConstants DEF AttestDevice, Return, ResultInv
  <2>3. QED
    BY <2>1, <2>2
<1>12. FileEvidenceHasTheNonce'
  BY <1>1, <1>2 DEF FileEvidenceHasTheNonce, AttestDevice, HasVerdict, NonceMatches, CliInv,
     EvidenceInv
<1>13. /\ m_default_rim_store' \in {m_default_rim_store, RimStore}
       /\ m_default_ocsp_client' \in {m_default_ocsp_client, OcspClient}
       /\ m_verifier'[device] \in {null, DefaultVerifier}
  BY <1>6, <1>7, Zenon DEF AttestDevice, InitFails, attest_device, ensure_init, Verifier, OrElse
<1>14. OfflineIsOffline'
  <2> SUFFICES ASSUME argv.bundle PROVE OfflineIsOffline'
    BY <1>1, ZenonT(30) DEF OfflineIsOffline
  <2>1. RimStore = UserObject /\ OcspClient = UserObject /\ DefaultVerifier.type = Local
    BY <1>3, <1>4, <1>5, <1>8 DEF RimStore, OcspClient, DefaultVerifier, OrElse
  <2>2. QED
    BY <1>1, <1>3, <1>4, <1>5, <1>13, <2>1 DEF OfflineIsOffline, urls, options, chosen
<1>15. AttestsAsAsked'
  <2> SUFFICES ASSUME ~argv.bundle, outcome'.error # "InitError" PROVE AttestsAsAsked'
    BY <1>1, ZenonT(30) DEF AttestsAsAsked, Attested
  <2>1. m_verifier'[device'] = DefaultVerifier
    <3>1. ~InitFails
      BY DEF InitFails, Record
    <3>2. ensure_init /\ device' = device
      BY <1>1, <3>1, Zenon DEF AttestDevice, attest_device, chosen
    <3>3. QED
      BY <1>6, <1>7, <3>2 DEF ensure_init, Verifier, OrElse
  <2>2. argv.verifier \in {Local, Remote}
    BY <1>1 DEF AttestLines
  <2>a. /\ argv' = argv /\ clients' = clients /\ device' = argv.device
        /\ m_claims_evaluator' = argv.policy /\ m_default_http_options' = 1
    BY <1>1, <1>3 DEF options, chosen
  <2>3. CASE argv.verifier = Remote
    <3>1. DefaultVerifier = [by |-> "context", type |-> Remote, url |-> m_default_nras_url,
                             key |-> argv.key, http |-> 1]
      BY <1>3, <2>3, Zenon DEF DefaultVerifier, Local, Remote
    <3>2. LET v == m_verifier'[device']
          IN  v.by = "context" /\ v.type = Remote /\ v.key = argv.key /\ v.http = 1
      BY <2>1, <3>1
    <3>3. /\ clients.nras = IF argv.nras_url # 0 THEN argv.nras_url ELSE null
          /\ Remote # Local
      BY <1>3 DEF Local, Remote
    <3>4. QED
      BY <2>a, <2>3, <3>2, <3>3, Zenon DEF AttestsAsAsked
  <2>4. CASE argv.verifier = Local
    <3>1. LET v == m_verifier'[device']
          IN  /\ v.by = "context" /\ v.type = Local /\ v.rim = UserObject
              /\ v.ocsp = IF argv.ocsp_url # 0 THEN UserObject
                          ELSE [by |-> "context", url |-> 0, key |-> argv.key, http |-> 1]
      <4>1. /\ DefaultVerifier.by = "context" /\ DefaultVerifier.type = Local
            /\ DefaultVerifier.rim = UserObject
            /\ DefaultVerifier.ocsp =
                  IF argv.ocsp_url # 0 THEN UserObject
                  ELSE [by |-> "context", url |-> 0, key |-> argv.key, http |-> 1]
        BY <1>3, <1>4, <1>5, <1>8, <2>4, Zenon DEF DefaultVerifier, RimStore, OcspClient, OrElse,
           ClientFor
      <4>2. QED
        BY <2>1, <4>1, Zenon
    <3>2. /\ clients.rim.kind = argv.rim_store
          /\ argv.rim_store = "remote" => clients.rim.key = argv.key
          /\ argv.ocsp_url # 0 => clients.ocsp = [kind |-> "http", key |-> argv.key]
      BY <1>4, <1>5, <2>4
    <3>3. Remote # Local
      BY DEF Local, Remote
    <3>4. QED
      BY <2>a, <2>4, <3>1, <3>2, <3>3, Zenon DEF AttestsAsAsked
  <2>5. QED
    BY <2>2, <2>3, <2>4, ZenonT(30)
<1>16. QED
  BY <1>9, <1>11, <1>12, <1>14, <1>15 DEF CliInv

\* The end of attest and of collect_evidence, and the return of the process.
LEMMA EndingKeeps ==
    ASSUME IInv, CliInv, SerializeClaims \/ CollectEvidence \/ Exit
    PROVE  CliInv'
<1>1. ASSUME SerializeClaims PROVE CliInv'
  <2>1. PICK rc \in ApiErrors \cup {result} : Fail(rc)
    BY <1>1 DEF SerializeClaims, CallFails
  <2>2. /\ pc = "serialize" /\ pc' = "shutdown" /\ result' = rc /\ argv \in AttestLines
        /\ UNCHANGED <<vars, argv, clients, evidence>>
    BY <1>1, <2>1 DEF SerializeClaims, Fail, Return, context, CliInv, ArgvInv
  <2>3. argv.subcommand = "attest"
    BY <2>2, ZenonT(30) DEF AttestLines
  <2>4. ArgvInv' /\ SetSoFar' /\ ClientsInv' /\ EvidenceInv' /\ StatusTellsTheVerdict'
    BY <2>2, <2>3, ZenonT(30) DEF CliInv, ArgvInv, SetSoFar, Untouched, ClientsInv, EvidenceInv, Preparing,
       AfterContext, AfterDevice, AfterSource, AfterKey, AfterRim, AfterOcsp, AfterNras,
       AfterPolicy, AfterVerifier, Collects, Ending, StatusTellsTheVerdict
  <2>5. ResultInv'
    BY <2>2, <2>3 DEF CliInv, ResultInv, ApiErrors, nvat_rc_t, Verdicts, VerdictCode, HasVerdict,
       NVAT_RC_OK, NVAT_RC_BAD_ARGUMENT, NVAT_RC_ALLOC_FAILED, NVAT_RC_RP_POLICY_MISMATCH,
       NVAT_RC_OVERALL_RESULT_FALSE, vars
  <2>6. OfflineIsOffline' /\ AttestsAsAsked' /\ FileEvidenceHasTheNonce'
    BY <2>2, ZenonT(40) DEF CliInv, OfflineIsOffline, AttestsAsAsked, FileEvidenceHasTheNonce,
       Attested, vars,
       urls, options, made, chosen
  <2>7. QED
    BY <2>4, <2>5, <2>6 DEF CliInv
<1>2. ASSUME CollectEvidence PROVE CliInv'
  <2>1. CASE CallFails
    <3>1. \A rc \in ApiErrors : rc \in nvat_rc_t \ Verdicts
      BY DEF ApiErrors, NVAT_RC_BAD_ARGUMENT, NVAT_RC_ALLOC_FAILED, nvat_rc_t, Verdicts, NVAT_RC_OK,
         NVAT_RC_RP_POLICY_MISMATCH, NVAT_RC_OVERALL_RESULT_FALSE
    <3>2. pc \in Preparing \ {"idle"}
      BY <1>2 DEF CollectEvidence, Preparing, Collects
    <3>3. QED
      BY <2>1, <3>1, <3>2, FailKeeps DEF CallFails
  <2>2. CASE ~CallFails
    <3>1. /\ pc = "collect" /\ pc' = "shutdown" /\ argv \in CollectLines
          /\ UNCHANGED <<vars, argv, clients>>
      BY <1>2, <2>2 DEF CollectEvidence, Return, context, CliInv, ArgvInv, Collects
    <3>2. argv.subcommand = "collect-evidence"
      BY <3>1 DEF CollectLines
    <3> USE DEF Preparing, AfterContext, AfterDevice, AfterSource, AfterKey, AfterRim, AfterOcsp,
         AfterNras, AfterPolicy, AfterVerifier, Collects, Ending
    <3>3. ArgvInv' /\ ClientsInv' /\ EvidenceInv' /\ ResultInv' /\ StatusTellsTheVerdict'
      BY <3>1, <3>2, ZenonT(30) DEF CliInv, ArgvInv, ClientsInv, EvidenceInv, ResultInv, StatusTellsTheVerdict
    <3>4. SetSoFar' /\ outcome' = null
      BY <3>1, <3>2, ZenonT(30) DEF CliInv, SetSoFar, Untouched, vars, urls, options, made, chosen
    <3>5. OfflineIsOffline' /\ AttestsAsAsked' /\ FileEvidenceHasTheNonce'
      BY <3>1, <3>2, <3>4 DEF OfflineIsOffline, AttestsAsAsked, FileEvidenceHasTheNonce, Attested
    <3>6. QED
      BY <3>3, <3>4, <3>5 DEF CliInv
  <2>3. QED
    BY <2>1, <2>2
<1>3. ASSUME Exit PROVE CliInv'
  <2> USE DEF Preparing, AfterContext, AfterDevice, AfterSource, AfterKey, AfterRim, AfterOcsp,
       AfterNras, AfterPolicy, AfterVerifier, Collects, Ending
  <2>1. pc = "shutdown" /\ UNCHANGED <<vars, clients, evidence, result>>
    BY <1>3 DEF Exit, context
  <2>2. CASE argv.subcommand = "attest"
    <3>1. pc' = "exited" /\ argv' = argv /\ printed' = (result \in Verdicts)
      BY <1>3, <2>2 DEF Exit
    <3>2. ArgvInv' /\ SetSoFar' /\ ClientsInv' /\ EvidenceInv' /\ ResultInv'
      BY <2>1, <2>2, <3>1, Zenon DEF CliInv, ArgvInv, CollectLines, SetSoFar, Untouched, ClientsInv,
         EvidenceInv, ResultInv
    <3>3. OfflineIsOffline' /\ AttestsAsAsked' /\ FileEvidenceHasTheNonce'
      BY <2>1, <3>1, ZenonT(40) DEF CliInv, OfflineIsOffline, AttestsAsAsked,
         FileEvidenceHasTheNonce, Attested,
         vars, urls, options, made, chosen
    <3>4. StatusTellsTheVerdict'
      <4>1. /\ result \in nvat_rc_t
            /\ result \in Verdicts => /\ outcome # null /\ HasVerdict(outcome.error)
                                      /\ result = VerdictCode(outcome.error)
        BY <2>1, <2>2 DEF CliInv, ResultInv
      <4>2. result % 256 = 0 <=> result = 0
        BY <4>1 DEF nvat_rc_t
      <4>3. HasVerdict(outcome.error) => (VerdictCode(outcome.error) = 0 <=> outcome.error = "Ok")
        BY DEF HasVerdict, VerdictCode, NVAT_RC_OK, NVAT_RC_RP_POLICY_MISMATCH,
           NVAT_RC_OVERALL_RESULT_FALSE
      <4>4. result = 0 => result \in Verdicts
        BY DEF Verdicts, NVAT_RC_OK
      <4>5. UNCHANGED <<outcome, result>>
        BY <2>1 DEF vars
      <4>6. QED
        BY <3>1, <4>1, <4>2, <4>3, <4>4, <4>5, Zenon DEF StatusTellsTheVerdict
    <3>5. QED
      BY <3>2, <3>3, <3>4 DEF CliInv
  <2>3. CASE argv.subcommand # "attest"
    <3>1. pc' = "idle" /\ argv' = null
      BY <1>3, <2>3, ZenonT(30) DEF Exit
    <3>2. ArgvInv' /\ ClientsInv' /\ EvidenceInv' /\ ResultInv' /\ StatusTellsTheVerdict'
      BY <2>1, <3>1, ZenonT(30) DEF CliInv, ArgvInv, ClientsInv, EvidenceInv, ResultInv, StatusTellsTheVerdict
    <3>3. SetSoFar'
      BY <2>1, <2>3, <3>1, ZenonT(30) DEF CliInv, SetSoFar, Untouched, vars, urls, options, made, chosen
    <3>4. OfflineIsOffline' /\ AttestsAsAsked' /\ FileEvidenceHasTheNonce'
      BY <3>1, Zenon DEF OfflineIsOffline, AttestsAsAsked, FileEvidenceHasTheNonce, Attested
    <3>5. QED
      BY <3>2, <3>3, <3>4 DEF CliInv
  <2>4. QED
    BY <2>2, <2>3
<1>4. QED
  BY <1>1, <1>2, <1>3

\* A new invocation, the file between invocations, and other applications.
LEMMA OutsideKeeps ==
    ASSUME CliInv, \/ \E o \in AttestLines \cup CollectLines, b \in Builds : Start(o, b)
                   \/ Save
                   \/ pc = "application" /\ UNCHANGED cliVars
                   \/ UNCHANGED <<context, cliVars>>
    PROVE  PreparedInv' \/ CliInv'
<1> USE DEF Preparing, AfterContext, AfterDevice, AfterSource, AfterKey, AfterRim, AfterOcsp,
     AfterNras, AfterPolicy, AfterVerifier, Collects, Ending
<1>1. ASSUME NEW o \in AttestLines \cup CollectLines, NEW b \in Builds, Start(o, b) PROVE PreparedInv'
  <2>1. /\ pc = "idle" /\ pc' \in {"idle", "init_sdk"} /\ UNCHANGED <<vars, clients>>
        /\ pc' = "idle" => argv' = argv
        /\ pc' = "init_sdk" => argv' = IF o.subcommand = "attest" THEN [o EXCEPT !.given = FALSE] ELSE o
    BY <1>1 DEF Start, context
  <2>2. [o EXCEPT !.given = FALSE] \in AttestLines \/ o \in CollectLines
    BY Zenon DEF AttestLines
  <2>3. pc' = "init_sdk" => argv' \in AttestLines \cup CollectLines
    BY <2>1, <2>2, Zenon DEF AttestLines, CollectLines
  <2>4. ArgvInv' /\ ClientsInv' /\ EvidenceInv'
    BY <2>1, <2>3, Zenon DEF CliInv, ArgvInv, ClientsInv, EvidenceInv
  <2>5. SetSoFar'
    BY <2>1, Zenon DEF CliInv, SetSoFar, Untouched, vars, urls, options, made, chosen
  <2>6. QED
    BY <2>1, <2>4, <2>5, Zenon DEF PreparedInv
<1>2. ASSUME Save PROVE PreparedInv'
  <2>1. pc = "idle" /\ UNCHANGED <<vars, pc, argv, clients>>
    BY <1>2 DEF Save, context, process
  <2>2. ArgvInv' /\ ClientsInv' /\ EvidenceInv'
    BY <2>1, ZenonT(30) DEF CliInv, ArgvInv, ClientsInv, EvidenceInv
  <2>3. SetSoFar'
    BY <2>1, ZenonT(30) DEF CliInv, SetSoFar, Untouched, vars, urls, options, made, chosen
  <2>4. QED
    BY <2>1, <2>2, <2>3 DEF PreparedInv
<1>3. ASSUME pc = "application", UNCHANGED cliVars PROVE CliInv'
  <2>1. UNCHANGED <<pc, argv, clients, evidence, result, printed>> /\ argv = null
    BY <1>3, ZenonT(30) DEF cliVars, process, CliInv, ArgvInv
  <2>2. ArgvInv' /\ SetSoFar' /\ ClientsInv' /\ EvidenceInv' /\ ResultInv'
    BY <1>3, <2>1, ZenonT(30) DEF CliInv, ArgvInv, SetSoFar, Untouched, ClientsInv, EvidenceInv, ResultInv
  <2>3. /\ OfflineIsOffline' /\ AttestsAsAsked' /\ FileEvidenceHasTheNonce'
        /\ StatusTellsTheVerdict'
    BY <1>3, <2>1, ZenonT(30) DEF OfflineIsOffline, AttestsAsAsked, FileEvidenceHasTheNonce, Attested,
       StatusTellsTheVerdict
  <2>4. QED
    BY <2>2, <2>3 DEF CliInv
<1>4. ASSUME UNCHANGED <<context, cliVars>> PROVE CliInv'
  <2> USE DEF CliInv
  <2>1. /\ UNCHANGED <<urls, options, made, chosen, outcome>>
        /\ UNCHANGED <<pc, argv, clients, evidence, result, printed>>
    BY <1>4 DEF context, cliVars, process, vars
  <2>2. ArgvInv' /\ ClientsInv' /\ EvidenceInv'
    BY <2>1, ZenonT(30) DEF ArgvInv, ClientsInv, EvidenceInv
  <2>3. ResultInv' /\ StatusTellsTheVerdict'
    BY <2>1, Zenon DEF ResultInv, StatusTellsTheVerdict
  <2>4. SetSoFar'
    BY <2>1, ZenonT(40) DEF SetSoFar, Untouched, urls, options, made, chosen
  <2>5. OfflineIsOffline'
    BY <2>1, Zenon DEF OfflineIsOffline, options, made, chosen
  <2>6. /\ Attested' = Attested
        /\ UNCHANGED <<m_verifier, device, m_claims_evaluator, m_default_http_options>>
    BY <2>1, Zenon DEF Attested, options, made, chosen
  <2>7. AttestsAsAsked' /\ FileEvidenceHasTheNonce'
    BY <2>1, <2>6, Zenon DEF AttestsAsAsked, FileEvidenceHasTheNonce
  <2>8. QED
    BY <2>2, <2>3, <2>4, <2>5, <2>7
<1>5. QED
  BY <1>1, <1>2, <1>3, <1>4

-----------------------------------------------------------------------------
\* What the tool does to its context is what some application may do.
LEMMA ContextSteps == CliInv /\ [CliNext]_<<context, cliVars>> => [Next]_vars
<1> SUFFICES ASSUME CliInv, [CliNext]_<<context, cliVars>> PROVE [Next]_vars
  OBVIOUS
<1>1. ASSUME NEW rc, Fail(rc) PROVE UNCHANGED vars
  BY <1>1 DEF Fail, context
<1>2. ASSUME NEW label, Skips(label) PROVE UNCHANGED vars
  BY <1>2 DEF Skips, context
<1>3. pc \in AfterContext \cup {"context"} =>
          argv.device \in Devices /\ argv.key \in Settings /\ argv.verifier \in {Local, Remote}
  BY DEF CliInv, ArgvInv, AttestLines
<1> USE <1>1, <1>2, <1>3 DEF CallFails, Configures, AfterContext, AfterDevice, AfterSource, AfterKey,
        AfterRim, AfterOcsp, AfterNras, AfterPolicy, AfterVerifier
<1>4. ASSUME InitSdk \/ ParseNonce \/ CollectNonce \/ SerializeClaims PROVE UNCHANGED vars
  BY <1>4, Zenon DEF InitSdk, ParseNonce, CollectNonce, SerializeClaims
<1>5. ASSUME \/ SetNrasUrl \/ CreateSource \/ CollectEvidence \/ Exit \/ Save
             \/ \E o \in AttestLines \cup CollectLines, b \in Builds : Start(o, b)
      PROVE  UNCHANGED vars
  BY <1>5, Zenon DEF SetNrasUrl, CreateSource, CollectEvidence, Exit, Save, Start, context
<1>6. ASSUME CreateContext \/ SetEvidencePolicy \/ SetDevice PROVE Configure \/ UNCHANGED vars
  BY <1>6, NvattestConstants, Zenon DEF CreateContext, SetEvidencePolicy, SetDevice, Configure,
     set_evidence_source
<1>7. ASSUME SetSource \/ SetServiceKey \/ SetRimStore PROVE Configure \/ UNCHANGED vars
  BY <1>7, Zenon DEF SetSource, SetServiceKey, SetRimStore, Configure
<1>8. ASSUME SetOcspClient \/ SetRelyingPartyPolicy \/ SetVerifierType
      PROVE  Configure \/ UNCHANGED vars
  BY <1>8, Zenon DEF SetOcspClient, SetRelyingPartyPolicy, SetVerifierType, Configure
<1>9. ASSUME AttestDevice PROVE Next
  BY <1>9, Zenon DEF AttestDevice, Next
<1>10. QED
  BY <1>4, <1>5, <1>6, <1>7, <1>8, <1>9, Zenon DEF CliNext, Next, context, cliVars

\* Every step of the tool preserves its invariant.
LEMMA CliInvNext == IInv /\ IInv' /\ CliInv /\ [CliNext]_<<context, cliVars>> => CliInv'
<1>1. IInv' /\ PreparedInv' => CliInv'
  BY PreparedSuffices, PTL
<1>2. QED
  BY <1>1, PreparingKeeps, AttestDeviceKeeps, EndingKeeps, OutsideKeeps DEF CliNext

\* The invariants of the context and of the tool, together, are inductive.
LEMMA BothInv == IInv /\ CliInv /\ [CliNext]_<<context, cliVars>> => (IInv /\ CliInv)'
BY ContextSteps, IInvNext, CliInvNext

\* Both invariants in every state of every behaviour.
LEMMA CliInvAlways == CliSpec => [](IInv /\ CliInv)
<1>1. CliInit => IInv /\ CliInv
  BY IInvInit, CliInvInit DEF CliInit
<1>2. QED
  BY <1>1, BothInv, PTL DEF CliSpec

-----------------------------------------------------------------------------
\* The tool is an application of the context: whatever options it gets, its
\* calls are ones that AttestationContext allows, so that NothingOutdated and
\* VerdictIsBacked hold of it for all settings.
THEOREM ToolIsAnApplication == CliSpec => Spec
<1>1. CliInit => Init
  BY DEF CliInit
<1>2. CliInv /\ [CliNext]_<<context, cliVars>> => [Next]_vars
  BY ContextSteps
<1>3. QED
  BY <1>1, <1>2, CliInvAlways, PTL DEF CliSpec, Spec

\* AttestsAsAsked for all settings: the order of the calls in attest loses
\* none of the options.
THEOREM AlwaysAttestsAsAsked == CliSpec => []AttestsAsAsked
<1>1. CliInv => AttestsAsAsked
  BY DEF CliInv
<1>2. QED
  BY <1>1, CliInvAlways, PTL

\* OfflineIsOffline for all settings of the command line and the environment.
THEOREM OfflineAlwaysOffline == CliSpec => []OfflineIsOffline
<1>1. CliInv => OfflineIsOffline
  BY DEF CliInv
<1>2. QED
  BY <1>1, CliInvAlways, PTL

\* StatusTellsTheVerdict for every code an attestation may fail with.
THEOREM StatusAlwaysTellsTheVerdict == CliSpec => []StatusTellsTheVerdict
<1>1. CliInv => StatusTellsTheVerdict
  BY DEF CliInv
<1>2. QED
  BY <1>1, CliInvAlways, PTL

\* FileEvidenceHasTheNonce for any number of nonces, and files put together
\* from any number of collections.
THEOREM FileEvidenceAlwaysHasTheNonce == CliSpec => []FileEvidenceHasTheNonce
<1>1. CliInv => FileEvidenceHasTheNonce
  BY DEF CliInv
<1>2. QED
  BY <1>1, CliInvAlways, PTL

=============================================================================
