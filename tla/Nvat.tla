-------------------------------- MODULE Nvat --------------------------------
(***************************************************************************)
(* The C API (nvat.cpp): who owns what.  A handle of the application is a  *)
(* pointer to a box on the heap.  Every function checks its arguments for  *)
(* NULL; creating functions allocate a box and set the out variable;       *)
(* nvat_*_free deletes the box and clears the variable.  Clients, stores   *)
(* and policies are boxes with a shared_ptr, which other objects copy, or  *)
(* take.                                                                   *)
(*                                                                         *)
(* The application is a C program that passes cleared variables for out    *)
(* parameters and does not use what it gave away, or it uses the Rust      *)
(* bindings (attestation.rs, types.rs), whose values own one handle each.  *)
(*                                                                         *)
(* It has one variable per type, two for clients and stores and one for    *)
(* all kinds of options.  It attests GPUs or switches: their functions     *)
(* treat handles alike, and the compiler keeps them apart.  Contents that  *)
(* are only read or written in place are left out.                         *)
(*                                                                         *)
(* nvat_gpu_local_verifier_upcast and its like return the pointer they are *)
(* given under another type; they make no box, and there is no function    *)
(* that frees the typed handle.  "verifier" is both: a C application goes  *)
(* on with the one it upcast to, the Rust types keep the typed one and     *)
(* upcast it for the time of a call.  An application that frees the one    *)
(* and uses the other is one that uses what it gave away.                  *)
(***************************************************************************)
EXTENDS Integers, FiniteSets

CONSTANTS
    MaxBoxes,           \* boxes on the heap; beyond it allocation fails
    MaxDevices,         \* devices that evidence is collected from
    null

Variables ==
    {"options", "nonce", "rp_policy", "ocsp_client", "cached_client", "rim_store",
     "cached_store", "ctx", "source", "evidence", "policy", "verifier", "claims", "str"}

Kind(v) ==
    IF v = "cached_client" THEN "ocsp_client" ELSE IF v = "cached_store" THEN "rim_store" ELSE v

\* The function that is new where new is defined and old elsewhere, and the
\* function with one argument.
new @@ old == [x \in DOMAIN new \cup DOMAIN old |-> IF x \in DOMAIN new THEN new[x] ELSE old[x]]
a :> value == [x \in {a} |-> value]

\* A box is known by the variable that it was first handed to, or by its place
\* in a list, and by a number.
Addresses == (Variables \cup {"element"}) \X Nat

ASSUME NvatConstants == MaxBoxes \in Nat /\ MaxDevices \in Nat /\ null \notin Addresses

VARIABLES
    binding,            \* the language of the application, "C" or "Rust"
    heap,               \* the boxes by address: [kind, has]
    var,                \* the handle variables of the application
    rc                  \* what the last call returned, or "crash"

vars == <<binding, heap, var, rc>>

Init ==
    /\ binding \in {"C", "Rust"}
    /\ heap = <<>>
    /\ var = [v \in Variables |-> null]
    /\ rc = "OK"

-----------------------------------------------------------------------------
Has(v) == heap[var[v]].has

Returns(code) == rc' = code /\ UNCHANGED <<binding, heap, var>>

\* The out pointers of a call.  The Rust methods check the code first
\* (NvatError::check) and wrap the pointers only after NVAT_RC_OK.
Receives(outs, code) ==
    /\ var' = IF binding = "Rust" /\ code # "OK" THEN var ELSE outs @@ var
    /\ rc' = code
    /\ UNCHANGED binding

\* An unused address for a box that v refers to.
Address(v) == <<v, CHOOSE k \in 1 .. MaxBoxes + 1 : <<v, k>> \notin DOMAIN heap>>

HasRoom(n) == Cardinality(DOMAIN heap) + n <= MaxBoxes

Box(v, has) == Address(v) :> [kind |-> Kind(v), has |-> has]

\* A function whose arguments must not be NULL.
Checks(arguments, Call) ==
    IF \E v \in arguments : var[v] = null THEN Returns("BAD_ARGUMENT") ELSE Call

\* new fails, or the box is made and handed out.
Creates(v, has) ==
    /\ var[v] = null
    /\ \/ Returns("ALLOC_FAILED")
       \/ /\ HasRoom(1)
          /\ heap' = Box(v, has) @@ heap
          /\ Receives(v :> Address(v), "OK")

\* ... or, before that, what the box is made from is no good.
CreatesFrom(v, has) == Creates(v, has) \/ (var[v] = null /\ Returns("ERROR"))

-----------------------------------------------------------------------------
\* Releasing handles.
Elements(box) == IF box.kind = "evidence" THEN box.has.items ELSE {}

\* Variation: the variable is not cleared.
FreeKeepsHandle(v) ==
    /\ var[v] # null
    /\ heap' = [a \in DOMAIN heap \ ({var[v]} \cup Elements(heap[var[v]])) |-> heap[a]]
    /\ rc' = "none"
    /\ UNCHANGED <<binding, var>>

\* nvat_*_free, and nvat_*_evidence_array_free with the elements.
nvat_free(v) ==
    /\ var[v] # null
    /\ heap' = [a \in DOMAIN heap \ ({var[v]} \cup Elements(heap[var[v]])) |-> heap[a]]
    /\ var' = [var EXCEPT ![v] = null]
    /\ rc' = "none"
    /\ UNCHANGED binding

-----------------------------------------------------------------------------
\* Options, policies, clients and stores.
nvat_sdk_opts_create == Creates("options", "value")
nvat_logger_create == Creates("options", "value")
nvat_http_options_create_default == Creates("options", "value")
nvat_relying_party_policy_create_rego_from_str == CreatesFrom("rp_policy", "value")
nvat_detached_eat_options_create == Creates("options", "value")
nvat_evidence_policy_create_default == Creates("policy", "value")

nvat_apply_relying_party_policy ==
    Checks({"claims", "rp_policy"},
           \E code \in {"OK", "RP_POLICY_MISMATCH", "ERROR"} : Returns(code))

\* A client or store is "ready", "empty" (a shared_ptr that was moved from)
\* or "hollow": a cache around an empty one, which cannot be called.
CacheAround(client) == IF client = "ready" THEN "ready" ELSE "hollow"

nvat_ocsp_client_create == CreatesFrom("ocsp_client", "ready")

nvat_ocsp_client_create_cached ==
    Checks({"ocsp_client"}, CreatesFrom("cached_client", CacheAround(Has("ocsp_client"))))

nvat_rim_store_create == CreatesFrom("rim_store", "ready")

nvat_rim_store_create_cached ==
    Checks({"rim_store"}, Creates("cached_store", CacheAround(Has("rim_store"))))

-----------------------------------------------------------------------------
\* The attestation context, of which only what it shares is kept.
nvat_attestation_ctx_create == Creates("ctx", [rim |-> "empty", ocsp |-> "empty", rp |-> FALSE])

Sets(field, value) ==
    /\ heap' = [heap EXCEPT ![var["ctx"]].has[field] = value]
    /\ rc' = "OK"
    /\ UNCHANGED <<binding, var>>

\* Variation: the policy is copied, and the caller's left alone.
PolicyNotDeleted ==
    Checks({"ctx"},
        /\ rc' = "OK"
        /\ var' = [var EXCEPT !["policy"] = null]
        /\ UNCHANGED <<binding, heap>>)

\* The policy is copied and the caller's deleted; the caller forgets it.
nvat_attestation_ctx_set_evidence_policy ==
    Checks({"ctx"},
        /\ heap' = [a \in DOMAIN heap \ {var["policy"]} |-> heap[a]]
        /\ rc' = "OK"
        /\ var' = [var EXCEPT !["policy"] = null]
        /\ UNCHANGED binding)

nvat_attestation_ctx_set_relying_party_policy ==
    Checks({"ctx", "rp_policy"}, Sets("rp", TRUE))

\* The context takes the shared_ptr out of the box (std::move); the handle
\* stays and is empty.
Takes(field, v) ==
    /\ heap' = [heap EXCEPT ![var["ctx"]].has[field] = Has(v), ![var[v]].has = "empty"]
    /\ rc' = "OK"
    /\ UNCHANGED <<binding, var>>

nvat_attestation_ctx_set_default_rim_store(v) == Checks({"ctx", v}, Takes("rim", v))
nvat_attestation_ctx_set_default_ocsp_client(v) == Checks({"ctx", v}, Takes("ocsp", v))

\* set_service_key makes the context let go of both.
nvat_attestation_ctx_set_service_key ==
    Checks({"ctx"},
        /\ heap' = [heap EXCEPT ![var["ctx"]].has.rim = "empty", ![var["ctx"]].has.ocsp = "empty"]
        /\ rc' = "OK"
        /\ UNCHANGED <<binding, var>>)

\* A call through a cache around nothing ends the process.
Crashes == rc' = "crash" /\ UNCHANGED <<binding, heap, var>>

\* With eat, the string is allocated before anything can fail, and stays
\* behind when something does.
nvat_attest_device(eat) ==
    /\ var["claims"] = null /\ (eat => var["str"] = null)
    /\ Checks({"ctx"},
        LET made == IF eat THEN Box("str", "value") ELSE <<>>
            outs == IF eat THEN "str" :> Address("str") ELSE <<>>
            room == IF eat THEN 1 ELSE 0
        IN  \/ "hollow" \in {Has("ctx").rim, Has("ctx").ocsp} /\ Crashes
            \/ eat /\ Returns("ALLOC_FAILED")
            \/ /\ HasRoom(room)
               /\ heap' = made @@ heap
               /\ rc' \in {"ERROR", "ALLOC_FAILED"}
               /\ UNCHANGED <<binding, var>>
            \/ /\ HasRoom(room + 1)
               /\ heap' = made @@ Box("claims", "value") @@ heap
               /\ \E code \in {"OK", "OVERALL_RESULT_FALSE"}
                       \cup (IF Has("ctx").rp THEN {"RP_POLICY_MISMATCH"} ELSE {}) :
                     Receives(outs @@ ("claims" :> Address("claims")), code))

-----------------------------------------------------------------------------
\* Nonces.  A length of 0 is accepted, and no nonce is made.
nvat_nonce_create ==
    \/ CreatesFrom("nonce", "value")
    \/ var["nonce"] = null /\ Returns("OK")

\* nvat_nonce_from_hex and nvat_nonce_from_bytes.
nvat_nonce_from(good) ==
    IF good THEN Creates("nonce", "value") ELSE var["nonce"] = null /\ Returns("BAD_ARGUMENT")

nvat_nonce_to_hex_string == Checks({"nonce"}, Creates("str", "value"))

\* Evidence, of GPUs and of switches.
nvat_gpu_evidence_source_create == CreatesFrom("source", "value")
nvat_switch_evidence_source_create == CreatesFrom("source", "value")

\* The array, then a box for every element; the count is set at the end.
\* When a box cannot be made the caller has the array with a count of 0.
evidence_collect ==
    /\ var["evidence"] = null
    /\ Checks({"source"},
        \/ \E code \in {"ERROR", "ALLOC_FAILED"} : Returns(code)
        \/ \E n \in 0 .. MaxDevices : \E done \in 0 .. n :
             LET elements == {<<"element", k>> : k \in 1 .. done}
                 items == IF done = n THEN elements ELSE {}
             IN  /\ HasRoom(1 + done) /\ elements \cap DOMAIN heap = {}
                 /\ heap' = Box("evidence", [items |-> items])
                            @@ [a \in elements |-> [kind |-> "element", has |-> "value"]] @@ heap
                 /\ Receives("evidence" :> Address("evidence"),
                             IF done = n THEN "OK" ELSE "ALLOC_FAILED"))

nvat_gpu_evidence_collect == evidence_collect
nvat_switch_evidence_collect == evidence_collect

nvat_gpu_evidence_serialize_json == Checks({"evidence"}, CreatesFrom("str", "value"))
nvat_switch_evidence_serialize_json == Checks({"evidence"}, CreatesFrom("str", "value"))

\* The serialization of claims, and nvat_get_detached_eat_es384.
nvat_claims_collection_serialize_json == Checks({"claims"}, CreatesFrom("str", "value"))
nvat_get_detached_eat_es384 == Checks({"claims"}, CreatesFrom("str", "value"))

-----------------------------------------------------------------------------
\* Verifiers.
nras_verifier == [type |-> "nras"]

nvat_gpu_nras_verifier_create == CreatesFrom("verifier", nras_verifier)
nvat_switch_nras_verifier_create == CreatesFrom("verifier", nras_verifier)

local_verifier(store, client) == [type |-> "local", rim |-> Has(store), ocsp |-> Has(client)]

\* Variation: Local*Verifier::create takes what it gets.
EmptyClientsAccepted(store, client) ==
    Checks({store, client}, CreatesFrom("verifier", local_verifier(store, client)))

\* Local*Verifier::create refuses empty pointers; the clients are copied.
local_verifier_create(store, client) ==
    Checks({store, client},
           IF "empty" \in {Has(store), Has(client)} THEN Returns("BAD_ARGUMENT")
           ELSE CreatesFrom("verifier", local_verifier(store, client)))

nvat_gpu_local_verifier_create(store, client) ==
    local_verifier_create(store, client)
nvat_switch_local_verifier_create(store, client) ==
    local_verifier_create(store, client)

CanVerify(verifier) ==
    verifier.type = "local" => {verifier.rim, verifier.ocsp} = {"ready"}

\* The claims are handed out before the string of the EAT is allocated.
verify_evidence(eat) ==
    /\ var["claims"] = null /\ (eat => var["str"] = null)
    /\ Checks({"verifier", "evidence", "policy"},
        IF ~CanVerify(Has("verifier")) THEN Crashes
        ELSE LET claims == Box("claims", "value")
                 out == "claims" :> Address("claims")
             IN  \/ \E code \in {"ERROR", "ALLOC_FAILED"} : Returns(code)
                 \/ /\ eat /\ HasRoom(1)
                    /\ heap' = claims @@ heap
                    /\ Receives(out, "ALLOC_FAILED")
                 \/ /\ HasRoom(IF eat THEN 2 ELSE 1)
                    /\ heap' = claims @@ (IF eat THEN Box("str", "value") ELSE <<>>) @@ heap
                    /\ \E code \in {"OK", "OVERALL_RESULT_FALSE"} :
                          Receives(out @@ (IF eat THEN "str" :> Address("str") ELSE <<>>), code))

nvat_verify_gpu_evidence(eat) == verify_evidence(eat)
nvat_verify_switch_evidence(eat) == verify_evidence(eat)

-----------------------------------------------------------------------------
\* What the Rust bindings offer, type by type.
RustSdkOptions == nvat_sdk_opts_create
RustLogger == nvat_logger_create
RustHttpOptions == nvat_http_options_create_default
RustNonce ==
    nvat_nonce_create \/ (\E good \in BOOLEAN : nvat_nonce_from(good)) \/ nvat_nonce_to_hex_string
RustGpuEvidenceSource == nvat_gpu_evidence_source_create \/ nvat_gpu_evidence_collect
RustGpuEvidenceCollection == nvat_gpu_evidence_serialize_json
RustSwitchEvidenceSource == nvat_switch_evidence_source_create \/ nvat_switch_evidence_collect
RustSwitchEvidenceCollection == nvat_switch_evidence_serialize_json
RustAttestationContext ==
    nvat_attestation_ctx_create \/ nvat_attest_device(TRUE) \/ nvat_attestation_ctx_set_service_key
RustClaimsCollection == nvat_claims_collection_serialize_json
RustEvidencePolicy == nvat_evidence_policy_create_default
RustOcspClient == nvat_ocsp_client_create
RustRimStore == nvat_rim_store_create
RustGpuLocalVerifier ==
    nvat_gpu_local_verifier_create("rim_store", "ocsp_client") \/ nvat_verify_gpu_evidence(TRUE)
RustGpuNrasVerifier == nvat_gpu_nras_verifier_create \/ nvat_verify_gpu_evidence(TRUE)
RustSwitchLocalVerifier ==
    nvat_switch_local_verifier_create("rim_store", "ocsp_client") \/ nvat_verify_switch_evidence(TRUE)
RustSwitchNrasVerifier == nvat_switch_nras_verifier_create \/ nvat_verify_switch_evidence(TRUE)

RustNext ==
    \/ RustSdkOptions \/ RustLogger \/ RustHttpOptions \/ RustNonce
    \/ RustGpuEvidenceSource \/ RustGpuEvidenceCollection
    \/ RustSwitchEvidenceSource \/ RustSwitchEvidenceCollection
    \/ RustAttestationContext \/ RustClaimsCollection \/ RustEvidencePolicy
    \/ RustOcspClient \/ RustRimStore
    \/ RustGpuLocalVerifier \/ RustGpuNrasVerifier
    \/ RustSwitchLocalVerifier \/ RustSwitchNrasVerifier

\* What only a C program calls.
COnly ==
    \/ nvat_relying_party_policy_create_rego_from_str \/ nvat_detached_eat_options_create
    \/ nvat_apply_relying_party_policy \/ nvat_get_detached_eat_es384
    \/ nvat_ocsp_client_create_cached \/ nvat_rim_store_create_cached
    \/ nvat_attestation_ctx_set_evidence_policy \/ nvat_attestation_ctx_set_relying_party_policy
    \/ \E v \in {"rim_store", "cached_store"} : nvat_attestation_ctx_set_default_rim_store(v)
    \/ \E v \in {"ocsp_client", "cached_client"} : nvat_attestation_ctx_set_default_ocsp_client(v)
    \/ nvat_attest_device(FALSE)
    \/ nvat_verify_gpu_evidence(FALSE) \/ nvat_verify_switch_evidence(FALSE)
    \/ \E s \in {"rim_store", "cached_store"}, c \in {"ocsp_client", "cached_client"} :
          nvat_gpu_local_verifier_create(s, c) \/ nvat_switch_local_verifier_create(s, c)

Next ==
    /\ rc # "crash"
    /\ \/ RustNext
       \/ binding = "C" /\ COnly
       \/ \E v \in Variables : nvat_free(v)

Spec == Init /\ [][Next]_vars

-----------------------------------------------------------------------------
\* Whatever was called, shared, given away, freed or failed before: a handle
\* variable is NULL or the only one that refers to its box, the box exists
\* and has the type of the variable, and so have the elements of an array.
\* No call reads freed memory, and nothing can be freed twice.  A verifier and
\* what it was upcast to count as one handle.
HandlesAreSound ==
    \A v \in Variables : var[v] # null =>
        /\ var[v] \in DOMAIN heap /\ heap[var[v]].kind = Kind(v)
        /\ \A w \in Variables \ {v} : var[w] # var[v]
        /\ \A a \in Elements(heap[var[v]]) : a \in DOMAIN heap /\ heap[a].kind = "element"

Reachable ==
    {var[v] : v \in Variables}
    \cup (IF var["evidence"] = null THEN {} ELSE Elements(heap[var["evidence"]]))

Lost == DOMAIN heap \ Reachable

LossIsFailure(a) ==
    /\ rc' \notin {"OK", "none"}
    /\ \/ heap'[a].kind = "str" /\ rc' \in {"ERROR", "ALLOC_FAILED"}
       \/ heap'[a].kind = "element" /\ rc' = "ALLOC_FAILED"
       \/ binding = "Rust" /\ heap'[a].kind \in {"str", "claims", "evidence"}

\* A box is lost, with no handle to free it, only by a call that returns an
\* error: the string for the EAT of an attest_device that fails, and evidence
\* when memory runs out in the middle of a list; with the Rust bindings also
\* what a call hands out with another code than NVAT_RC_OK, claims included.
LossesAreFailures == [][\A a \in Lost' : a \notin Lost => LossIsFailure(a)]_vars

\* A local verifier has a RIM store and an OCSP client, although the handles
\* it is made from may have been emptied by a context; and with the Rust
\* bindings, which give no client away, every call on them arrives.
VerifiersHaveClients ==
    /\ \A a \in DOMAIN heap :
          heap[a].kind = "verifier" /\ heap[a].has.type = "local" =>
              /\ "empty" \notin {heap[a].has.rim, heap[a].has.ocsp}
              /\ binding = "Rust" => CanVerify(heap[a].has)
    /\ binding = "Rust" => rc # "crash"

=============================================================================
