---------------------------- MODULE LocalVerifier ---------------------------
(***************************************************************************)
(* LocalGpuVerifier (gpu/verify.cpp) and LocalSwitchVerifier               *)
(* (switch/verify.cpp): generate_claims_v3 over the evidence, one piece at *)
(* a time, with the claims of the report (gpu/evidence.cpp,                *)
(* switch/evidence.cpp) and of the RIM documents (rim.cpp), and            *)
(* ClaimsCollection::get_detached_eat (claims.cpp).                        *)
(*                                                                         *)
(* What a certificate chain comes to is OcspChain's subject: here it is    *)
(* good, bad (claims the overall policy refuses) or broken (an error).     *)
(***************************************************************************)
EXTENDS VerifyEvidence

CONSTANTS
    Indices,            \* indices of measurements in RIM documents
    Msr35,              \* the index that NVDEC0 decides about
    Values              \* values of measurements

ASSUME LocalVerifierConstants == Msr35 \in Indices /\ Indices \subseteq Nat

VARIABLES
    report,             \* the parsed attestation report: its nonce
    claims,             \* serializable_claims of the current evidence
    seen                \* what the documents really say, per evidence (history)

local == <<report, claims, seen>>

Chains(d) == IF d = "gpu" THEN {"ar", "driver", "vbios"} ELSE {"ar", "vbios"}
Rims(d) == Chains(d) \ {"ar"}

\* Constructors of SerializableGpuClaimsV3 and SerializableSwitchClaimsV3.
NoClaims == [nonce |-> NoNonce, good |-> {}, signed |-> {}, measres |-> "fail"]
Claims == [nonce : Nonces \cup {NoNonce}, good : SUBSET Chains("gpu"),
           signed : SUBSET Rims("gpu"), measres : {"success", "fail"}]

\* The detached EATs that get_detached_eat builds from claims.
SubmodMaps == UNION {[S -> Claims] : S \in SUBSET (DeviceTypes \X (0..MaxEvidence))}
LocalEats == [overall : [nonce : Nonces \cup {NoNonce}, result : BOOLEAN, digests : SubmodMaps],
              tokens : SubmodMaps]

ASSUME NoEatIsNone == NoEat \notin LocalEats

NothingSeen == [nonce |-> NoNonce, good |-> {}, signed |-> {}, version |-> {}, match |-> FALSE]
NoteSeen(note) == seen' = [seen EXCEPT ![Len(seen)] = note]
Last == seen[Len(seen)]

LocalTypeOK ==
    /\ report \in Nonces \cup {NoNonce}
    /\ claims \in Claims
    /\ Len(seen) <= Len(evidence)

LocalInit == report = NoNonce /\ claims = NoClaims /\ seen = <<>>

cur_evidence == evidence[Len(out_claims) + 1]
Fail(errors) == \E e \in errors : ReturnWith(e) /\ UNCHANGED local

-----------------------------------------------------------------------------
\* The measurements.  A report counts its blocks from one, a RIM its indices
\* from zero.

Golden == UNION {[S -> SUBSET Values \ {{}}] : S \in SUBSET Indices}
Blocks == UNION {[S -> Values] : S \in SUBSET (Indices \cup {i + 1 : i \in Indices})}
NvdecStatus == {"enabled", "disabled", "unknown"}

\* Variation: blocks and indices are counted alike.
UnshiftedMeasurements(blocks) == blocks

get_measurements(blocks) ==
    [i \in {b - 1 : b \in DOMAIN blocks} |-> blocks[i + 1]]

\* compare_measurements over the indices of a RIM.
Mismatched(golden, runtime, skipped) ==
    {i \in DOMAIN golden \ skipped : i \notin DOMAIN runtime \/ runtime[i] \notin golden[i]}

Measres(mismatched) == IF mismatched = {} THEN "success" ELSE "fail"

\* What a careful reader of the documents would say: every measurement of the
\* RIM is in the report with one of its values, except the one of a video
\* decoder that is switched off.
Genuine(golden, blocks, status) ==
    \A i \in DOMAIN golden :
        \/ i = Msr35 /\ status = "disabled"
        \/ i + 1 \in DOMAIN blocks /\ blocks[i + 1] \in golden[i]

GpuComparison(driver, vbios, blocks, status) ==
    LET runtime == get_measurements(blocks)
        skipped == IF status = "disabled" THEN {Msr35} ELSE {}
    IN  [error |-> IF DOMAIN driver \cap DOMAIN vbios # {} THEN "RimMeasurementConflict"
                   ELSE IF status = "unknown" THEN "InternalError" ELSE "Ok",
         measres |-> Measres(Mismatched(driver, runtime, skipped)
                             \cup Mismatched(vbios, runtime, skipped)),
         match |-> Genuine(driver, blocks, status) /\ Genuine(vbios, blocks, status)]

SwitchComparison(vbios, blocks) ==
    [error |-> "Ok", measres |-> Measres(Mismatched(vbios, get_measurements(blocks), {})),
     match |-> Genuine(vbios, blocks, "enabled")]

\* Every outcome of generate_set_measurement_claims.
GpuComparisons == {GpuComparison(d, v, b, s) :
                      d \in Golden, v \in Golden, b \in Blocks, s \in NvdecStatus}
SwitchComparisons == {SwitchComparison(v, b) : v \in Golden, b \in Blocks}
Comparisons == IF device = "gpu" THEN GpuComparisons ELSE SwitchComparisons

-----------------------------------------------------------------------------
\* The loop: next evidence, or the end of it.
NextEvidence ==
    /\ stage = "evidence"
    /\ IF Len(out_claims) < Len(evidence)
       THEN stage' = "report" /\ seen' = Append(seen, NothingSeen) /\ UNCHANGED result
       ELSE IF wantsEat THEN stage' = "eat" /\ UNCHANGED <<seen, result>>
       ELSE stage' = "done" /\ result' = "Ok" /\ UNCHANGED seen
    /\ UNCHANGED <<call, out_claims, out_detached_eat, report, claims>>

\* Early returns of AttestationReport::create.
ReportErrors == {"InvalidSignature", "InternalError"}

\* AttestationReport::create: chain, signature, SPDM messages, opaque data.
get_parsed_attestation_report ==
    /\ stage = "report"
    /\ \/ \E n \in Nonces :
             /\ report' = n
             /\ claims' = [NoClaims EXCEPT !.nonce = cur_evidence]
             /\ NoteSeen([NothingSeen EXCEPT !.nonce = n])
             /\ stage' = "claims" /\ UNCHANGED <<call, outputs>>
       \/ Fail(ReportErrors)

NonceMatches == report = cur_evidence

\* Early returns of generate_attestation_report_claims.
ReportClaimsErrors == {"FwidMismatch", "CertChainVerificationFailure", "InternalError"}

\* generate_gpu_evidence_claims and generate_switch_evidence_claims, and
\* add_gpu_mode_claim, which can only fail.
generate_evidence_claims ==
    /\ stage = "claims"
    /\ \/ /\ NonceMatches
          /\ \E good \in BOOLEAN :
                LET chains == IF good THEN {"ar"} ELSE {}
                IN  /\ claims' = [claims EXCEPT !.good = chains]
                    /\ NoteSeen([Last EXCEPT !.good = chains])
          /\ stage' = IF device = "gpu" THEN "driver" ELSE "vbios"
          /\ UNCHANGED <<call, outputs, report>>
       \/ ~NonceMatches /\ Fail({"NonceMismatch"})
       \/ Fail(ReportClaimsErrors)

-----------------------------------------------------------------------------
\* A RIM document, as far as the verifier looks at it.
RimDocuments == [version : BOOLEAN, chain : {"good", "bad", "broken"}, signature : BOOLEAN]

\* The version check of generate_claims_v3 and RimDocument::generate_rim_claims.
RimError(doc) ==
    IF ~doc.version THEN "RimVersionMismatch"
    ELSE IF policy.verify_rim_cert_chain /\ doc.chain = "broken" THEN "CertChainVerificationFailure"
    ELSE IF policy.verify_rim_signature /\ ~doc.signature THEN "RimInvalidSignature"
    ELSE "Ok"

\* Claims of a chain that was not looked at have the OCSP status "undefined".
GoodChain(doc) == policy.verify_rim_cert_chain /\ doc.chain = "good"

\* set_driver_rim_claims, set_vbios_rim_claims, after get_rim.
set_rim_claims(rim, next) ==
    /\ stage = rim
    /\ \/ \E doc \in RimDocuments :
             IF RimError(doc) # "Ok" THEN Fail({RimError(doc)})
             ELSE /\ claims' = [claims EXCEPT
                         !.good = IF GoodChain(doc) THEN @ \cup {rim} ELSE @,
                         !.signed = IF policy.verify_rim_signature THEN @ \cup {rim} ELSE @]
                  /\ NoteSeen([Last EXCEPT
                         !.good = IF doc.chain = "good" THEN @ \cup {rim} ELSE @,
                         !.signed = IF doc.signature THEN @ \cup {rim} ELSE @,
                         !.version = IF doc.version THEN @ \cup {rim} ELSE @])
                  /\ stage' = next /\ UNCHANGED <<call, outputs, report>>
       \/ Fail({"InternalError"})

\* generate_set_measurement_claims, and the claims are complete.
generate_set_measurement_claims ==
    /\ stage = "measurements"
    /\ \/ \E c \in Comparisons :
             IF c.error # "Ok" THEN Fail({c.error})
             ELSE /\ out_claims' = Append(out_claims, [claims EXCEPT !.measres = c.measres])
                  /\ NoteSeen([Last EXCEPT !.match = c.match])
                  /\ stage' = "evidence"
                  /\ UNCHANGED <<call, out_detached_eat, result, report, claims>>
       \/ Fail({"InternalError"})

-----------------------------------------------------------------------------
\* The overall-result policy (claims_evaluator.cpp).
OverallResult(cs) ==
    /\ Len(cs) > 0
    /\ \A i \in DOMAIN cs : cs[i].measres = "success" /\ Chains(device) \subseteq cs[i].good

\* Variation: the label is the type alone.
SubmodKeyIsType(i) == <<device, 0>>

\* "GPU-0", "GPU-1", ...
SubmodKey(i) == <<device, i - 1>>

Submods == LET Keys == {SubmodKey(i) : i \in DOMAIN out_claims}
           IN  [k \in Keys |-> out_claims[CHOOSE i \in DOMAIN out_claims :
                   SubmodKey(i) = k /\ \A j \in DOMAIN out_claims : SubmodKey(j) = k => j <= i]]

SameNonce == \A i, j \in DOMAIN out_claims : out_claims[i].nonce = out_claims[j].nonce

get_detached_eat ==
    /\ stage = "eat"
    /\ \/ /\ SameNonce
          /\ out_detached_eat' =
                [overall |-> [nonce |-> IF out_claims = <<>> THEN NoNonce ELSE out_claims[1].nonce,
                              result |-> OverallResult(out_claims), digests |-> Submods],
                 tokens |-> Submods]
          /\ result' = IF OverallResult(out_claims) THEN "Ok" ELSE "OverallResultFalse"
          /\ stage' = "done" /\ UNCHANGED <<call, out_claims, local>>
       \/ ~SameNonce /\ Fail({"BadArgument"})
       \/ Fail({"InternalError"})

LocalStep ==
    \/ NextEvidence \/ get_parsed_attestation_report \/ generate_evidence_claims
    \/ set_rim_claims("driver", "vbios") \/ set_rim_claims("vbios", "measurements")
    \/ generate_set_measurement_claims \/ get_detached_eat

=============================================================================
