--------------------------- MODULE VerifiersProofs --------------------------
(***************************************************************************)
(* What verify_evidence owes to attest_device, for any number of pieces of *)
(* evidence and of devices in an answer, and any RIM measurements.         *)
(***************************************************************************)
EXTENDS Verifiers, FiniteSetTheorems, SequenceTheorems, TLAPS

Working == {"report", "claims", "driver", "vbios", "measurements"}
LocalStages == Working \cup {"evidence", "eat"}

Notes == [nonce : Nonces \cup {NoNonce}, good : SUBSET Chains("gpu"),
          signed : SUBSET Rims("gpu"), version : SUBSET Rims("gpu"), match : BOOLEAN]

\* A claim that was appended says no more than the documents do.
Finished(i) ==
    /\ out_claims[i].nonce = evidence[i] /\ seen[i].nonce = evidence[i]
    /\ Rims(device) \subseteq seen[i].version
    /\ policy.verify_rim_signature => Rims(device) \subseteq seen[i].signed
    /\ out_claims[i].good \subseteq seen[i].good
    /\ out_claims[i].measres = "success" => seen[i].match

\* The RIM documents that were checked when the call is at a stage.
Checked == IF stage = "vbios" THEN Rims(device) \ {"vbios"}
           ELSE IF stage = "measurements" THEN Rims(device) ELSE {}

\* The current piece of evidence.
CurrentInv ==
    /\ Len(seen) = Len(out_claims) + 1 /\ Len(out_claims) < Len(evidence)
    /\ stage = "driver" => device = "gpu"
    /\ stage # "report" =>
          /\ claims.nonce = cur_evidence /\ claims.good \subseteq Last.good
          /\ Last.nonce = IF stage = "claims" THEN report ELSE cur_evidence
          /\ Checked \subseteq Last.version
          /\ policy.verify_rim_signature => Checked \subseteq Last.signed

LocalInv ==
    /\ RemoteInit
    /\ claims \in Claims /\ report \in Nonces \cup {NoNonce}
    /\ out_claims \in Seq(Claims) /\ seen \in Seq(Notes)
    /\ Len(out_claims) <= Len(evidence)
    /\ \A i \in 1..Len(out_claims) : Finished(i)
    /\ stage \in {"evidence", "eat"} => Len(seen) = Len(out_claims)
    /\ stage = "eat" => Len(out_claims) = Len(evidence) /\ wantsEat
    /\ stage \in Working => CurrentInv

\* Every device of the answer was visited once or is left.
Visited == DOMAIN response.tokens \ left

RemoteInv ==
    /\ response \in ValidResponses /\ EatNonceMatches(response) /\ evidence # <<>>
    /\ response.overall.digests = response.tokens
    /\ left \subseteq DOMAIN response.tokens
    /\ \A k \in Visited : handle_nras_error_claim(response.tokens[k].code) = "Ok"
    /\ out_claims \in Seq(Tokens)
    /\ \E order \in [1..Len(out_claims) -> Visited] :
          /\ \A k \in Visited : \E i \in 1..Len(out_claims) : order[i] = k
          /\ \A i \in 1..Len(out_claims) : out_claims[i] = response.tokens[order[i]]
    /\ Len(out_claims) = Cardinality(Visited)

CallInv ==
    /\ device \in DeviceTypes /\ evidence \in Seq(Nonces) /\ Len(evidence) <= MaxEvidence
    /\ policy \in Policies /\ wantsEat \in BOOLEAN
    /\ stage \in LocalStages \cup {"idle", "request", "append", "done"}
    /\ stage # "done" => out_detached_eat = NoEat /\ result = "none"

StageInv ==
    /\ stage = "idle" => LocalInit /\ RemoteInit
    /\ stage \in LocalStages => LocalInv
    /\ stage = "request" => RemoteInit
    /\ stage = "append" => RemoteInv

Properties == ClaimsAreComplete /\ AcceptedIsBacked /\ EatIsFaithful

IInv == CallInv /\ StageInv /\ Properties

-----------------------------------------------------------------------------
\* compare_measurements against the careful reading of the documents: no
\* mismatch means that the RIM is matched by the blocks.
LEMMA NoMismatchIsGenuine ==
    ASSUME NEW golden \in Golden, NEW blocks \in Blocks, NEW status \in {"enabled", "disabled"},
           NEW skipped, skipped = IF status = "disabled" THEN {Msr35} ELSE {}
    PROVE  Mismatched(golden, get_measurements(blocks), skipped) = {} <=>
               Genuine(golden, blocks, status)
<1>1. DOMAIN blocks \subseteq Int /\ DOMAIN golden \subseteq Nat
  <2>1. PICK S \in SUBSET (Indices \cup {i + 1 : i \in Indices}) : blocks \in [S -> Values]
    BY DEF Blocks
  <2>2. PICK T \in SUBSET Indices : golden \in [T -> SUBSET Values \ {{}}]
    BY DEF Golden
  <2>3. DOMAIN blocks = S /\ DOMAIN golden = T
    BY <2>1, <2>2
  <2> QED
    BY <2>3, LocalVerifierConstants
<1> DEFINE runtime == get_measurements(blocks)
<1>2. \A i \in DOMAIN golden : i \in DOMAIN runtime <=> i + 1 \in DOMAIN blocks
  BY <1>1 DEF get_measurements
<1>3. \A i \in DOMAIN golden : i \in DOMAIN runtime => runtime[i] = blocks[i + 1]
  BY <1>1 DEF get_measurements
<1>4. \A i \in DOMAIN golden : i \in skipped <=> (i = Msr35 /\ status = "disabled")
  OBVIOUS
<1> HIDE DEF runtime
<1>5. Mismatched(golden, runtime, skipped) = {} <=>
          \A i \in DOMAIN golden : i \in skipped \/ (i \in DOMAIN runtime /\ runtime[i] \in golden[i])
  BY DEF Mismatched
<1>6. (\A i \in DOMAIN golden : i \in skipped \/ (i \in DOMAIN runtime /\ runtime[i] \in golden[i]))
          <=> Genuine(golden, blocks, status)
  BY <1>2, <1>3, <1>4 DEF Genuine
<1> QED
  BY <1>5, <1>6 DEF runtime

\* generate_set_measurement_claims succeeds on the measurements exactly when
\* they match, unless it returns an error.
LEMMA ComparisonIsGenuine ==
    ASSUME NEW c \in Comparisons, c.error = "Ok"
    PROVE  /\ c.measres \in {"success", "fail"} /\ c.match \in BOOLEAN
           /\ c.measres = "success" <=> c.match
<1>1. CASE device = "gpu"
  <2>1. PICK d \in Golden, v \in Golden, b \in Blocks, s \in NvdecStatus : c = GpuComparison(d, v, b, s)
    BY <1>1 DEF Comparisons, GpuComparisons
  <2> DEFINE skipped == IF s = "disabled" THEN {Msr35} ELSE {}
             md == Mismatched(d, get_measurements(b), skipped)
             mv == Mismatched(v, get_measurements(b), skipped)
  <2>2. s \in {"enabled", "disabled"}
    BY <2>1 DEF GpuComparison, NvdecStatus
  <2>3. (md = {} <=> Genuine(d, b, s)) /\ (mv = {} <=> Genuine(v, b, s))
    BY <2>2, NoMismatchIsGenuine
  <2>4. c.measres = Measres(md \cup mv) /\ c.match = (Genuine(d, b, s) /\ Genuine(v, b, s))
    BY <2>1 DEF GpuComparison
  <2> HIDE DEF md, mv
  <2> QED
    BY <2>3, <2>4, Zenon DEF Measres
<1>2. CASE device # "gpu"
  <2>1. PICK v \in Golden, b \in Blocks : c = SwitchComparison(v, b)
    BY <1>2 DEF Comparisons, SwitchComparisons
  <2>2. Mismatched(v, get_measurements(b), {}) = {} <=> Genuine(v, b, "enabled")
    BY NoMismatchIsGenuine
  <2>3. c.measres = Measres(Mismatched(v, get_measurements(b), {})) /\ c.match = Genuine(v, b, "enabled")
    BY <2>1 DEF SwitchComparison
  <2>4. Genuine(v, b, "enabled") \in BOOLEAN
    BY DEF Genuine
  <2> QED
    BY <2>2, <2>3, <2>4 DEF Measres
<1> QED
  BY <1>1, <1>2

\* The evidence of a call is a sequence.
LEMMA EvidenceIsSeq ==
    ASSUME NEW e \in Evidences PROVE e \in Seq(Nonces) /\ Len(e) <= MaxEvidence
<1>1. PICK n \in 0..MaxEvidence : e \in [1..n -> Nonces]
  BY DEF Evidences
<1>2. n \in Nat /\ n <= MaxEvidence
  BY VerifyEvidenceConstants
<1>3. e \in Seq(Nonces) /\ Len(e) = n
  BY <1>1, <1>2
<1> QED
  BY <1>2, <1>3

\* The labels of the claims of an EAT are all different.
LEMMA SubmodsProperty ==
    ASSUME device \in DeviceTypes, out_claims \in Seq(Claims), Len(out_claims) <= MaxEvidence
    PROVE  /\ Submods \in SubmodMaps
           /\ Cardinality(DOMAIN Submods) = Len(out_claims)
<1> DEFINE n == Len(out_claims)
           Keys == {SubmodKey(i) : i \in 1..n}
           label == [i \in 1..n |-> SubmodKey(i)]
           Claim(k) == CHOOSE i \in DOMAIN out_claims :
               SubmodKey(i) = k /\ \A j \in DOMAIN out_claims : SubmodKey(j) = k => j <= i
<1>1. n \in Nat /\ DOMAIN out_claims = 1..n /\ \A i \in 1..n : out_claims[i] \in Claims
  OBVIOUS
<1>2. \A i, j \in 1..n : SubmodKey(i) = SubmodKey(j) => i = j
  BY DEF SubmodKey
<1>3. \A k \in Keys : Claim(k) \in 1..n
  <2>1. ASSUME NEW k \in Keys PROVE Claim(k) \in 1..n
    <3>1. PICK i \in 1..n : k = SubmodKey(i)
      OBVIOUS
    <3>2. \A j \in DOMAIN out_claims : SubmodKey(j) = k => j <= i
      BY <1>1, <1>2, <3>1
    <3> QED
      BY <1>1, <3>1, <3>2
  <2> QED
    BY <2>1, Zenon
<1>4. Submods = [k \in Keys |-> out_claims[Claim(k)]]
  BY <1>1 DEF Submods
<1>5. Keys \subseteq DeviceTypes \X (0..MaxEvidence)
  BY <1>1, VerifyEvidenceConstants DEF SubmodKey
<1>6. label \in Bijection(1..n, Keys)
  <2>1. label \in [1..n -> Keys] /\ \A k \in Keys : \E i \in 1..n : label[i] = k
    OBVIOUS
  <2>2. IsInjective(label)
    BY <1>2 DEF IsInjective
  <2> QED
    BY <2>1, <2>2 DEF Bijection, Injection, Surjection
<1> HIDE DEF n, Keys, label, Claim
<1>7. Submods \in [Keys -> Claims]
  BY <1>1, <1>3, <1>4
<1>8. Submods \in SubmodMaps
  BY <1>5, <1>7 DEF SubmodMaps
<1>9. IsFiniteSet(1..n) /\ Cardinality(1..n) = n
  BY <1>1, FS_Interval
<1>10. Cardinality(Keys) = n
  BY <1>6, <1>9, FS_Bijection DEF ExistsBijection
<1>11. DOMAIN Submods = Keys
  BY <1>7
<1> QED
  BY <1>8, <1>10, <1>11 DEF n

-----------------------------------------------------------------------------
\* The invariant holds before the first call.
LEMMA IInvInit == Init => IInv
<1> SUFFICES ASSUME Init PROVE IInv
  OBVIOUS
<1>1. stage = "idle" /\ LocalInit /\ RemoteInit
  BY DEF Init, CallInit
<1>2. evidence \in Seq(Nonces) /\ Len(evidence) = 0
  BY DEF Init, CallInit
<1>3. CallInv
  <2>1. policy \in Policies /\ device \in DeviceTypes /\ wantsEat \in BOOLEAN
    BY Zenon DEF Init, CallInit, Policies, DeviceTypes
  <2>2. out_detached_eat = NoEat /\ result = "none"
    BY DEF Init, CallInit
  <2> QED
    BY <1>1, <1>2, <2>1, <2>2, VerifyEvidenceConstants DEF CallInv
<1> QED
  BY <1>1, <1>3 DEF IInv, StageInv, LocalStages, Working, Properties, ClaimsAreComplete, HasVerdict,
     AcceptedIsBacked, EatIsFaithful

\* An early return owes nothing.
LEMMA ReturnWithKeeps ==
    ASSUME IInv, stage # "done", NEW error \in Errors, ReturnWith(error)
    PROVE  IInv'
<1>1. /\ stage' = "done" /\ result' = error /\ UNCHANGED call
      /\ out_detached_eat' = NoEat
  BY DEF IInv, CallInv, ReturnWith
<1>2. error \notin Verified /\ error # "Ok"
  BY DEF Errors, Verified
<1>3. CallInv'
  BY <1>1 DEF IInv, CallInv, call
<1>4. StageInv'
  BY <1>1 DEF StageInv, LocalStages, Working
<1>5. ClaimsAreComplete' /\ AcceptedIsBacked' /\ EatIsFaithful'
  BY <1>1, <1>2 DEF ClaimsAreComplete, HasVerdict, AcceptedIsBacked, EatIsFaithful
<1> QED
  BY <1>3, <1>4, <1>5 DEF IInv, Properties

\* The same for the early returns of the local verifiers.
LEMMA FailKeeps ==
    ASSUME IInv, stage # "done", NEW errors \in SUBSET Errors, Fail(errors)
    PROVE  IInv'
BY ReturnWithKeeps DEF Fail

\* ... and for those of the remote ones.
LEMMA RemoteFailKeeps ==
    ASSUME IInv, stage # "done", NEW errors \in SUBSET Errors, RemoteFail(errors)
    PROVE  IInv'
BY ReturnWithKeeps DEF RemoteFail

\* A step between stages of a local call keeps the invariant if it keeps the
\* local part.
LEMMA LocalStepKeeps ==
    ASSUME IInv, UNCHANGED call, UNCHANGED <<out_detached_eat, result>>,
           stage # "done", stage' \in LocalStages, LocalInv'
    PROVE  IInv'
<1>1. stage' # "done" /\ stage' \notin {"idle", "request", "append"}
  BY DEF LocalStages, Working
<1>2. CallInv'
  BY <1>1 DEF IInv, CallInv, call
<1>3. StageInv'
  BY <1>1 DEF StageInv
<1>4. Properties'
  BY <1>1 DEF Properties, ClaimsAreComplete, HasVerdict, AcceptedIsBacked, EatIsFaithful
<1> QED
  BY <1>2, <1>3, <1>4 DEF IInv

\* Noting something about the current piece of evidence leaves the finished
\* ones alone.
LEMMA NoteKeeps ==
    ASSUME IInv, stage \in Working, UNCHANGED <<call, out_claims>>, NEW note \in Notes, NoteSeen(note)
    PROVE  /\ seen' \in Seq(Notes) /\ Len(seen') = Len(seen) /\ Last' = note
           /\ \A i \in 1..Len(out_claims) : seen'[i] = seen[i]
           /\ \A i \in 1..Len(out_claims') : Finished(i)'
<1>1. /\ seen \in Seq(Notes) /\ Len(seen) = Len(out_claims) + 1 /\ out_claims \in Seq(Claims)
      /\ \A i \in 1..Len(out_claims) : Finished(i)
  BY DEF IInv, StageInv, LocalStages, LocalInv, CurrentInv
<1>2. seen' = [seen EXCEPT ![Len(seen)] = note]
  BY DEF NoteSeen
<1>3. Len(out_claims) \in Nat
  BY <1>1
<1>4. /\ seen' \in Seq(Notes) /\ Len(seen') = Len(seen) /\ seen'[Len(seen)] = note
      /\ \A i \in 1..Len(out_claims) : seen'[i] = seen[i]
  BY <1>1, <1>2, <1>3
<1>5. Last' = note
  BY <1>4 DEF Last
<1>6. \A i \in 1..Len(out_claims') : Finished(i)'
  BY <1>1, <1>4 DEF Finished, call
<1> QED
  BY <1>4, <1>5, <1>6

\* What is known of the current piece of evidence.
LEMMA CurrentFacts ==
    ASSUME IInv, stage \in Working
    PROVE  /\ RemoteInit /\ claims \in Claims /\ report \in Nonces \cup {NoNonce}
           /\ out_claims \in Seq(Claims) /\ seen \in Seq(Notes)
           /\ Len(out_claims) \in Nat /\ Len(seen) = Len(out_claims) + 1
           /\ Len(out_claims) < Len(evidence) /\ cur_evidence \in Nonces
           /\ Last \in Notes /\ CurrentInv
           /\ \A i \in 1..Len(out_claims) : Finished(i)
<1>1. LocalInv /\ CurrentInv /\ evidence \in Seq(Nonces)
  BY DEF IInv, CallInv, StageInv, LocalStages, LocalInv
<1>2. Len(out_claims) \in Nat /\ Len(seen) = Len(out_claims) + 1 /\ Len(out_claims) < Len(evidence)
  BY <1>1 DEF LocalInv, CurrentInv
<1>3. cur_evidence \in Nonces
  BY <1>1, <1>2 DEF cur_evidence
<1>4. Last \in Notes
  BY <1>1, <1>2 DEF LocalInv, Last
<1> QED
  BY <1>1, <1>2, <1>3, <1>4 DEF LocalInv

\* The loop over the evidence.
LEMMA NextEvidenceKeeps == ASSUME IInv, NextEvidence, UNCHANGED remote PROVE IInv'
<1>1. stage = "evidence" /\ LocalInv /\ evidence \in Seq(Nonces)
  BY DEF NextEvidence, IInv, CallInv, StageInv, LocalStages
<1>2. UNCHANGED <<call, out_claims, out_detached_eat, report, claims, remote>>
  BY DEF NextEvidence
<1>3. out_claims \in Seq(Claims) /\ Len(out_claims) \in Nat /\ seen \in Seq(Notes)
      /\ Len(seen) = Len(out_claims) /\ Len(out_claims) <= Len(evidence) /\ Len(evidence) \in Nat
      /\ \A i \in 1..Len(out_claims) : Finished(i)
  BY <1>1 DEF LocalInv
<1>4. CASE Len(out_claims) < Len(evidence)
  <2>1. stage' = "report" /\ seen' = Append(seen, NothingSeen) /\ result' = result
    BY <1>4 DEF NextEvidence
  <2>2. NothingSeen \in Notes
    BY DEF NothingSeen, Notes
  <2>3. seen' \in Seq(Notes) /\ Len(seen') = Len(out_claims) + 1
        /\ \A i \in 1..Len(out_claims) : seen'[i] = seen[i]
    BY <1>3, <2>1, <2>2
  <2>4. \A i \in 1..Len(out_claims') : Finished(i)'
    BY <1>2, <1>3, <2>3, ZenonT(30) DEF Finished, call
  <2>5. CurrentInv'
    BY <1>2, <1>4, <2>1, <2>3 DEF CurrentInv, call
  <2>6. LocalInv'
    BY <1>1, <1>2, <2>1, <2>3, <2>4, <2>5 DEF LocalInv, RemoteInit, remote, call
  <2> QED
    BY <1>1, <1>2, <2>1, <2>6, LocalStepKeeps DEF LocalStages, Working
<1>5. CASE ~(Len(out_claims) < Len(evidence)) /\ wantsEat
  <2>1. stage' = "eat" /\ UNCHANGED <<seen, result>>
    BY <1>5 DEF NextEvidence
  <2>2. \A i \in 1..Len(out_claims') : Finished(i)'
    BY <1>2, <1>3, <2>1 DEF Finished, call
  <2>3. LocalInv'
    BY <1>1, <1>2, <1>3, <1>5, <2>1, <2>2 DEF LocalInv, RemoteInit, remote, call, Working
  <2> QED
    BY <1>1, <1>2, <2>1, <2>3, LocalStepKeeps DEF LocalStages
<1>6. CASE ~(Len(out_claims) < Len(evidence)) /\ ~wantsEat
  <2>1. stage' = "done" /\ result' = "Ok" /\ seen' = seen
    BY <1>6 DEF NextEvidence
  <2>2. Len(out_claims) = Len(evidence) /\ DOMAIN evidence = 1..Len(out_claims)
    BY <1>1, <1>3, <1>6
  <2>3. CallInv'
    BY <1>2, <2>1 DEF IInv, CallInv, call
  <2>4. StageInv'
    BY <2>1 DEF StageInv, LocalStages, Working
  <2>5. Locally'
    BY <1>1, <1>2 DEF LocalInv, RemoteInit, Locally, remote
  <2>6. ClaimsAreComplete'
    BY <1>2, <1>3, <2>2, <2>5 DEF ClaimsAreComplete, Finished, call
  <2>7. LocallyBacked'
    BY <1>2, <1>3, <1>6, <2>1, <2>2 DEF LocallyBacked, Finished, call
  <2>8. EatIsFaithful'
    BY <1>1, <1>2, <1>6 DEF EatIsFaithful, IInv, CallInv, call
  <2> QED
    BY <2>3, <2>4, <2>5, <2>6, <2>7, <2>8 DEF IInv, Properties, AcceptedIsBacked
<1> QED
  BY <1>4, <1>5, <1>6 DEF IInv, CallInv

\* AttestationReport::create.
LEMMA ReportKeeps == ASSUME IInv, get_parsed_attestation_report, UNCHANGED remote PROVE IInv'
<1>1. stage = "report" /\ stage \in Working /\ stage # "done"
  BY DEF get_parsed_attestation_report, Working
<1>2. CASE Fail(ReportErrors)
  BY <1>1, <1>2, FailKeeps DEF ReportErrors, Errors
<1>3. ASSUME NEW n \in Nonces, report' = n, claims' = [NoClaims EXCEPT !.nonce = cur_evidence],
             NoteSeen([NothingSeen EXCEPT !.nonce = n]), stage' = "claims", UNCHANGED <<call, outputs>>
      PROVE  IInv'
  <2> DEFINE note == [NothingSeen EXCEPT !.nonce = n]
  <2>0. NothingSeen \in Notes /\ NothingSeen.good = {} /\ NothingSeen.version = {} /\ NothingSeen.signed = {}
    BY DEF NothingSeen, Notes
  <2>1. note \in Notes /\ NoteSeen(note) /\ note.nonce = n
        /\ note.good = {} /\ note.version = {} /\ note.signed = {}
    BY <1>3, <2>0 DEF Notes
  <2>2. claims' = [nonce |-> cur_evidence, good |-> {}, signed |-> {}, measres |-> "fail"]
    BY <1>3 DEF NoClaims
  <2>3. claims' \in Claims
    BY <1>1, <2>2, CurrentFacts DEF Claims
  <2>4. UNCHANGED <<call, out_claims>>
    BY <1>3 DEF outputs
  <2> HIDE DEF note
  <2>6. /\ seen' \in Seq(Notes) /\ Len(seen') = Len(seen) /\ Last' = note
        /\ \A i \in 1..Len(out_claims') : Finished(i)'
    BY <1>1, <2>1, <2>4, NoteKeeps
  <2>7. cur_evidence' = cur_evidence /\ claims'.nonce = cur_evidence /\ claims'.good = {}
    BY <2>2, <2>4 DEF cur_evidence, call
  <2>8. CurrentInv'
    BY <1>1, <1>3, <2>1, <2>4, <2>6, <2>7, CurrentFacts DEF CurrentInv, Checked, call
  <2>9. LocalInv'
    BY <1>1, <1>3, <2>3, <2>4, <2>6, <2>8, CurrentFacts DEF LocalInv, RemoteInit, remote, call
  <2> QED
    BY <1>1, <1>3, <2>9, LocalStepKeeps DEF LocalStages, Working, outputs
<1> QED
  BY <1>2, <1>3, Zenon DEF get_parsed_attestation_report

\* generate_gpu_evidence_claims, generate_switch_evidence_claims.
LEMMA EvidenceClaimsKeeps == ASSUME IInv, generate_evidence_claims, UNCHANGED remote PROVE IInv'
<1>1. stage = "claims" /\ stage \in Working /\ stage # "done"
  BY DEF generate_evidence_claims, Working
<1>2. CASE Fail({"NonceMismatch"}) \/ Fail(ReportClaimsErrors)
  BY <1>1, <1>2, FailKeeps DEF ReportClaimsErrors, Errors
<1>3. ASSUME NonceMatches, NEW chains \in {{}, {"ar"}},
             claims' = [claims EXCEPT !.good = chains], NoteSeen([Last EXCEPT !.good = chains]),
             stage' = IF device = "gpu" THEN "driver" ELSE "vbios",
             UNCHANGED <<call, outputs, report>>
      PROVE  IInv'
  <2> DEFINE note == [Last EXCEPT !.good = chains]
  <2>1. chains \subseteq Chains("gpu")
    BY DEF Chains
  <2>2. Last \in Notes /\ claims \in Claims /\ CurrentInv
    BY <1>1, CurrentFacts
  <2>3. note \in Notes /\ note.nonce = Last.nonce /\ note.good = chains
        /\ note.version = Last.version /\ note.signed = Last.signed
    BY <2>1, <2>2 DEF Notes
  <2>4. claims' \in Claims /\ claims'.nonce = claims.nonce /\ claims'.good = chains
    BY <1>3, <2>1, <2>2 DEF Claims
  <2>5. UNCHANGED <<call, out_claims>> /\ NoteSeen(note)
    BY <1>3 DEF outputs
  <2> HIDE DEF note
  <2>6. /\ seen' \in Seq(Notes) /\ Len(seen') = Len(seen) /\ Last' = note
        /\ \A i \in 1..Len(out_claims') : Finished(i)'
    BY <1>1, <2>3, <2>5, NoteKeeps
  <2>7. cur_evidence' = cur_evidence /\ report = cur_evidence
    BY <1>3, <2>5 DEF cur_evidence, call, NonceMatches
  <2>8. stage' \in {"driver", "vbios"} /\ (stage' = "driver" <=> device = "gpu")
    BY <1>3
  <2>9. Checked' = {}
    BY <2>5, <2>8 DEF Checked, Rims, Chains, call
  <2>10. CurrentInv'
    BY <1>1, <2>2, <2>3, <2>4, <2>5, <2>6, <2>7, <2>8, <2>9, ZenonT(30) DEF CurrentInv, call
  <2>11. LocalInv'
    BY <1>1, <1>3, <2>4, <2>5, <2>6, <2>8, <2>10, CurrentFacts, SMTT(30) DEF LocalInv, RemoteInit, remote, call
  <2> QED
    BY <1>1, <1>3, <2>8, <2>11, LocalStepKeeps DEF LocalStages, Working, outputs
<1> QED
  BY <1>1, <1>2, <1>3 DEF generate_evidence_claims

\* set_driver_rim_claims and set_vbios_rim_claims.
LEMMA RimClaimsKeeps ==
    ASSUME IInv, NEW rim \in {"driver", "vbios"}, NEW next,
           next = (IF rim = "driver" THEN "vbios" ELSE "measurements"),
           set_rim_claims(rim, next), UNCHANGED remote
    PROVE  IInv'
<1>1. stage = rim /\ stage \in Working /\ stage # "done" /\ stage # "claims" /\ stage # "report"
  BY Zenon DEF set_rim_claims, Working
<1>2. CASE Fail({"InternalError"})
  BY <1>1, <1>2, FailKeeps DEF Errors
<1>3. ASSUME NEW doc \in RimDocuments, RimError(doc) # "Ok", Fail({RimError(doc)}) PROVE IInv'
  <2>1. RimError(doc) \in Errors
    BY <1>3 DEF RimError, Errors
  <2> QED
    BY <1>1, <1>3, <2>1, FailKeeps
<1>4. ASSUME NEW doc \in RimDocuments, RimError(doc) = "Ok",
             claims' = [claims EXCEPT
                 !.good = IF GoodChain(doc) THEN @ \cup {rim} ELSE @,
                 !.signed = IF policy.verify_rim_signature THEN @ \cup {rim} ELSE @],
             NoteSeen([Last EXCEPT
                 !.good = IF doc.chain = "good" THEN @ \cup {rim} ELSE @,
                 !.signed = IF doc.signature THEN @ \cup {rim} ELSE @,
                 !.version = IF doc.version THEN @ \cup {rim} ELSE @]),
             stage' = next, UNCHANGED <<call, outputs, report>>
      PROVE  IInv'
  <2> DEFINE note == [Last EXCEPT
                 !.good = IF doc.chain = "good" THEN @ \cup {rim} ELSE @,
                 !.signed = IF doc.signature THEN @ \cup {rim} ELSE @,
                 !.version = IF doc.version THEN @ \cup {rim} ELSE @]
  <2>1. rim \in Chains("gpu") /\ rim \in Rims("gpu")
    BY DEF Chains, Rims
  <2>2. Last \in Notes /\ claims \in Claims /\ CurrentInv
    BY <1>1, CurrentFacts
  <2>3. doc.version /\ (policy.verify_rim_signature => doc.signature)
    BY <1>4 DEF RimError, RimDocuments
  <2>4. GoodChain(doc) => doc.chain = "good"
    BY DEF GoodChain
  <2>5. /\ note \in Notes /\ note.nonce = Last.nonce
        /\ note.good = IF doc.chain = "good" THEN Last.good \cup {rim} ELSE Last.good
        /\ note.signed = IF doc.signature THEN Last.signed \cup {rim} ELSE Last.signed
        /\ note.version = IF doc.version THEN Last.version \cup {rim} ELSE Last.version
    BY <2>1, <2>2, Zenon DEF Notes
  <2>6. /\ claims' \in Claims /\ claims'.nonce = claims.nonce
        /\ claims'.good = IF GoodChain(doc) THEN claims.good \cup {rim} ELSE claims.good
    BY <1>4, <2>1, <2>2, Zenon DEF Claims
  <2>7. UNCHANGED <<call, out_claims>> /\ NoteSeen(note)
    BY <1>4 DEF outputs
  <2> HIDE DEF note
  <2>8. /\ seen' \in Seq(Notes) /\ Len(seen') = Len(seen) /\ Last' = note
        /\ \A i \in 1..Len(out_claims') : Finished(i)'
    BY <1>1, <2>5, <2>7, NoteKeeps
  <2>9. cur_evidence' = cur_evidence
    BY <2>7 DEF cur_evidence, call
  <2>10. Checked' = Checked \cup {rim}
    <3>1. CASE rim = "driver"
      <4>1. device = "gpu"
        BY <1>1, <2>2, <3>1 DEF CurrentInv
      <4> QED
        BY <1>1, <1>4, <2>7, <3>1, <4>1 DEF Checked, Rims, Chains, call
    <3>2. CASE rim = "vbios"
      BY <1>1, <1>4, <2>7, <3>2 DEF Checked, Rims, Chains, call
    <3> QED
      BY <3>1, <3>2
  <2>11. stage' \in {"vbios", "measurements"}
    BY <1>4
  <2>12. claims'.good \subseteq note.good
    BY <1>1, <2>2, <2>4, <2>5, <2>6, ZenonT(30) DEF CurrentInv
  <2>13. /\ Checked' \subseteq note.version
         /\ policy.verify_rim_signature => Checked' \subseteq note.signed
    BY <1>1, <2>2, <2>3, <2>5, <2>10, ZenonT(30) DEF CurrentInv
  <2>14. CurrentInv'
    BY <1>1, <2>2, <2>5, <2>6, <2>7, <2>8, <2>9, <2>11, <2>12, <2>13, ZenonT(30) DEF CurrentInv, call
  <2>15. LocalInv'
    BY <1>1, <1>4, <2>6, <2>7, <2>8, <2>11, <2>14, CurrentFacts, SMTT(30) DEF LocalInv, RemoteInit, remote, call
  <2> QED
    BY <1>1, <1>4, <2>11, <2>15, LocalStepKeeps DEF LocalStages, Working, outputs
<1> QED
  BY <1>2, <1>3, <1>4, ZenonT(30) DEF set_rim_claims

\* generate_set_measurement_claims, and the claim is complete.
LEMMA MeasurementsKeep == ASSUME IInv, generate_set_measurement_claims, UNCHANGED remote PROVE IInv'
<1>1. stage = "measurements" /\ stage \in Working /\ stage # "done"
  BY DEF generate_set_measurement_claims, Working
<1>2. CASE Fail({"InternalError"})
  BY <1>1, <1>2, FailKeeps DEF Errors
<1>3. ASSUME NEW c \in Comparisons, c.error # "Ok", Fail({c.error}) PROVE IInv'
  <2>1. c.error \in {"RimMeasurementConflict", "InternalError"}
    <3>1. CASE device = "gpu"
      <4>1. PICK d \in Golden, v \in Golden, b \in Blocks, s \in NvdecStatus :
                c = GpuComparison(d, v, b, s)
        BY <3>1 DEF Comparisons, GpuComparisons
      <4> QED
        BY <1>3, <4>1 DEF GpuComparison
    <3>2. CASE device # "gpu"
      <4>1. PICK v \in Golden, b \in Blocks : c = SwitchComparison(v, b)
        BY <3>2 DEF Comparisons, SwitchComparisons
      <4> QED
        BY <1>3, <4>1 DEF SwitchComparison
    <3> QED
      BY <3>1, <3>2
  <2> QED
    BY <1>1, <1>3, <2>1, FailKeeps DEF Errors
<1>4. ASSUME NEW c \in Comparisons, c.error = "Ok",
             out_claims' = Append(out_claims, [claims EXCEPT !.measres = c.measres]),
             NoteSeen([Last EXCEPT !.match = c.match]), stage' = "evidence",
             UNCHANGED <<call, out_detached_eat, result, report, claims>>
      PROVE  IInv'
  <2> DEFINE note == [Last EXCEPT !.match = c.match]
             claim == [claims EXCEPT !.measres = c.measres]
  <2>0. PICK n \in Nat : n = Len(out_claims)
    BY <1>1, CurrentFacts
  <2>1. /\ c.measres \in {"success", "fail"} /\ c.match \in BOOLEAN
        /\ c.measres = "success" <=> c.match
    BY <1>4, ComparisonIsGenuine
  <2>2. /\ RemoteInit /\ claims \in Claims /\ report \in Nonces \cup {NoNonce}
        /\ out_claims \in Seq(Claims) /\ seen \in Seq(Notes)
        /\ n \in Nat /\ Len(seen) = n + 1 /\ n < Len(evidence)
        /\ Last \in Notes /\ CurrentInv
        /\ \A i \in 1..n : Finished(i)
    BY <1>1, <2>0, CurrentFacts
  <2>3. /\ note \in Notes /\ note.nonce = Last.nonce /\ note.good = Last.good
        /\ note.signed = Last.signed /\ note.version = Last.version /\ note.match = c.match
    BY <2>1, <2>2, Zenon DEF Notes
  <2>4. claim \in Claims /\ claim.nonce = claims.nonce /\ claim.good = claims.good
        /\ claim.measres = c.measres
    BY <2>1, <2>2 DEF Claims
  <2>5. seen' = [seen EXCEPT ![n + 1] = note] /\ out_claims' = Append(out_claims, claim)
    BY <1>4, <2>2 DEF NoteSeen
  <2>6. note.nonce = evidence[n + 1] /\ claim.nonce = evidence[n + 1] /\ claim.good \subseteq note.good
        /\ Rims(device) \subseteq note.version
        /\ (policy.verify_rim_signature => Rims(device) \subseteq note.signed)
    BY <1>1, <2>0, <2>2, <2>3, <2>4 DEF CurrentInv, Checked, cur_evidence
  <2> HIDE DEF note, claim
  <2>7. seen' \in Seq(Notes) /\ Len(seen') = n + 1 /\ seen'[n + 1] = note
        /\ \A i \in 1..n : seen'[i] = seen[i]
    BY <2>2, <2>3, <2>5
  <2>8. out_claims' \in Seq(Claims) /\ Len(out_claims') = n + 1 /\ out_claims'[n + 1] = claim
        /\ \A i \in 1..n : out_claims'[i] = out_claims[i]
    BY <2>0, <2>2, <2>4, <2>5
  <2>9. Finished(n + 1)'
    BY <1>4, <2>1, <2>3, <2>4, <2>6, <2>7, <2>8, Zenon DEF Finished, call
  <2>10. \A i \in 1..n : Finished(i)'
    BY <1>4, <2>2, <2>7, <2>8, ZenonT(30) DEF Finished, call
  <2>11. \A i \in 1..Len(out_claims') : Finished(i)'
    BY <2>2, <2>8, <2>9, <2>10
  <2>12. Len(out_claims') <= Len(evidence')
    BY <1>4, <2>2, <2>8 DEF call, IInv, CallInv
  <2>13. LocalInv'
    BY <1>4, <2>2, <2>7, <2>8, <2>11, <2>12, ZenonT(30) DEF LocalInv, RemoteInit, remote, call, Working
  <2> QED
    BY <1>1, <1>4, <2>13, LocalStepKeeps DEF LocalStages
<1> QED
  BY <1>2, <1>3, <1>4, Zenon DEF generate_set_measurement_claims

\* get_detached_eat: the EAT says what the call returns and lists every claim.
LEMMA DetachedEatKeeps == ASSUME IInv, get_detached_eat, UNCHANGED remote PROVE IInv'
<1>1. stage = "eat" /\ stage # "done"
  BY DEF get_detached_eat
<1>2. CASE Fail({"BadArgument"}) \/ Fail({"InternalError"})
  BY <1>1, <1>2, FailKeeps DEF Errors
<1>3. ASSUME SameNonce,
             out_detached_eat' =
                [overall |-> [nonce |-> IF out_claims = <<>> THEN NoNonce ELSE out_claims[1].nonce,
                              result |-> OverallResult(out_claims), digests |-> Submods],
                 tokens |-> Submods],
             result' = IF OverallResult(out_claims) THEN "Ok" ELSE "OverallResultFalse",
             stage' = "done", UNCHANGED <<call, out_claims, local>>
      PROVE  IInv'
  <2> DEFINE nonce == IF out_claims = <<>> THEN NoNonce ELSE out_claims[1].nonce
             n == Len(out_claims)
             eat == [overall |-> [nonce |-> nonce, result |-> OverallResult(out_claims),
                                  digests |-> Submods], tokens |-> Submods]
  <2>1. LocalInv /\ device \in DeviceTypes /\ evidence \in Seq(Nonces) /\ Len(evidence) <= MaxEvidence
    BY <1>1 DEF IInv, CallInv, StageInv, LocalStages
  <2>2. /\ out_claims \in Seq(Claims) /\ n \in Nat /\ Len(seen) = n
        /\ n = Len(evidence) /\ DOMAIN evidence = 1..n /\ DOMAIN out_claims = 1..n /\ wantsEat
        /\ \A i \in 1..n : Finished(i)
    BY <1>1, <2>1 DEF LocalInv
  <2>3. Submods \in SubmodMaps /\ Cardinality(DOMAIN Submods) = n
    BY <2>1, <2>2, SubmodsProperty
  <2>4. OverallResult(out_claims) \in BOOLEAN
    BY DEF OverallResult
  <2>5. nonce \in Nonces \cup {NoNonce} /\ (evidence # <<>> => nonce # NoNonce)
    <3>1. CASE out_claims = <<>>
      BY <2>1, <2>2, <3>1
    <3>2. CASE out_claims # <<>>
      <4>1. n > 0 /\ Finished(1)
        BY <2>2, <3>2
      <4>2. evidence[1] \in Nonces /\ nonce = evidence[1]
        BY <2>1, <2>2, <3>2, <4>1 DEF Finished
      <4> QED
        BY <4>2, VerifyEvidenceConstants
    <3> QED
      BY <3>1, <3>2
  <2>6. out_detached_eat' = eat
    BY <1>3
  <2> HIDE DEF nonce
  <2>7. /\ eat.overall.nonce = nonce /\ eat.overall.result = OverallResult(out_claims)
        /\ eat.overall.digests = Submods /\ eat.tokens = Submods
    OBVIOUS
  <2>8. eat # NoEat
    <3>1. [nonce |-> nonce, result |-> OverallResult(out_claims), digests |-> Submods]
             \in [nonce : Nonces \cup {NoNonce}, result : BOOLEAN, digests : SubmodMaps]
      BY <2>3, <2>4, <2>5
    <3>2. eat \in LocalEats
      BY <2>3, <3>1 DEF LocalEats
    <3> QED
      BY <3>2, NoEatIsNone
  <2>9. evidence # <<>> => ValidEat(eat)
    BY <2>5, <2>7 DEF ValidEat
  <2> HIDE DEF eat
  <2>10. result' \in Verified /\ (result' = "Ok" <=> OverallResult(out_claims))
    BY <1>3, <2>4 DEF Verified
  <2>11. EatIsFaithful'
    <3>1. (out_detached_eat' # NoEat) /\ wantsEat' /\ result' \in Verified
      BY <1>3, <2>2, <2>6, <2>8, <2>10 DEF call
    <3>2. out_detached_eat'.overall.result <=> result' = "Ok"
      BY <2>6, <2>7, <2>10
    <3>3. Cardinality(DOMAIN out_detached_eat'.tokens) = Len(out_claims')
      BY <1>3, <2>3, <2>6, <2>7
    <3>4. evidence' # <<>> => ValidEat(out_detached_eat')
      BY <1>3, <2>6, <2>9 DEF call
    <3>5. ValidEat(out_detached_eat)' <=> ValidEat(out_detached_eat')
      BY DEF ValidEat
    <3> QED
      BY <3>1, <3>2, <3>3, <3>4, <3>5 DEF EatIsFaithful
  <2>12. Locally'
    BY <2>1, ZenonT(30) DEF LocalInv, RemoteInit, Locally, remote
  <2>13. ClaimsAreComplete'
    BY <1>3, <2>2, <2>12, ZenonT(30) DEF ClaimsAreComplete, Finished, call
  <2>14. OverallResult(out_claims) => LocallyBacked
    BY <2>1, <2>2 DEF OverallResult, LocallyBacked, Finished
  <2>15. AcceptedIsBacked'
    <3>1. OverallResult(out_claims) => LocallyBacked'
      BY <1>3, <2>14 DEF LocallyBacked, call, local
    <3> QED
      BY <2>10, <2>12, <3>1, ZenonT(30) DEF AcceptedIsBacked
  <2>16. CallInv'
    BY <1>3 DEF IInv, CallInv, call
  <2>17. StageInv'
    BY <1>3 DEF StageInv, LocalStages, Working
  <2> QED
    BY <2>11, <2>13, <2>15, <2>16, <2>17 DEF IInv, Properties
<1> QED
  BY <1>2, <1>3 DEF get_detached_eat

-----------------------------------------------------------------------------
\* The tokens of an answer that validate_and_decode_EAT accepts are those that
\* the overall token lists.
LEMMA ValidResponse ==
    ASSUME NEW eat \in ValidResponses
    PROVE  /\ eat \in Responses /\ eat.overall.digests = eat.tokens
           /\ IsFiniteSet(DOMAIN eat.tokens)
           /\ \A k \in DOMAIN eat.tokens : eat.tokens[k] \in Tokens /\ eat.tokens[k].signed
           /\ eat.overall.signed /\ ValidEat(eat)
<1>1. eat \in Responses /\ ValidEat(eat) /\ Signed(eat)
  BY DEF ValidResponses
<1>2. eat.overall \in Overalls /\ eat.tokens \in TokenMaps
  BY <1>1 DEF Responses
<1>3. eat.overall.digests \in TokenMaps
  BY <1>2 DEF Overalls
<1>4. PICK S \in SUBSET Submodules : eat.tokens \in [S -> Tokens]
  BY <1>2 DEF TokenMaps
<1>5. PICK D \in SUBSET Submodules : eat.overall.digests \in [D -> Tokens]
  BY <1>3 DEF TokenMaps
<1>6. DOMAIN eat.tokens = S /\ DOMAIN eat.overall.digests = D
  BY <1>4, <1>5
<1>7. IsFiniteSet(S)
  BY RemoteVerifierConstants, FS_Subset
<1>8. D \subseteq S /\ Cardinality(D) = Cardinality(S)
      /\ \A k \in D : eat.tokens[k] = eat.overall.digests[k]
  BY <1>1, <1>6 DEF ValidEat
<1>9. D = S
  BY <1>7, <1>8, FS_Subset
<1>10. eat.overall.digests = eat.tokens
  BY <1>4, <1>5, <1>8, <1>9
<1>11. eat.overall.signed /\ \A k \in S : eat.tokens[k].signed
  BY <1>1, <1>6, <1>9 DEF Signed
<1> QED
  BY <1>1, <1>4, <1>6, <1>7, <1>10, <1>11

\* handle_nras_error_claim lets pass what the policy says.
LEMMA NrasCodeOk ==
    ASSUME NEW code \in ErrorCodes
    PROVE  /\ handle_nras_error_claim(code) \in Errors \cup {"Ok"}
           /\ handle_nras_error_claim(code) = "Ok" =>
                 code = "none" \/ (code = "rimsignature" /\ ~policy.verify_rim_signature)
BY Zenon DEF handle_nras_error_claim, ErrorCodes, Errors

\* A step of a remote call on its way.
LEMMA RemoteStepKeeps ==
    ASSUME IInv, UNCHANGED call, UNCHANGED <<out_detached_eat, result>>,
           stage # "done", stage' = "append", RemoteInv'
    PROVE  IInv'
<1>1. CallInv'
  BY DEF IInv, CallInv, call
<1>2. StageInv'
  BY DEF StageInv, LocalStages, Working
<1>3. Properties'
  BY DEF Properties, ClaimsAreComplete, HasVerdict, AcceptedIsBacked, EatIsFaithful
<1> QED
  BY <1>1, <1>2, <1>3 DEF IInv

\* From the request to the start of the loop over the claims.
LEMMA RequestKeeps == ASSUME IInv, RequestAttestation PROVE IInv'
<1>1. stage = "request" /\ stage # "done"
  BY DEF RequestAttestation
<1>2. CASE RemoteFail({"BadArgument"}) \/
           RemoteFail({"InternalError", "HttpError", "NrasForbidden", "NrasAttestationError",
                       "NrasTokenInvalid"})
  BY <1>1, <1>2, RemoteFailKeeps DEF Errors
<1>3. ASSUME evidence # <<>>, NEW eat \in ValidResponses, EatNonceMatches(eat), response' = eat,
             left' = DOMAIN eat.overall.digests, out_claims' = <<>>, stage' = "append",
             UNCHANGED <<call, out_detached_eat, result>>
      PROVE  IInv'
  <2>1. eat.overall.digests = eat.tokens
    BY ValidResponse
  <2>2. Visited' = {} /\ left' = DOMAIN eat.tokens
    BY <1>3, <2>1 DEF Visited
  <2>3. ValidResponses' = ValidResponses
    OBVIOUS
  <2>4. EatNonceMatches(response)'
    BY <1>3 DEF EatNonceMatches, call
  <2>5. out_claims' \in Seq(Tokens) /\ Len(out_claims') = 0
    BY <1>3
  <2>6. Cardinality(Visited') = 0
    BY <2>2, FS_EmptySet
  <2>7. \E order \in [1..Len(out_claims') -> Visited'] :
          /\ \A k \in Visited' : \E i \in 1..Len(out_claims') : order[i] = k
          /\ \A i \in 1..Len(out_claims') : out_claims'[i] = response'.tokens[order[i]]
    <3>1. [i \in {} |-> 0] \in [1..Len(out_claims') -> Visited']
      BY <2>2, <2>5
    <3> QED
      BY <2>2, <2>5, <3>1, Zenon
  <2>8. RemoteInv'
    BY <1>3, <2>1, <2>2, <2>4, <2>5, <2>6, <2>7, ZenonT(30) DEF RemoteInv, call
  <2> QED
    BY <1>1, <1>3, <2>8, RemoteStepKeeps
<1> QED
  BY <1>2, <1>3 DEF RequestAttestation

\* One item of the answer.
LEMMA AppendKeeps == ASSUME IInv, AppendClaims PROVE IInv'
<1>1. stage = "append" /\ stage # "done" /\ RemoteInv
  BY DEF AppendClaims, IInv, StageInv
<1>2. PICK k \in left :
          \/ /\ handle_nras_error_claim(response.tokens[k].code) = "Ok"
             /\ out_claims' = Append(out_claims, response.tokens[k])
             /\ left' = left \ {k}
             /\ UNCHANGED <<call, stage, out_detached_eat, result, response>>
          \/ RemoteFail({IF handle_nras_error_claim(response.tokens[k].code) = "Ok" THEN "InternalError"
                         ELSE handle_nras_error_claim(response.tokens[k].code)})
  BY Zenon DEF AppendClaims
<1>3. k \in DOMAIN response.tokens /\ k \notin Visited /\ left \subseteq DOMAIN response.tokens
  BY <1>1 DEF RemoteInv, Visited
<1>4. response.tokens[k] \in Tokens /\ IsFiniteSet(DOMAIN response.tokens)
  BY <1>1, <1>3, ValidResponse DEF RemoteInv
<1>5. CASE RemoteFail({IF handle_nras_error_claim(response.tokens[k].code) = "Ok" THEN "InternalError"
                       ELSE handle_nras_error_claim(response.tokens[k].code)})
  <2>1. response.tokens[k].code \in ErrorCodes
    BY <1>4 DEF Tokens
  <2>2. (IF handle_nras_error_claim(response.tokens[k].code) = "Ok" THEN "InternalError"
         ELSE handle_nras_error_claim(response.tokens[k].code)) \in Errors
    BY <2>1, NrasCodeOk DEF Errors
  <2> QED
    BY <1>1, <1>5, <2>2, RemoteFailKeeps
<1>6. CASE /\ handle_nras_error_claim(response.tokens[k].code) = "Ok"
           /\ out_claims' = Append(out_claims, response.tokens[k])
           /\ left' = left \ {k}
           /\ UNCHANGED <<call, stage, out_detached_eat, result, response>>
  <2>1. PICK n \in Nat : n = Len(out_claims)
    BY <1>1 DEF RemoteInv
  <2>2. PICK order \in [1..n -> Visited] :
          /\ \A j \in Visited : \E i \in 1..n : order[i] = j
          /\ \A i \in 1..n : out_claims[i] = response.tokens[order[i]]
    BY <1>1, <2>1 DEF RemoteInv
  <2>3. Visited' = Visited \cup {k}
    BY <1>3, <1>6 DEF Visited
  <2>4. out_claims' \in Seq(Tokens) /\ Len(out_claims') = n + 1 /\ out_claims'[n + 1] = response.tokens[k]
        /\ \A i \in 1..n : out_claims'[i] = out_claims[i]
    BY <1>1, <1>4, <1>6, <2>1 DEF RemoteInv
  <2> DEFINE more == [i \in 1..(n + 1) |-> IF i = n + 1 THEN k ELSE order[i]]
  <2>5. /\ more \in [1..(n + 1) -> Visited'] /\ more[n + 1] = k
        /\ \A i \in 1..n : more[i] = order[i]
    BY <2>3
  <2> HIDE DEF more
  <2>6. \A j \in Visited' : \E i \in 1..(n + 1) : more[i] = j
    BY <2>2, <2>3, <2>5, SMTT(30)
  <2>7. \A i \in 1..(n + 1) : out_claims'[i] = response'.tokens[more[i]]
    BY <1>6, <2>2, <2>4, <2>5
  <2>8. \E o \in [1..Len(out_claims') -> Visited'] :
          /\ \A j \in Visited' : \E i \in 1..Len(out_claims') : o[i] = j
          /\ \A i \in 1..Len(out_claims') : out_claims'[i] = response'.tokens[o[i]]
    <3>1. \E o \in [1..(n + 1) -> Visited'] :
            /\ \A j \in Visited' : \E i \in 1..(n + 1) : o[i] = j
            /\ \A i \in 1..(n + 1) : out_claims'[i] = response'.tokens[o[i]]
      BY <2>5, <2>6, <2>7, Zenon
    <3>2. Len(out_claims') = n + 1
      BY <2>4
    <3> QED
      BY <3>1, <3>2, ZenonT(30)
  <2>9. Cardinality(Visited') = n + 1
    <3>1. IsFiniteSet(Visited)
      BY <1>4, FS_Difference, Zenon DEF Visited
    <3>2. Cardinality(Visited) = n
      BY <1>1, <2>1 DEF RemoteInv
    <3>3. Cardinality(Visited \cup {k}) = Cardinality(Visited) + 1
      BY <1>3, <3>1, FS_AddElement, ZenonT(30)
    <3> QED
      BY <2>3, <3>2, <3>3
  <2>10. \A j \in Visited' : handle_nras_error_claim(response.tokens[j].code)' = "Ok"
    <3>1. \A j : handle_nras_error_claim(response.tokens[j].code)'
               = handle_nras_error_claim(response.tokens[j].code)
      BY <1>6, Zenon DEF handle_nras_error_claim, call
    <3> QED
      BY <1>1, <1>6, <2>3, <3>1 DEF RemoteInv
  <2>11. EatNonceMatches(response)'
    BY <1>1, <1>6 DEF RemoteInv, EatNonceMatches, call
  <2>12. response' = response /\ evidence' = evidence /\ left' \subseteq DOMAIN response'.tokens
    BY <1>3, <1>6, ZenonT(30) DEF call
  <2>13. RemoteInv'
    BY <1>1, <2>4, <2>8, <2>9, <2>10, <2>11, <2>12, Zenon DEF RemoteInv
  <2> QED
    BY <1>1, <1>6, <2>13, RemoteStepKeeps
<1> QED
  BY <1>2, <1>5, <1>6

\* The end of a remote call: everything was visited.
LEMMA FinishKeeps == ASSUME IInv, Finish PROVE IInv'
<1>1. /\ stage = "append" /\ left = {} /\ stage' = "done"
      /\ out_detached_eat' = (IF wantsEat THEN response ELSE NoEat)
      /\ result' = (IF response.overall.result THEN "Ok" ELSE "OverallResultFalse")
      /\ UNCHANGED <<call, out_claims, remote>>
  BY DEF Finish
<1>2. RemoteInv /\ policy \in Policies /\ wantsEat \in BOOLEAN
  BY <1>1 DEF IInv, CallInv, StageInv
<1>3. /\ response \in Responses /\ response.overall.digests = response.tokens
      /\ \A k \in DOMAIN response.tokens : response.tokens[k] \in Tokens /\ response.tokens[k].signed
      /\ response.overall.signed /\ ValidEat(response)
  BY <1>2, ValidResponse DEF RemoteInv
<1>4. response.overall.result \in BOOLEAN
  <2>1. response.overall \in Overalls
    BY <1>3 DEF Responses
  <2> QED
    BY <2>1 DEF Overalls
<1>5. Visited = DOMAIN response.tokens
  BY <1>1 DEF Visited
<1>6. UNCHANGED <<device, evidence, policy, wantsEat, out_claims, response>>
  BY <1>1 DEF call, remote
<1>7. ~Locally /\ ~Locally'
  BY <1>3, <1>6, RemoteVerifierConstants DEF Locally
<1>8. result' \in Verified /\ (result' = "Ok" <=> response.overall.result)
  BY <1>1, <1>4 DEF Verified
<1>9. DOMAIN out_claims = 1..Len(out_claims)
  BY <1>2, SMTT(30) DEF RemoteInv
<1>10. PICK order \in [DOMAIN out_claims -> DOMAIN response.tokens] :
          /\ \A k \in DOMAIN response.tokens : \E i \in DOMAIN out_claims : order[i] = k
          /\ \A i \in DOMAIN out_claims : out_claims[i] = response.tokens[order[i]]
  BY <1>2, <1>5, <1>9, SMTT(30) DEF RemoteInv
<1>11. Len(out_claims) = Cardinality(DOMAIN response.tokens)
  BY <1>2, <1>5 DEF RemoteInv
<1>12. {order[i] : i \in DOMAIN order} = DOMAIN response.tokens /\ DOMAIN order = DOMAIN out_claims
  BY <1>10
<1>13. ClaimsAreComplete'
  BY <1>6, <1>7, <1>10, <1>11, <1>12, ZenonT(30) DEF ClaimsAreComplete
<1>14. \A k \in DOMAIN response.tokens :
          response.tokens[k].code = "none" \/
          (response.tokens[k].code = "rimsignature" /\ ~policy.verify_rim_signature)
  <2>1. \A k \in DOMAIN response.tokens : response.tokens[k].code \in ErrorCodes
    BY <1>3, ZenonT(30) DEF Tokens
  <2> QED
    BY <1>2, <1>5, <2>1, NrasCodeOk DEF RemoteInv
<1>15. response.overall.nonce = evidence[1]
  BY <1>2, ZenonT(30) DEF RemoteInv, EatNonceMatches
<1>16. AcceptedIsBacked'
  BY <1>3, <1>6, <1>7, <1>8, <1>14, <1>15, ZenonT(30) DEF AcceptedIsBacked, RemotelyBacked
<1>17. EatIsFaithful'
  <2>1. response # NoEat
    BY <1>3, RemoteVerifierConstants
  <2>2. (out_detached_eat' # NoEat) <=> wantsEat
    BY <1>1, <1>2, <2>1
  <2>3. wantsEat => out_detached_eat' = response
    BY <1>1
  <2>4. ValidEat(out_detached_eat)' <=> ValidEat(out_detached_eat')
    BY DEF ValidEat
  <2> QED
    BY <1>3, <1>6, <1>8, <1>11, <2>2, <2>3, <2>4, ZenonT(30) DEF EatIsFaithful
<1>18. CallInv'
  BY <1>1, <1>6 DEF IInv, CallInv
<1>19. StageInv'
  BY <1>1 DEF StageInv, LocalStages, Working
<1> QED
  BY <1>13, <1>16, <1>17, <1>18, <1>19 DEF IInv, Properties

-----------------------------------------------------------------------------
\* A call begins.
LEMMA BeginKeeps == ASSUME IInv, VerifyLocally \/ VerifyRemotely PROVE IInv'
<1>1. PICK first \in {"evidence", "request"} : verify_evidence(first) /\ UNCHANGED <<local, remote>>
  BY DEF VerifyLocally, VerifyRemotely
<1>2. /\ stage = "idle" /\ stage' = first /\ device' \in DeviceTypes /\ evidence' \in Evidences
      /\ policy' \in Policies /\ wantsEat' \in BOOLEAN
      /\ out_claims' = <<>> /\ out_detached_eat' = NoEat /\ result' = "none"
  BY <1>1 DEF verify_evidence
<1>3. evidence' \in Seq(Nonces) /\ Len(evidence') <= MaxEvidence /\ Len(evidence') \in Nat
  BY <1>2, EvidenceIsSeq
<1>4. LocalInit /\ RemoteInit
  BY <1>2 DEF IInv, StageInv
<1>5. LocalInit' /\ RemoteInit'
  BY <1>1, <1>4 DEF LocalInit, RemoteInit, local, remote
<1>6. CallInv'
  BY <1>2, <1>3 DEF CallInv, LocalStages
<1>7. LocalInv' \/ stage' = "request"
  <2>1. SUFFICES ASSUME stage' = "evidence" PROVE LocalInv'
    BY <1>2
  <2>2. out_claims' \in Seq(Claims) /\ Len(out_claims') = 0
    BY <1>2
  <2>3. seen' \in Seq(Notes) /\ Len(seen') = 0
    BY <1>5, SMTT(30) DEF LocalInit
  <2>4. claims' \in Claims /\ report' = NoNonce
    BY <1>5 DEF LocalInit, NoClaims, Claims
  <2> QED
    BY <1>3, <1>5, <2>1, <2>2, <2>3, <2>4 DEF LocalInv, Working
<1>8. StageInv'
  BY <1>2, <1>5, <1>7, ZenonT(30) DEF StageInv, LocalStages, Working
<1>9. Properties'
  BY <1>2 DEF Properties, ClaimsAreComplete, HasVerdict, AcceptedIsBacked, EatIsFaithful
<1> QED
  BY <1>6, <1>8, <1>9 DEF IInv

\* The results are used, and the next call starts afresh.
LEMMA ReturnKeeps == ASSUME IInv, Return PROVE IInv'
<1>1. Init'
  BY DEF Return, Init, CallInit, LocalInit, RemoteInit
<1>2. Init' => IInv'
  BY IInvInit, PTL
<1> QED
  BY <1>1, <1>2

\* IInv is inductive.
LEMMA IInvNext == IInv /\ [Next]_vars => IInv'
<1> SUFFICES ASSUME IInv, [Next]_vars PROVE IInv'
  OBVIOUS
<1>1. CASE VerifyLocally \/ VerifyRemotely \/ Return
  BY <1>1, BeginKeeps, ReturnKeeps
<1>2. CASE LocalStep /\ UNCHANGED remote
  BY <1>2, NextEvidenceKeeps, ReportKeeps, EvidenceClaimsKeeps, RimClaimsKeeps, MeasurementsKeep,
     DetachedEatKeeps DEF LocalStep
<1>3. CASE RemoteStep /\ UNCHANGED local
  BY <1>3, RequestKeeps, AppendKeeps, FinishKeeps DEF RemoteStep
<1>4. CASE UNCHANGED vars
  <2>1. UNCHANGED <<stage, device, evidence, policy, wantsEat, out_claims, out_detached_eat, result,
                    report, claims, seen, response, left>>
    BY <1>4 DEF vars, call, outputs, local, remote
  <2>2. CallInv'
    BY <2>1 DEF IInv, CallInv
  <2>3. StageInv'
    <3>1. LocalInit' = LocalInit /\ RemoteInit' = RemoteInit
      BY <2>1, ZenonT(30) DEF LocalInit, RemoteInit
    <3>2. LocalInv => LocalInv'
      BY <2>1, <3>1 DEF LocalInv, CurrentInv, Finished, Checked, cur_evidence, Last
    <3>3. \A j : handle_nras_error_claim(response.tokens[j].code)'
               = handle_nras_error_claim(response.tokens[j].code)
      BY <2>1, Zenon DEF handle_nras_error_claim
    <3>4. Visited' = Visited
      BY <2>1, ZenonT(30) DEF Visited
    <3>5. RemoteInv => RemoteInv'
      BY <2>1, <3>3, <3>4, ZenonT(30) DEF RemoteInv, EatNonceMatches
    <3> QED
      BY <2>1, <3>1, <3>2, <3>5 DEF IInv, StageInv
  <2>4. Properties'
    BY <2>1, ZenonT(30) DEF IInv, Properties, ClaimsAreComplete, HasVerdict, Locally, AcceptedIsBacked,
       LocallyBacked, RemotelyBacked, EatIsFaithful, ValidEat
  <2> QED
    BY <2>2, <2>3, <2>4 DEF IInv
<1> QED
  BY <1>1, <1>2, <1>3, <1>4 DEF Next

\* IInv holds in every reachable state.
LEMMA IInvAlways == Spec => []IInv
BY IInvInit, IInvNext, PTL DEF Spec

\* Claims that attest_device goes on with are complete, for any number of
\* pieces of evidence and of devices in the answer.
THEOREM ClaimsAreAlwaysComplete == Spec => []ClaimsAreComplete
BY IInvAlways, PTL DEF IInv, Properties

\* Ok always stands for documents or tokens that say so, whatever RIM and
\* report contain and whatever the service answers.
THEOREM AcceptedIsAlwaysBacked == Spec => []AcceptedIsBacked
BY IInvAlways, PTL DEF IInv, Properties

\* A detached EAT always says what the call returned, with one token for each
\* claim, and validate_and_decode_EAT accepts it.
THEOREM EatIsAlwaysFaithful == Spec => []EatIsFaithful
BY IInvAlways, PTL DEF IInv, Properties
=============================================================================
