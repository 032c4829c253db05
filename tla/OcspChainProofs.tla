--------------------------- MODULE OcspChainProofs --------------------------
(***************************************************************************)
(* What the accepted claims about a certificate chain stand for, for any   *)
(* length of the chain and any client, times, statuses and tolerances.     *)
(***************************************************************************)
EXTENDS OcspChain, SequenceTheorems, TLAPS

\* The types of the answers, of the history of the questions and of the claims.
Responses ==
    [status : Statuses, reason : Nat, thisupd : Nat, nextupd : Nat,
     nonce_matches : BOOLEAN, response_valid : BOOLEAN, signed_age : BOOLEAN,
     verification_time : Nat, status_deadline : Nat]

Questions == [subject : Nat, issuer : Nat, response : Responses]

ClaimsType ==
    [status : Statuses \cup {"UNDEFINED"}, revocation_reason : Nat \cup {NoReason},
     nonce_matches : BOOLEAN, ocsp_response_valid : BOOLEAN,
     ocsp_resp_expiration_time : Nat, signed_age : BOOLEAN,
     verification_time : Nat, status_deadline : Nat,
     oldest_this_update : Nat, covered_certificates : Nat]

\* What any client says about certificate c: its reason is c's, and a
\* signed-age answer carries a time around which it is fresh.
SoundAnswer(r, c) ==
    /\ r \in Responses
    /\ r.reason = c
    /\ r.signed_age =>
          /\ r.verification_time \in VerificationTimes
          /\ r.thisupd - FutureTolerance <= r.verification_time
          /\ r.verification_time < Deadline(r.thisupd, r.nextupd)
          /\ r.status_deadline = Deadline(r.thisupd, r.nextupd)

\* The presented chain leads from its leaf to the anchor, one level at a time.
Straight ==
    /\ Len(presented) = Root - presented[1] + 1
    /\ \A i \in DOMAIN presented : presented[i] = presented[1] + i - 1

\* The number of certificates that are to be asked about.
ToAsk == IF Root > presented[1] + start_indx THEN Root - presented[1] - start_indx ELSE 0

\* Where the loop is.
LoopInv ==
    /\ pc \in {"idle", "verify", "ask", "returned", "judged"}
    /\ pc # "idle" =>
          /\ type \in {"identity", "rim"} /\ presented \in Chains
          /\ client \in Clients /\ verificationTime \in VerificationTimes
    /\ pc \in {"idle", "verify"} => asked = <<>>
    /\ pc = "ask" =>
          /\ Straight
          /\ subject_idx = Len(presented) - 2 - Len(asked)
          /\ Len(asked) <= ToAsk
    /\ Complete => Straight /\ Len(asked) = ToAsk
    /\ accepted => pc = "judged" /\ result = "Ok" /\ check_cert_chain(claims)

\* What was asked: downwards from below the anchor, each under its issuer.
AskedInv ==
    /\ asked \in Seq(Questions)
    /\ \A i \in 1..Len(asked) :
          /\ asked[i].subject = Root - i /\ asked[i].issuer = Root - i + 1
          /\ SoundAnswer(Answer(i), asked[i].subject)

\* The flags of the claims are those of all answers together, and the chain
\* is judged one way.
FlagsInv ==
    /\ claims.ocsp_response_valid => \A i \in 1..Len(asked) : Answer(i).response_valid
    /\ claims.nonce_matches => \A i \in 1..Len(asked) : Answer(i).nonce_matches
    /\ \A i \in 1..Len(asked) :
          /\ Answer(i).signed_age = claims.signed_age
          /\ claims.signed_age => Answer(i).verification_time = claims.verification_time

\* The times of the claims are the least among the answers.
TimesInv ==
    /\ \A i \in 1..Len(asked) : claims.ocsp_resp_expiration_time <= Answer(i).nextupd
    /\ \E i \in 1..Len(asked) : claims.ocsp_resp_expiration_time = Answer(i).nextupd
    /\ claims.signed_age =>
          /\ \A i \in 1..Len(asked) : claims.status_deadline <= Answer(i).status_deadline
          /\ \E i \in 1..Len(asked) : claims.status_deadline = Answer(i).status_deadline
          /\ \A i \in 1..Len(asked) : claims.oldest_this_update <= Answer(i).thisupd
          /\ \E i \in 1..Len(asked) : claims.oldest_this_update = Answer(i).thisupd

\* Answer m is the first that is not good.
FirstBad(m) ==
    /\ m \in 1..Len(asked)
    /\ Answer(m).status # "GOOD"
    /\ \A i \in 1..(m - 1) : Answer(i).status = "GOOD"

\* The status and the reason of the claims are those of the first bad answer.
StatusInv ==
    \/ /\ \A i \in 1..Len(asked) : Answer(i).status = "GOOD"
       /\ claims.status = "GOOD" /\ claims.revocation_reason = NoReason
    \/ \E m \in 1..Len(asked) :
          /\ FirstBad(m)
          /\ claims.status = Answer(m).status
          /\ claims.revocation_reason \in {NoReason, asked[m].subject}

ClaimsInv ==
    /\ claims \in ClaimsType
    /\ claims.covered_certificates = Len(asked)
    /\ asked = <<>> => claims = NoClaims
    /\ asked # <<>> => FlagsInv /\ TimesInv /\ StatusInv

\* The inductive invariant.
ChainInv == LoopInv /\ AskedInv /\ ClaimsInv

-----------------------------------------------------------------------------
\* The deadline of a proof is a number, and not after nextUpdate or after
\* MAX_SIGNED_AGE_SECONDS.
LEMMA DeadlineProperty ==
    ASSUME NEW this \in Nat, NEW next \in Nat
    PROVE  /\ Deadline(this, next) \in Nat
           /\ Deadline(this, next) <= next
           /\ Deadline(this, next) <= this + MaxSignedAge
BY OcspChainConstants DEF Deadline

\* NvHttpOcspClient answers soundly.
LEMMA HttpAnswersSound ==
    ASSUME NEW c \in Nat, NEW r \in HttpAnswers(c)
    PROVE  SoundAnswer(r, c)
<1>1. PICK s \in Statuses, u \in Issued, v \in Validities, n \in BOOLEAN :
         r = HttpResponse(c, s, u, v, n)
  BY DEF HttpAnswers
<1>2. u \in Nat /\ NextUpdate(u, v) \in Nat
  BY OcspChainConstants, OcspValidityConstants DEF NextUpdate
<1>3. r = [status |-> s, reason |-> c, thisupd |-> u, nextupd |-> NextUpdate(u, v),
           nonce_matches |-> n, response_valid |-> TRUE, signed_age |-> FALSE,
           verification_time |-> 0, status_deadline |-> 0]
  BY <1>1, Zenon DEF Response, HttpResponse
<1>4. r \in Responses
  BY <1>2, <1>3 DEF Responses
<1> QED
  BY <1>3, <1>4 DEF SoundAnswer

\* RawProofOcspClient answers only within the window of the proof.
LEMMA ProofAnswersSound ==
    ASSUME NEW c \in Nat, NEW vt \in VerificationTimes, NEW r \in ProofAnswers(c, vt)
    PROVE  SoundAnswer(r, c)
<1>1. PICK s \in Statuses, p \in InWindow(vt) :
         r = ProofResponse(c, s, p[1], p[1] + p[2], vt)
  BY DEF ProofAnswers
<1>2. /\ p \in Issued \X (Validities \ {NoNextUpdate})
      /\ p[1] - FutureTolerance <= vt
      /\ vt < Deadline(p[1], p[1] + p[2])
  BY DEF InWindow
<1>3. p[1] \in Issued /\ p[2] \in Validities \ {NoNextUpdate}
  BY <1>2
<1>4. p[1] \in Nat /\ p[2] \in Nat /\ p[1] + p[2] \in Nat /\ vt \in Nat
  <2>1. p[1] \in Nat /\ p[2] \in Nat /\ vt \in Nat
    BY <1>3, OcspChainConstants, OcspValidityConstants, Zenon
  <2> QED
    BY <2>1
<1>5. Deadline(p[1], p[1] + p[2]) \in Nat
  BY <1>4, DeadlineProperty, Zenon
<1>6. r = [status |-> s, reason |-> c, thisupd |-> p[1], nextupd |-> p[1] + p[2],
           nonce_matches |-> FALSE, response_valid |-> TRUE, signed_age |-> TRUE,
           verification_time |-> vt, status_deadline |-> Deadline(p[1], p[1] + p[2])]
  BY <1>1, Zenon DEF Response, ProofResponse
<1>7. r \in Responses
  BY <1>4, <1>5, <1>6 DEF Responses
<1> QED
  BY <1>2, <1>6, <1>7 DEF SoundAnswer

\* So does whatever client is in use.
LEMMA AnswersSound ==
    ASSUME NEW c \in Nat, client \in Clients, verificationTime \in VerificationTimes,
           NEW r \in Answers(c)
    PROVE  SoundAnswer(r, c)
<1>1. CASE client = "http"
  BY <1>1, HttpAnswersSound DEF Answers
<1>2. CASE client = "proofs"
  BY <1>2, ProofAnswersSound DEF Answers
<1>3. CASE client = "any"
  <2> DEFINE real == HttpAnswers(c) \cup UNION {ProofAnswers(c, t) : t \in VerificationTimes}
  <2>1. r \in AnyAnswers(c)
    BY <1>3 DEF Answers
  <2>2. ASSUME NEW x \in real PROVE SoundAnswer(x, c)
    BY HttpAnswersSound, ProofAnswersSound
  <2>3. CASE r \in real
    BY <2>2, <2>3
  <2>4. CASE r \in {[x EXCEPT !.response_valid = FALSE] : x \in HttpAnswers(c)}
    <3>1. PICK x \in HttpAnswers(c) : r = [x EXCEPT !.response_valid = FALSE]
      BY <2>4
    <3>2. SoundAnswer(x, c)
      BY HttpAnswersSound
    <3> QED
      BY <3>1, <3>2, Zenon DEF SoundAnswer, Responses
  <2>5. CASE r \in {[x EXCEPT !.nonce_matches = TRUE] : x \in real}
    <3>1. PICK x \in real : r = [x EXCEPT !.nonce_matches = TRUE]
      BY <2>5
    <3>2. SoundAnswer(x, c)
      BY <2>2
    <3> QED
      BY <3>1, <3>2, Zenon DEF SoundAnswer, Responses
  <2> QED
    BY <2>1, <2>3, <2>4, <2>5 DEF AnyAnswers
<1> QED
  BY <1>1, <1>2, <1>3 DEF Clients

\* A chain that X509CertChain::verify takes leads straight to the anchor.
LEMMA VerifiedIsStraight ==
    ASSUME presented \in Chains, verify(presented)
    PROVE  Straight
<1>1. PICK n \in 1..MaxChain : presented \in [1..n -> 0..Root]
  BY DEF Chains
<1>2. presented[1] \in 0..Root /\ n \in Nat /\ Len(presented) = n /\ DOMAIN presented = 1..n
  BY <1>1, OcspChainConstants
<1>3. Path(presented) = presented
  BY DEF verify
<1>4. presented # <<>>
  BY <1>2
<1>5. presented = [i \in 1..(Root - presented[1] + 1) |-> presented[1] + i - 1]
  BY <1>3, <1>4 DEF Path
<1>6. Root - presented[1] + 1 \in Nat
  BY <1>2, OcspChainConstants
<1>7. n = Root - presented[1] + 1
  <2>1. 1..n = 1..(Root - presented[1] + 1)
    BY <1>2, <1>5
  <2> QED
    BY <2>1, <1>2, <1>6
<1> QED
  BY <1>2, <1>5, <1>6, <1>7 DEF Straight

-----------------------------------------------------------------------------
\* The invariant holds before the first chain.
LEMMA ChainInvInit == Init => ChainInv
<1> SUFFICES ASSUME Init PROVE ChainInv
  OBVIOUS
<1> USE DEF Init
<1>1. LoopInv
  BY DEF LoopInv, Complete
<1>2. AskedInv
  BY DEF AskedInv
<1>3. ClaimsInv
  BY DEF ClaimsInv, ClaimsType, NoClaims, Statuses
<1> QED
  BY <1>1, <1>2, <1>3 DEF ChainInv

\* The next chain begins as the first did.
LEMMA NextChainKeeps == NextChain => ChainInv'
<1> SUFFICES ASSUME NextChain PROVE ChainInv'
  OBVIOUS
<1> USE DEF NextChain
<1>1. LoopInv'
  BY DEF LoopInv, Complete
<1>2. AskedInv'
  BY DEF AskedInv
<1>3. ClaimsInv'
  BY DEF ClaimsInv, ClaimsType, NoClaims, Statuses
<1> QED
  BY <1>1, <1>2, <1>3 DEF ChainInv

\* A step that asks nothing leaves the claims and the questions right.
LEMMA NothingAsked ==
    ASSUME ChainInv, UNCHANGED <<claims, asked>>
    PROVE  AskedInv' /\ ClaimsInv'
<1>1. AskedInv'
  BY DEF ChainInv, AskedInv, SoundAnswer, Answer
<1>2. ClaimsInv'
  BY DEF ChainInv, ClaimsInv, FlagsInv, TimesInv, StatusInv, FirstBad, Answer
<1> QED
  BY <1>1, <1>2

\* The steps that ask nothing.
LEMMA OtherStepsKeep ==
    ASSUME ChainInv, Begin \/ Verify \/ ClientFails \/ Finish \/ Judge \/ UNCHANGED vars
    PROVE  ChainInv'
<1>0. UNCHANGED <<claims, asked>>
  BY DEF Begin, Verify, ClientFails, Finish, Judge, vars
<1>1. AskedInv' /\ ClaimsInv'
  BY <1>0, NothingAsked
<1>2. LoopInv
  BY DEF ChainInv
<1>3. LoopInv'
  <2>1. CASE Begin
    BY <1>2, <2>1 DEF LoopInv, Begin, Complete
  <2>2. CASE Verify
    <3>1. pc = "verify" /\ asked = <<>> /\ ~accepted /\ presented \in Chains
      BY <1>2, <2>2 DEF LoopInv, Verify
    <3>2. presented[1] \in Nat
      <4>1. PICK n \in 1..MaxChain : presented \in [1..n -> 0..Root]
        BY <3>1 DEF Chains
      <4> QED
        BY <4>1, OcspChainConstants
    <3>3. CASE verify(presented)
      <4>1. Straight
        BY <3>1, <3>3, VerifiedIsStraight
      <4>2. Straight' /\ ToAsk \in Nat /\ ToAsk' = ToAsk
        <5>1. UNCHANGED <<type, presented>>
          BY <2>2 DEF Verify, call
        <5>2. ToAsk \in Nat
          BY <3>2, OcspChainConstants DEF ToAsk, start_indx
        <5> QED
          BY <4>1, <5>1, <5>2 DEF Straight, ToAsk, start_indx
      <4>3. subject_idx' = Len(presented) - 2 /\ pc' = "ask" /\ UNCHANGED <<call, asked, accepted>>
        BY <2>2, <3>3 DEF Verify
      <4>4. Len(presented) - 2 = Len(presented) - 2 - Len(asked) /\ Len(asked) = 0
        BY <3>1, <3>2, <4>1, OcspChainConstants DEF Straight
      <4> QED
        BY <1>2, <3>1, <4>2, <4>3, <4>4 DEF LoopInv, Complete, call
    <3>4. CASE ~verify(presented)
      BY <1>2, <2>2, <3>1, <3>4 DEF LoopInv, Verify, Complete, Return, call
    <3> QED
      BY <3>3, <3>4
  <2>3. CASE ClientFails
    BY <1>2, <2>3 DEF LoopInv, ClientFails, Complete, Return, call
  <2>4. CASE Finish
    <3>1. /\ pc = "ask" /\ Straight /\ subject_idx = Len(presented) - 2 - Len(asked)
          /\ Len(asked) <= ToAsk /\ subject_idx < start_indx /\ presented \in Chains
          /\ ~accepted
      BY <1>2, <2>4 DEF LoopInv, Finish
    <3>2. presented[1] \in Nat
      <4>1. PICK n \in 1..MaxChain : presented \in [1..n -> 0..Root]
        BY <3>1 DEF Chains
      <4> QED
        BY <4>1, OcspChainConstants
    <3>3. Len(asked) \in Nat /\ start_indx \in {0, 1}
      BY DEF ChainInv, AskedInv, start_indx
    <3>4. Len(asked) = ToAsk
      <4>1. Len(presented) = Root - presented[1] + 1
        BY <3>1 DEF Straight
      <4> QED
        <5>1. Root \in Nat
          BY OcspChainConstants
        <5>2. PICK p, a, s \in Nat : p = presented[1] /\ a = Len(asked) /\ s = start_indx
          BY <3>2, <3>3
        <5>3. Root - p + 1 - 2 - a < s
          <6>1. subject_idx < s /\ subject_idx = Len(presented) - 2 - a /\ Len(presented) = Root - p + 1
            BY <3>1, <4>1, <5>2, Zenon
          <6> QED BY <5>1, <6>1
        <5>4. a <= IF Root > p + s THEN Root - p - s ELSE 0
          BY <3>1, <5>2, Zenon DEF ToAsk
        <5>5. a = IF Root > p + s THEN Root - p - s ELSE 0
          BY <5>1, <5>3, <5>4
        <5> QED
          BY <5>2, <5>5, Zenon DEF ToAsk
    <3>5. Straight' /\ ToAsk' = ToAsk
      BY <2>4, <3>1 DEF Finish, call, Straight, ToAsk, start_indx
    <3> QED
      BY <1>2, <2>4, <3>1, <3>4, <3>5 DEF LoopInv, Finish, Complete, Return, call
  <2>5. CASE Judge
    <3>1. pc = "returned" /\ pc' = "judged" /\ UNCHANGED <<call, claims, result, asked>>
      BY <2>5 DEF Judge
    <3>2. Complete' <=> Complete
      BY <3>1 DEF Complete
    <3>3. ToAsk' = ToAsk /\ (Straight' <=> Straight)
      BY <3>1 DEF ToAsk, Straight, call, start_indx
    <3>4. accepted' => result' = "Ok" /\ check_cert_chain(claims)'
      <4>1. accepted' = (result = "Ok" /\ check_cert_chain(claims))
        BY <2>5 DEF Judge
      <4>2. check_cert_chain(claims)' <=> check_cert_chain(claims)
        BY <3>1 DEF check_cert_chain, Fresh, call
      <4> QED
        BY <3>1, <4>1, <4>2, Zenon
    <3> QED
      BY <1>2, <3>1, <3>2, <3>3, <3>4 DEF LoopInv, call
  <2>6. CASE UNCHANGED vars
    BY <1>2, <2>6 DEF LoopInv, vars, Complete, Straight, ToAsk, start_indx,
                      check_cert_chain, Fresh
  <2> QED
    BY <2>1, <2>2, <2>3, <2>4, <2>5, <2>6
<1> QED
  BY <1>1, <1>3 DEF ChainInv

\* The least of n + 1 numbers is the smaller of the least of n and the last.
LEMMA LeastOfMore ==
    ASSUME NEW n \in Nat, NEW f \in [1..(n + 1) -> Nat], NEW old \in Nat,
           \A i \in 1..n : old <= f[i],
           \E i \in 1..n : old = f[i]
    PROVE  /\ \A i \in 1..(n + 1) : SmallerOf(old, f[n + 1]) <= f[i]
           /\ \E i \in 1..(n + 1) : SmallerOf(old, f[n + 1]) = f[i]
<1>1. PICK last \in Nat : last = f[n + 1]
  OBVIOUS
<1>2. PICK least \in Nat : least = SmallerOf(old, last)
  BY DEF SmallerOf
<1>3. least <= old /\ least <= last /\ (least = old \/ least = last)
  BY <1>2 DEF SmallerOf
<1>4. ASSUME NEW i \in 1..(n + 1) PROVE least <= f[i]
  <2>1. CASE i = n + 1
    BY <1>1, <1>3, <2>1
  <2>2. CASE i \in 1..n
    <3>1. PICK k \in Nat : k = f[i]
      OBVIOUS
    <3>2. old <= k
      BY <2>2, <3>1
    <3> QED
      BY <1>3, <3>1, <3>2
  <2> QED
    BY <2>1, <2>2
<1>5. \E i \in 1..(n + 1) : least = f[i]
  <2>1. PICK i \in 1..n : old = f[i]
    OBVIOUS
  <2>2. i \in 1..(n + 1) /\ n + 1 \in 1..(n + 1)
    OBVIOUS
  <2> QED
    BY <1>1, <1>3, <2>1, <2>2
<1> QED
  BY <1>1, <1>2, <1>4, <1>5

\* The claims after the first answer, field by field.
IsFirst(new, r) ==
    /\ new \in ClaimsType
    /\ new.status = r.status
    /\ new.revocation_reason = NoReason
    /\ new.nonce_matches = r.nonce_matches
    /\ new.ocsp_response_valid = r.response_valid
    /\ new.ocsp_resp_expiration_time = r.nextupd
    /\ new.signed_age = r.signed_age
    /\ new.verification_time = r.verification_time
    /\ new.status_deadline = r.status_deadline
    /\ r.signed_age => new.oldest_this_update = r.thisupd
    /\ new.covered_certificates = 1

\* FirstClaims makes them so.
LEMMA FirstClaimsFields ==
    ASSUME NEW r \in Responses PROVE IsFirst(FirstClaims(NoClaims, r), r)
BY DEF IsFirst, FirstClaims, NoClaims, ClaimsType, Responses

\* The claims after a further answer, field by field.
LEMMA MoreClaimsFields ==
    ASSUME NEW c \in ClaimsType, NEW r \in Responses
    PROVE  LET new == MoreClaims(c, r)
           IN  /\ new \in ClaimsType
               /\ new.status = IF c.status = "GOOD" THEN r.status ELSE c.status
               /\ new.revocation_reason = IF c.status = "GOOD" /\ r.status = "REVOKED"
                                          THEN r.reason ELSE c.revocation_reason
               /\ new.nonce_matches => c.nonce_matches /\ r.nonce_matches
               /\ new.ocsp_response_valid => c.ocsp_response_valid /\ r.response_valid
               /\ new.ocsp_resp_expiration_time = SmallerOf(c.ocsp_resp_expiration_time, r.nextupd)
               /\ new.signed_age = r.signed_age
               /\ new.verification_time = c.verification_time
               /\ new.status_deadline = SmallerOf(c.status_deadline, r.status_deadline)
               /\ r.signed_age => new.oldest_this_update =
                                     SmallerOf(c.oldest_this_update, r.thisupd)
               /\ new.covered_certificates = c.covered_certificates + 1
<1>1. /\ MoreClaims(c, r).status = IF c.status = "GOOD" THEN r.status ELSE c.status
      /\ MoreClaims(c, r).revocation_reason = IF c.status = "GOOD" /\ r.status = "REVOKED"
                                              THEN r.reason ELSE c.revocation_reason
  BY DEF MoreClaims
<1>2. /\ MoreClaims(c, r).nonce_matches => c.nonce_matches /\ r.nonce_matches
      /\ MoreClaims(c, r).ocsp_response_valid => c.ocsp_response_valid /\ r.response_valid
  BY Zenon DEF MoreClaims
<1>3. /\ MoreClaims(c, r).ocsp_resp_expiration_time =
             SmallerOf(c.ocsp_resp_expiration_time, r.nextupd)
      /\ MoreClaims(c, r).status_deadline = SmallerOf(c.status_deadline, r.status_deadline)
      /\ r.signed_age => MoreClaims(c, r).oldest_this_update =
                             SmallerOf(c.oldest_this_update, r.thisupd)
  BY DEF MoreClaims
<1>4. /\ MoreClaims(c, r).signed_age = r.signed_age
      /\ MoreClaims(c, r).verification_time = c.verification_time
      /\ MoreClaims(c, r).covered_certificates = c.covered_certificates + 1
  BY DEF MoreClaims
<1>5. MoreClaims(c, r) \in ClaimsType
  <2>1. /\ r.status \in Statuses /\ r.reason \in Nat /\ r.signed_age \in BOOLEAN
        /\ r.thisupd \in Nat /\ r.nextupd \in Nat /\ r.status_deadline \in Nat
    BY DEF Responses
  <2>2. /\ c.ocsp_resp_expiration_time \in Nat /\ c.status_deadline \in Nat
        /\ c.oldest_this_update \in Nat /\ c.covered_certificates + 1 \in Nat
    BY DEF ClaimsType
  <2>3. /\ SmallerOf(c.ocsp_resp_expiration_time, r.nextupd) \in Nat
        /\ SmallerOf(c.status_deadline, r.status_deadline) \in Nat
        /\ SmallerOf(c.oldest_this_update, r.thisupd) \in Nat
    BY <2>1, <2>2 DEF SmallerOf
  <2>4. /\ c.status \in Statuses \cup {"UNDEFINED"} /\ c.revocation_reason \in Nat \cup {NoReason}
        /\ c.verification_time \in Nat
    BY DEF ClaimsType
  <2> QED
    BY <2>1, <2>2, <2>3, <2>4, ZenonT(30) DEF MoreClaims, ClaimsType
<1> QED
  BY <1>1, <1>2, <1>3, <1>4, <1>5

\* What an answer that is consistent with the claims adds to them.
LEMMA MergeKeeps ==
    ASSUME ChainInv,
           NEW s \in Nat, NEW u \in Nat, NEW r, SoundAnswer(r, s),
           Consistent(claims, r),
           claims' = Merge(claims, r),
           asked' = Append(asked, [subject |-> s, issuer |-> u, response |-> r])
    PROVE  ClaimsInv'
<1>0. PICK n \in Nat : n = Len(asked)
  BY DEF ChainInv, AskedInv
<1>1. asked \in Seq(Questions) /\ claims \in ClaimsType /\ claims.covered_certificates = n
  BY <1>0 DEF ChainInv, AskedInv, ClaimsInv
<1>2. r \in Responses /\ [subject |-> s, issuer |-> u, response |-> r] \in Questions
  BY DEF SoundAnswer, Questions
<1>3. /\ asked' \in Seq(Questions) /\ Len(asked') = n + 1
      /\ \A i \in 1..n : asked'[i] = asked[i]
      /\ asked'[n + 1] = [subject |-> s, issuer |-> u, response |-> r]
      /\ asked' # <<>>
  BY <1>0, <1>1, <1>2
<1>4. asked'[n + 1].response = r /\ asked'[n + 1].subject = s
  BY <1>3
<1>5. CASE n = 0
  <2>1. claims = NoClaims
    <3>1. asked = <<>>
      BY <1>0, <1>1, <1>5, EmptySeq, Zenon
    <3> QED
      BY <3>1 DEF ChainInv, ClaimsInv
  <2>2. claims' = FirstClaims(claims, r)
    BY <1>1, <1>5 DEF Merge
  <2>3. /\ claims' \in ClaimsType
        /\ claims'.status = r.status
        /\ claims'.revocation_reason = NoReason
        /\ claims'.nonce_matches = r.nonce_matches
        /\ claims'.ocsp_response_valid = r.response_valid
        /\ claims'.ocsp_resp_expiration_time = r.nextupd
        /\ claims'.signed_age = r.signed_age
        /\ claims'.verification_time = r.verification_time
        /\ claims'.status_deadline = r.status_deadline
        /\ r.signed_age => claims'.oldest_this_update = r.thisupd
        /\ claims'.covered_certificates = 1
    <3>1. IsFirst(claims', r)
      BY <1>2, <2>1, <2>2, FirstClaimsFields, Zenon
    <3> QED
      BY <3>1, Zenon DEF IsFirst
  <2>4. Len(asked') = 1 /\ asked'[1].response = r
    BY <1>3, <1>4, <1>5
  <2>5. r.nextupd <= r.nextupd /\ r.status_deadline <= r.status_deadline /\ r.thisupd <= r.thisupd
    <3>1. r.nextupd \in Nat /\ r.status_deadline \in Nat /\ r.thisupd \in Nat
      BY <1>2 DEF Responses
    <3> QED
      BY <3>1
  <2>6. 1 \in 1..Len(asked') /\ \A i \in 1..Len(asked') : i = 1
    BY <2>4
  <2>7. FlagsInv'
    <3>1. \A i \in 1..Len(asked') : Answer(i)' = r
      BY <2>4, <2>6, Zenon DEF Answer
    <3> QED
      BY <2>3, <3>1, Zenon DEF FlagsInv
  <2>8. TimesInv'
    <3>1. \A i \in 1..Len(asked') : Answer(i)' = r
      BY <2>4, <2>6, Zenon DEF Answer
    <3>2. Answer(1)' = r
      BY <2>6, <3>1, Zenon
    <3>3. /\ claims'.ocsp_resp_expiration_time = r.nextupd
          /\ claims'.signed_age => claims'.oldest_this_update = r.thisupd
          /\ claims'.status_deadline = r.status_deadline
      BY <2>3, Zenon
    <3> QED
      BY <2>5, <2>6, <3>1, <3>2, <3>3, Zenon DEF TimesInv
  <2>9. StatusInv'
    <3>1. CASE r.status = "GOOD"
      BY <2>3, <2>4, <2>6, <3>1, Zenon DEF StatusInv, Answer
    <3>2. CASE r.status # "GOOD"
      <4>1. 1..(1 - 1) = {}
        OBVIOUS
      <4>2. FirstBad(1)'
        BY <2>4, <2>6, <3>2, <4>1, Zenon DEF FirstBad, Answer
      <4> QED
        BY <2>3, <2>4, <2>6, <4>2, Zenon DEF StatusInv, Answer
    <3> QED
      BY <3>1, <3>2, Zenon
  <2> QED
    BY <1>3, <2>3, <2>4, <2>7, <2>8, <2>9 DEF ClaimsInv
<1>6. CASE n # 0
  <2>1. FlagsInv /\ TimesInv /\ StatusInv
    BY <1>0, <1>1, <1>6 DEF ChainInv, ClaimsInv
  <2>2. claims' = MoreClaims(claims, r)
    BY <1>1, <1>6 DEF Merge
  <2>3. /\ claims' \in ClaimsType
        /\ claims'.status = IF claims.status = "GOOD" THEN r.status ELSE claims.status
        /\ claims'.revocation_reason = IF claims.status = "GOOD" /\ r.status = "REVOKED"
                                       THEN r.reason ELSE claims.revocation_reason
        /\ claims'.nonce_matches => claims.nonce_matches /\ r.nonce_matches
        /\ claims'.ocsp_response_valid => claims.ocsp_response_valid /\ r.response_valid
        /\ claims'.signed_age = r.signed_age
        /\ claims'.verification_time = claims.verification_time
        /\ claims'.covered_certificates = n + 1
    BY <1>1, <1>2, <2>2, MoreClaimsFields
  <2>4. /\ claims'.ocsp_resp_expiration_time =
               SmallerOf(claims.ocsp_resp_expiration_time, r.nextupd)
        /\ claims'.status_deadline = SmallerOf(claims.status_deadline, r.status_deadline)
        /\ r.signed_age => claims'.oldest_this_update =
                               SmallerOf(claims.oldest_this_update, r.thisupd)
    BY <1>1, <1>2, <2>2, MoreClaimsFields
  <2>5. /\ \A i \in 1..Len(asked') : i \in 1..n \/ i = n + 1
        /\ n + 1 \in 1..Len(asked') /\ \A i \in 1..n : i \in 1..Len(asked')
    BY <1>3
  <2>6. claims.signed_age = r.signed_age
    BY <1>1, <1>6 DEF Consistent
  <2>7. FlagsInv'
    <3>1. ASSUME claims'.ocsp_response_valid, NEW i \in 1..Len(asked')
          PROVE  asked'[i].response.response_valid
      <4>2. claims.ocsp_response_valid /\ r.response_valid
        BY <2>3, <3>1
      <4>3. \A j \in 1..n : asked[j].response.response_valid
        BY <1>0, <2>1, <4>2 DEF FlagsInv, Answer
      <4>4. CASE i \in 1..n
        BY <1>3, <4>3, <4>4
      <4>5. CASE i = n + 1
        BY <1>4, <4>2, <4>5
      <4> QED
        BY <2>5, <4>4, <4>5
    <3>2. ASSUME claims'.nonce_matches, NEW i \in 1..Len(asked')
          PROVE  asked'[i].response.nonce_matches
      <4>2. claims.nonce_matches /\ r.nonce_matches
        BY <2>3, <3>2
      <4>3. \A j \in 1..n : asked[j].response.nonce_matches
        BY <1>0, <2>1, <4>2 DEF FlagsInv, Answer
      <4>4. CASE i \in 1..n
        BY <1>3, <4>3, <4>4
      <4>5. CASE i = n + 1
        BY <1>4, <4>2, <4>5
      <4> QED
        BY <2>5, <4>4, <4>5
    <3>3. ASSUME NEW i \in 1..Len(asked')
          PROVE  asked'[i].response.signed_age = claims'.signed_age
      BY <1>0, <1>3, <1>4, <2>1, <2>3, <2>5, <2>6 DEF FlagsInv, Answer
    <3>4. ASSUME claims'.signed_age, NEW i \in 1..Len(asked')
          PROVE  asked'[i].response.verification_time = claims'.verification_time
      <4>1. r.signed_age /\ claims.signed_age /\ claims'.verification_time = claims.verification_time
        BY <2>3, <2>6, <3>4
      <4>2. claims.verification_time = r.verification_time
        BY <1>1, <1>6, <4>1 DEF Consistent
      <4> QED
        <5>1. \A j \in 1..n : asked[j].response.verification_time = claims.verification_time
          BY <1>0, <2>1, <4>1, Zenon DEF FlagsInv, Answer
        <5>2. CASE i \in 1..n
          BY <1>3, <4>1, <5>1, <5>2
        <5>3. CASE i = n + 1
          BY <1>4, <4>1, <4>2, <5>3
        <5> QED
          BY <2>5, <5>2, <5>3
    <3> QED
      BY <3>1, <3>2, <3>3, <3>4 DEF FlagsInv, Answer
  <2>8. TimesInv'
    <3>1. claims'.signed_age = r.signed_age
      BY <2>3
    <3>2. \A i \in 1..(n + 1) : asked'[i].response \in Responses
      <4>1. \A i \in 1..(n + 1) : asked'[i] \in Questions
        BY <1>3
      <4> QED
        BY <4>1, Zenon DEF Questions
    <3>3. /\ \A i \in 1..Len(asked') : claims'.ocsp_resp_expiration_time <= asked'[i].response.nextupd
          /\ \E i \in 1..Len(asked') : claims'.ocsp_resp_expiration_time = asked'[i].response.nextupd
      <4> DEFINE times == [i \in 1..(n + 1) |-> asked'[i].response.nextupd]
      <4>1. times \in [1..(n + 1) -> Nat] /\ times[n + 1] = r.nextupd
        <5>1. \A i \in 1..(n + 1) : asked'[i].response.nextupd \in Nat
          BY <3>2, Zenon DEF Responses
        <5>2. n + 1 \in 1..(n + 1)
          OBVIOUS
        <5> QED
          BY <1>4, <5>1, <5>2, Zenon
      <4>2. claims'.ocsp_resp_expiration_time = SmallerOf(claims.ocsp_resp_expiration_time, times[n + 1]) /\ claims.ocsp_resp_expiration_time \in Nat
        BY <1>1, <2>4, <4>1, Zenon DEF ClaimsType
      <4>3. /\ \A i \in 1..n : claims.ocsp_resp_expiration_time <= times[i]
            /\ \E i \in 1..n : claims.ocsp_resp_expiration_time = times[i]
        BY <1>0, <1>3, <2>1, <3>1 DEF TimesInv, Answer
      <4>4. \A i \in 1..(n + 1) : times[i] = asked'[i].response.nextupd
        BY Zenon
      <4> HIDE DEF times
      <4>5. /\ \A i \in 1..(n + 1) : SmallerOf(claims.ocsp_resp_expiration_time, times[n + 1]) <= times[i]
            /\ \E i \in 1..(n + 1) : SmallerOf(claims.ocsp_resp_expiration_time, times[n + 1]) = times[i]
        BY <4>1, <4>2, <4>3, LeastOfMore, Zenon
      <4> QED
        BY <1>3, <4>2, <4>4, <4>5
    <3>4. ASSUME claims'.signed_age
          PROVE  /\ \A i \in 1..Len(asked') : claims'.status_deadline <= asked'[i].response.status_deadline
                 /\ \E i \in 1..Len(asked') : claims'.status_deadline = asked'[i].response.status_deadline
      <4> DEFINE times == [i \in 1..(n + 1) |-> asked'[i].response.status_deadline]
      <4>1. times \in [1..(n + 1) -> Nat] /\ times[n + 1] = r.status_deadline
        <5>1. \A i \in 1..(n + 1) : asked'[i].response.status_deadline \in Nat
          BY <3>2, Zenon DEF Responses
        <5>2. n + 1 \in 1..(n + 1)
          OBVIOUS
        <5> QED
          BY <1>4, <5>1, <5>2, Zenon
      <4>2. claims'.status_deadline = SmallerOf(claims.status_deadline, times[n + 1]) /\ claims.status_deadline \in Nat
        BY <1>1, <2>4, <3>1, <4>1, <3>4, Zenon DEF ClaimsType
      <4>3. /\ \A i \in 1..n : claims.status_deadline <= times[i]
            /\ \E i \in 1..n : claims.status_deadline = times[i]
        BY <1>0, <1>3, <2>1, <3>1, <2>6, <3>4 DEF TimesInv, Answer
      <4>4. \A i \in 1..(n + 1) : times[i] = asked'[i].response.status_deadline
        BY Zenon
      <4> HIDE DEF times
      <4>5. /\ \A i \in 1..(n + 1) : SmallerOf(claims.status_deadline, times[n + 1]) <= times[i]
            /\ \E i \in 1..(n + 1) : SmallerOf(claims.status_deadline, times[n + 1]) = times[i]
        BY <4>1, <4>2, <4>3, LeastOfMore, Zenon
      <4> QED
        BY <1>3, <4>2, <4>4, <4>5, SMTT(30)
    <3>5. ASSUME claims'.signed_age
          PROVE  /\ \A i \in 1..Len(asked') : claims'.oldest_this_update <= asked'[i].response.thisupd
                 /\ \E i \in 1..Len(asked') : claims'.oldest_this_update = asked'[i].response.thisupd
      <4> DEFINE times == [i \in 1..(n + 1) |-> asked'[i].response.thisupd]
      <4>1. times \in [1..(n + 1) -> Nat] /\ times[n + 1] = r.thisupd
        <5>1. \A i \in 1..(n + 1) : asked'[i].response.thisupd \in Nat
          BY <3>2, Zenon DEF Responses
        <5>2. n + 1 \in 1..(n + 1)
          OBVIOUS
        <5> QED
          BY <1>4, <5>1, <5>2, Zenon
      <4>2. claims'.oldest_this_update = SmallerOf(claims.oldest_this_update, times[n + 1]) /\ claims.oldest_this_update \in Nat
        BY <1>1, <2>4, <3>1, <4>1, <3>5, Zenon DEF ClaimsType
      <4>3. /\ \A i \in 1..n : claims.oldest_this_update <= times[i]
            /\ \E i \in 1..n : claims.oldest_this_update = times[i]
        BY <1>0, <1>3, <2>1, <3>1, <2>6, <3>5 DEF TimesInv, Answer
      <4>4. \A i \in 1..(n + 1) : times[i] = asked'[i].response.thisupd
        BY Zenon
      <4> HIDE DEF times
      <4>5. /\ \A i \in 1..(n + 1) : SmallerOf(claims.oldest_this_update, times[n + 1]) <= times[i]
            /\ \E i \in 1..(n + 1) : SmallerOf(claims.oldest_this_update, times[n + 1]) = times[i]
        BY <4>1, <4>2, <4>3, LeastOfMore, Zenon
      <4> QED
        BY <1>3, <4>2, <4>4, <4>5, ZenonT(30)
    <3> QED
      BY <3>3, <3>4, <3>5 DEF TimesInv, Answer
  <2>9. StatusInv'
    <3>1. CASE /\ \A i \in 1..n : asked[i].response.status = "GOOD"
               /\ claims.status = "GOOD" /\ claims.revocation_reason = NoReason
      <4>1. claims'.status = r.status
        BY <2>3, <3>1
      <4>2. claims'.revocation_reason = IF r.status = "REVOKED" THEN s ELSE NoReason
        BY <2>3, <3>1 DEF SoundAnswer
      <4>3. CASE r.status = "GOOD"
        <5>1. \A i \in 1..Len(asked') : asked'[i].response.status = "GOOD"
          BY <1>3, <1>4, <2>5, <3>1, <4>3
        <5> QED
          BY <4>1, <4>2, <4>3, <5>1 DEF StatusInv, Answer
      <4>4. CASE r.status # "GOOD"
        <5>1. FirstBad(n + 1)'
          BY <1>3, <1>4, <2>5, <3>1, <4>4 DEF FirstBad, Answer
        <5> QED
          BY <1>4, <2>5, <4>1, <4>2, <5>1 DEF StatusInv, Answer
      <4> QED
        BY <4>3, <4>4
    <3>2. CASE \E m \in 1..Len(asked) :
                  /\ FirstBad(m)
                  /\ claims.status = Answer(m).status
                  /\ claims.revocation_reason \in {NoReason, asked[m].subject}
      <4>1. PICK m \in 1..n :
                  /\ FirstBad(m)
                  /\ claims.status = Answer(m).status
                  /\ claims.revocation_reason \in {NoReason, asked[m].subject}
        BY <1>0, <3>2
      <4>2. claims.status # "GOOD"
        BY <4>1 DEF FirstBad
      <4>3. claims'.status = claims.status /\ claims'.revocation_reason = claims.revocation_reason
        BY <2>3, <4>2
      <4>4. asked'[m] = asked[m] /\ \A i \in 1..(m - 1) : asked'[i] = asked[i]
        BY <1>3, <4>1
      <4>5. FirstBad(m)'
        BY <1>3, <2>5, <4>1, <4>4 DEF FirstBad, Answer
      <4> QED
        BY <2>5, <4>1, <4>3, <4>4, <4>5 DEF StatusInv, Answer
    <3> QED
      BY <1>0, <2>1, <3>1, <3>2, ZenonT(30) DEF StatusInv, Answer
  <2> QED
    BY <1>3, <2>3, <2>7, <2>8, <2>9 DEF ClaimsInv
<1> QED
  BY <1>5, <1>6

\* An iteration of the loop.
LEMMA AskKeeps == ChainInv /\ Ask => ChainInv'
<1> SUFFICES ASSUME ChainInv, Ask PROVE ChainInv'
  OBVIOUS
<1>1. /\ pc = "ask" /\ Straight /\ subject_idx = Len(presented) - 2 - Len(asked)
      /\ Len(asked) <= ToAsk /\ subject_idx >= start_indx /\ presented \in Chains
      /\ client \in Clients /\ verificationTime \in VerificationTimes
      /\ type \in {"identity", "rim"} /\ ~accepted
  BY DEF ChainInv, LoopInv, Ask
<1>2. PICK n \in Nat : n = Len(asked)
  BY DEF ChainInv, AskedInv
<1>3. PICK st \in Nat : st = start_indx
  BY DEF start_indx
<1>4. PICK leaf \in Nat : leaf = presented[1] /\ DOMAIN presented = 1..Len(presented)
  <2>1. PICK k \in 1..MaxChain : presented \in [1..k -> 0..Root]
    BY <1>1 DEF Chains
  <2>2. k \in Nat /\ 1 \in 1..k
    BY OcspChainConstants
  <2>3. Len(presented) = k /\ DOMAIN presented = 1..k
    BY <2>1, <2>2
  <2> QED
    BY <2>1, <2>2, <2>3, OcspChainConstants
<1>5. Root \in Nat
  BY OcspChainConstants
<1>6. PICK len \in Int : len = Len(presented) /\ len = Root - leaf + 1
  BY <1>1, <1>4, <1>5 DEF Straight
<1>7. PICK idx \in Int : idx = subject_idx /\ idx = len - 2 - n /\ idx >= st
  BY <1>1, <1>2, <1>3, <1>6
<1>8. Root - (n + 1) \in Nat /\ idx + 1 = Root - leaf - n /\ idx + 1 \in 1..len /\ idx + 2 \in 1..len
  BY <1>5, <1>6, <1>7
<1>a. /\ presented[subject_idx + 1] = Root - (n + 1)
      /\ presented[subject_idx + 2] = Root - (n + 1) + 1
  <2>1. DOMAIN presented = 1..len
    BY <1>4, <1>6
  <2>2. presented[idx + 1] = leaf + (idx + 1) - 1 /\ presented[idx + 2] = leaf + (idx + 2) - 1
    BY <1>1, <1>4, <1>8, <2>1, Zenon DEF Straight
  <2>3. leaf + (idx + 1) - 1 = Root - (n + 1) /\ leaf + (idx + 2) - 1 = Root - (n + 1) + 1
    BY <1>5, <1>6, <1>7
  <2> QED
    BY <1>7, <2>2, <2>3
<1>9. PICK r \in Answers(Root - (n + 1)) :
         IF Consistent(claims, r)
         THEN /\ claims' = Merge(claims, r)
              /\ asked' = Append(asked, [subject |-> Root - (n + 1), issuer |-> Root - (n + 1) + 1,
                                         response |-> r])
              /\ subject_idx' = subject_idx - 1
              /\ UNCHANGED <<pc, result>>
         ELSE /\ Return("OcspInvalidResponse")
              /\ UNCHANGED <<claims, asked, subject_idx>>
  BY <1>a DEF Ask
<1>10. SoundAnswer(r, Root - (n + 1))
  BY <1>1, <1>8, <1>9, AnswersSound
<1>11. UNCHANGED <<type, presented, expired, client, verificationTime, accepted>>
  BY DEF Ask, call
<1>12. CASE ~Consistent(claims, r)
  <2>1. UNCHANGED <<claims, asked>> /\ pc' = "returned" /\ result' = "OcspInvalidResponse"
    BY <1>9, <1>12 DEF Return
  <2>2. AskedInv' /\ ClaimsInv'
    BY <2>1, NothingAsked
  <2>3. LoopInv'
    BY <1>1, <1>11, <2>1 DEF LoopInv, Complete
  <2> QED
    BY <2>2, <2>3 DEF ChainInv
<1>13. CASE Consistent(claims, r)
  <2>1. /\ claims' = Merge(claims, r)
        /\ asked' = Append(asked, [subject |-> Root - (n + 1), issuer |-> Root - (n + 1) + 1,
                                   response |-> r])
        /\ subject_idx' = subject_idx - 1
        /\ UNCHANGED <<pc, result>>
    BY <1>9, <1>13
  <2>2. ClaimsInv'
    BY <1>8, <1>10, <1>13, <2>1, MergeKeeps
  <2>3. [subject |-> Root - (n + 1), issuer |-> Root - (n + 1) + 1, response |-> r] \in Questions
    BY <1>8, <1>10 DEF SoundAnswer, Questions
  <2>4. /\ asked' \in Seq(Questions) /\ Len(asked') = n + 1
        /\ \A i \in 1..n : asked'[i] = asked[i]
        /\ asked'[n + 1] = [subject |-> Root - (n + 1), issuer |-> Root - (n + 1) + 1,
                            response |-> r]
    BY <1>2, <2>1, <2>3 DEF ChainInv, AskedInv
  <2>5. AskedInv'
    <3>1. ASSUME NEW i \in 1..(n + 1)
          PROVE  /\ asked'[i].subject = Root - i /\ asked'[i].issuer = Root - i + 1
                 /\ SoundAnswer(asked'[i].response, asked'[i].subject)
      <4>1. CASE i = n + 1
        BY <1>10, <2>4, <4>1
      <4>2. CASE i \in 1..n
        BY <1>2, <2>4, <4>2 DEF ChainInv, AskedInv, Answer
      <4> QED
        BY <4>1, <4>2
    <3> QED
      BY <2>4, <3>1 DEF AskedInv, Answer, SoundAnswer
  <2>6. LoopInv'
    <3>1. Straight' /\ ToAsk' = ToAsk
      BY <1>1, <1>11 DEF Straight, ToAsk, start_indx
    <3>2. subject_idx' = Len(presented) - 2 - (n + 1)
      <4>1. idx - 1 = len - 2 - (n + 1)
        BY <1>7
      <4> QED
        BY <1>6, <1>7, <2>1, <4>1, Zenon
    <3>3. n + 1 <= ToAsk
      <4>1. ToAsk = IF Root > leaf + st THEN Root - leaf - st ELSE 0
        BY <1>3, <1>4 DEF ToAsk
      <4>2. Root > leaf + st /\ n + 1 <= Root - leaf - st
        BY <1>5, <1>6, <1>7
      <4> QED
        BY <4>1, <4>2
    <3> QED
      BY <1>1, <1>11, <2>1, <2>4, <3>1, <3>2, <3>3 DEF LoopInv, Complete
  <2> QED
    BY <2>2, <2>5, <2>6 DEF ChainInv
<1> QED
  BY <1>12, <1>13

\* Every step keeps the invariant.
LEMMA ChainInvNext == ChainInv /\ [Next]_vars => ChainInv'
BY AskKeeps, NextChainKeeps, OtherStepsKeep DEF Next

\* The invariant always holds.
LEMMA ChainInvAlways == Spec => []ChainInv
BY ChainInvInit, ChainInvNext, PTL DEF Spec

-----------------------------------------------------------------------------
\* Min is the member that no other is below.
LEMMA MinIs ==
    ASSUME NEW S \in SUBSET Nat, NEW m \in S, \A x \in S : m <= x
    PROVE  Min(S) = m
<1>1. \A x \in S : (\A y \in S : x <= y) => x = m
  OBVIOUS
<1> QED
  BY <1>1, Zenon DEF Min

\* Claims for a chain are produced only after every certificate below the
\* anchor was asked about once, under its issuer: the loop of
\* generate_ocsp_claims_for_path leaves out none, for a hierarchy of any depth
\* and however the chain was presented.
THEOREM EveryCertificateAlwaysAsked == Spec => []EveryCertificateIsAsked
<1>1. ChainInv => EveryCertificateIsAsked
  <2> SUFFICES ASSUME ChainInv, Complete
               PROVE  /\ [i \in DOMAIN asked |-> asked[i].subject] = [i \in 1..ToAsk |-> Root - i]
                      /\ \A i \in DOMAIN asked : asked[i].issuer = asked[i].subject + 1
    BY DEF EveryCertificateIsAsked, ToAsk
  <2>1. DOMAIN asked = 1..Len(asked) /\ Len(asked) = ToAsk
    BY DEF ChainInv, LoopInv, AskedInv
  <2>2. \A i \in 1..Len(asked) : asked[i].subject = Root - i /\ asked[i].issuer = Root - i + 1
    BY DEF ChainInv, AskedInv
  <2> QED
    BY <2>1, <2>2
<1> QED
  BY <1>1, ChainInvAlways, PTL

\* The overall policy accepts a chain only on answers that were all good, all
\* valid and all fresh in one way.
THEOREM AcceptedAlwaysGoodAndFresh == Spec => []AcceptedIsGoodAndFresh
<1>1. ChainInv => AcceptedIsGoodAndFresh
  <2> SUFFICES ASSUME ChainInv, accepted
               PROVE  /\ Replies # {}
                      /\ \A r \in Replies : r.status = "GOOD" /\ r.response_valid
                      /\ \/ \A r \in Replies : r.nonce_matches /\ ~r.signed_age
                         \/ \E t \in VerificationTimes : \A r \in Replies :
                               /\ r.signed_age /\ r.verification_time = t
                               /\ r.thisupd - FutureTolerance <= t
                               /\ t < r.nextupd /\ t < r.thisupd + MaxSignedAge
    BY DEF AcceptedIsGoodAndFresh
  <2>1. claims.status = "GOOD" /\ claims.ocsp_response_valid /\ Fresh(claims)
    BY DEF ChainInv, LoopInv, check_cert_chain
  <2>2. asked # <<>>
    BY <2>1 DEF ChainInv, ClaimsInv, NoClaims
  <2>3. asked \in Seq(Questions) /\ FlagsInv /\ StatusInv
    BY <2>2 DEF ChainInv, AskedInv, ClaimsInv
  <2>4. PICK n \in Nat \ {0} : n = Len(asked) /\ DOMAIN asked = 1..n
    BY <2>2, <2>3, EmptySeq
  <2>5. \A r \in Replies : \E i \in 1..n : r = Answer(i)
    BY <2>4 DEF Replies
  <2>6. Answer(1) \in Replies
    BY <2>4 DEF Replies
  <2>7. ASSUME NEW r \in Replies PROVE r.status = "GOOD" /\ r.response_valid
    <3>1. PICK i \in 1..n : r = Answer(i)
      BY <2>5
    <3>2. \A j \in 1..n : Answer(j).status = "GOOD"
      BY <2>1, <2>3, <2>4 DEF StatusInv, FirstBad
    <3>3. Answer(i).response_valid
      BY <2>1, <2>3, <2>4 DEF FlagsInv
    <3> QED
      BY <3>1, <3>2, <3>3
  <2>8. CASE claims.nonce_matches /\ ~claims.signed_age
    <3>1. ASSUME NEW r \in Replies PROVE r.nonce_matches /\ ~r.signed_age
      <4>1. PICK i \in 1..n : r = Answer(i)
        BY <2>5
      <4> QED
        BY <2>3, <2>4, <2>8, <4>1 DEF FlagsInv
    <3> QED
      BY <2>6, <2>7, <3>1
  <2>9. CASE claims.signed_age
    <3>1. ASSUME NEW i \in 1..n
          PROVE  /\ Answer(i).signed_age /\ Answer(i).verification_time = claims.verification_time
                 /\ claims.verification_time \in VerificationTimes
                 /\ Answer(i).thisupd - FutureTolerance <= claims.verification_time
                 /\ claims.verification_time < Answer(i).nextupd
                 /\ claims.verification_time < Answer(i).thisupd + MaxSignedAge
      <4>1. Answer(i).signed_age /\ Answer(i).verification_time = claims.verification_time
        BY <2>3, <2>4, <2>9, Zenon DEF FlagsInv
      <4>2. SoundAnswer(Answer(i), asked[i].subject)
        BY <2>4 DEF ChainInv, AskedInv
      <4>3. PICK this \in Nat, next \in Nat : this = Answer(i).thisupd /\ next = Answer(i).nextupd
        BY <4>2 DEF SoundAnswer, Responses
      <4>4. PICK vt \in Nat : vt = claims.verification_time
        BY DEF ChainInv, ClaimsInv, ClaimsType
      <4>5. vt \in VerificationTimes /\ this - FutureTolerance <= vt /\ vt < Deadline(this, next)
        BY <4>1, <4>2, <4>3, <4>4 DEF SoundAnswer
      <4>6. PICK dl \in Nat : dl = Deadline(this, next) /\ dl <= next /\ dl <= this + MaxSignedAge
        BY DeadlineProperty
      <4>7. vt < next /\ vt < this + MaxSignedAge
        BY <4>5, <4>6, OcspChainConstants
      <4> QED
        BY <4>1, <4>3, <4>4, <4>5, <4>7
    <3>2. \A r \in Replies :
             /\ r.signed_age /\ r.verification_time = claims.verification_time
             /\ r.thisupd - FutureTolerance <= claims.verification_time
             /\ claims.verification_time < r.nextupd
             /\ claims.verification_time < r.thisupd + MaxSignedAge
      BY <2>5, <3>1
    <3>3. claims.verification_time \in VerificationTimes
      BY <2>4, <3>1
    <3> QED
      BY <2>6, <2>7, <3>2, <3>3
  <2> QED
    BY <2>1, <2>8, <2>9 DEF Fresh
<1> QED
  BY <1>1, ChainInvAlways, PTL

\* The claims report the highest certificate that is not good, and its reason.
THEOREM HighestBadAlwaysReported == Spec => []HighestBadIsReported
<1>1. ChainInv => HighestBadIsReported
  <2> SUFFICES ASSUME ChainInv, asked # <<>>
               PROVE  HighestBadIsReported
    BY DEF HighestBadIsReported
  <2> DEFINE bad == {i \in DOMAIN asked : Answer(i).status # "GOOD"}
  <2>1. DOMAIN asked = 1..Len(asked) /\ StatusInv /\ Len(asked) \in Nat
    BY DEF ChainInv, AskedInv, ClaimsInv
  <2>2. CASE /\ \A i \in 1..Len(asked) : Answer(i).status = "GOOD"
             /\ claims.status = "GOOD" /\ claims.revocation_reason = NoReason
    BY <2>1, <2>2 DEF HighestBadIsReported
  <2>3. ASSUME NEW m \in 1..Len(asked), FirstBad(m), claims.status = Answer(m).status,
               claims.revocation_reason \in {NoReason, asked[m].subject}
        PROVE  HighestBadIsReported
    <3>1. m \in bad /\ bad \in SUBSET Nat
      BY <2>1, <2>3 DEF FirstBad
    <3>2. \A x \in bad : m <= x
      BY <2>1, <2>3 DEF FirstBad
    <3>3. Min(bad) = m
      <4> HIDE DEF bad
      <4> QED
        BY <3>1, <3>2, MinIs
    <3> QED
      BY <2>3, <3>1, <3>3 DEF HighestBadIsReported
  <2> QED
    BY <2>1, <2>2, <2>3 DEF StatusInv
<1> QED
  BY <1>1, ChainInvAlways, PTL

\* The times the claims report are the earliest of the answers.
THEOREM EarliestTimesAlwaysReported == Spec => []EarliestTimesAreReported
<1>1. ChainInv => EarliestTimesAreReported
  <2> SUFFICES ASSUME ChainInv, asked # <<>>
               PROVE  EarliestTimesAreReported
    BY DEF EarliestTimesAreReported
  <2>1. PICK n \in Nat : n = Len(asked) /\ DOMAIN asked = 1..n
    BY DEF ChainInv, AskedInv
  <2>2. TimesInv /\ FlagsInv
    BY DEF ChainInv, ClaimsInv
  <2>3. ASSUME NEW i \in 1..n
        PROVE  /\ Answer(i) \in Responses /\ Answer(i) \in Replies
               /\ Answer(i).signed_age =>
                     Answer(i).status_deadline = Deadline(Answer(i).thisupd, Answer(i).nextupd)
    BY <2>1 DEF ChainInv, AskedInv, SoundAnswer, Replies
  <2>4. \A r \in Replies : \E i \in 1..n : r = Answer(i)
    BY <2>1 DEF Replies
  <2>5. claims.ocsp_resp_expiration_time = Min({r.nextupd : r \in Replies})
    <3> DEFINE times == {r.nextupd : r \in Replies}
    <3>1. times \in SUBSET Nat
      BY <2>3, <2>4 DEF Responses
    <3>2. claims.ocsp_resp_expiration_time \in times
      BY <2>1, <2>2, <2>3 DEF TimesInv
    <3>3. \A x \in times : claims.ocsp_resp_expiration_time <= x
      BY <2>1, <2>2, <2>4 DEF TimesInv
    <3> HIDE DEF times
    <3>4. Min(times) = claims.ocsp_resp_expiration_time
      BY <3>1, <3>2, <3>3, MinIs, Zenon
    <3> QED
      BY <3>4 DEF times
  <2>6. ASSUME claims.signed_age
        PROVE  claims.status_deadline = Min({Deadline(r.thisupd, r.nextupd) : r \in Replies})
    <3> DEFINE times == {Deadline(r.thisupd, r.nextupd) : r \in Replies}
    <3>0. \A i \in 1..n : Answer(i).status_deadline = Deadline(Answer(i).thisupd, Answer(i).nextupd)
      BY <2>1, <2>2, <2>3, <2>6, Zenon DEF FlagsInv
    <3>1. times \in SUBSET Nat
      BY <2>3, <2>4, <3>0 DEF Responses
    <3>2. claims.status_deadline \in times
      BY <2>1, <2>2, <2>3, <2>6, <3>0 DEF TimesInv
    <3>3. \A x \in times : claims.status_deadline <= x
      BY <2>1, <2>2, <2>4, <2>6, <3>0 DEF TimesInv
    <3> HIDE DEF times
    <3>4. Min(times) = claims.status_deadline
      BY <3>1, <3>2, <3>3, MinIs, Zenon
    <3> QED
      BY <3>4 DEF times
  <2>7. ASSUME claims.signed_age
        PROVE  claims.oldest_this_update = Min({r.thisupd : r \in Replies})
    <3> DEFINE times == {r.thisupd : r \in Replies}
    <3>1. times \in SUBSET Nat
      BY <2>3, <2>4 DEF Responses
    <3>2. claims.oldest_this_update \in times
      BY <2>1, <2>2, <2>3, <2>7 DEF TimesInv
    <3>3. \A x \in times : claims.oldest_this_update <= x
      BY <2>1, <2>2, <2>4, <2>7 DEF TimesInv
    <3> HIDE DEF times
    <3>4. Min(times) = claims.oldest_this_update
      BY <3>1, <3>2, <3>3, MinIs, Zenon
    <3> QED
      BY <3>4 DEF times
  <2> QED
    BY <2>5, <2>6, <2>7 DEF EarliestTimesAreReported
<1> QED
  BY <1>1, ChainInvAlways, PTL

=============================================================================
