------------------------------ MODULE NvatProofs ------------------------------
(***************************************************************************)
(* The handles of the C API are sound for any number of boxes and devices, *)
(* and memory is lost only in calls that report an error.                  *)
(***************************************************************************)
EXTENDS Nvat, FiniteSetTheorems, TLAPS

\* What the boxes hold.  The Rust bindings give no client away: their boxes
\* stay "ready", and their contexts have none.
Conditions == {"ready", "empty", "hollow"}
Shared == IF binding = "Rust" THEN {"ready"} ELSE Conditions
Taken == IF binding = "Rust" THEN {"empty"} ELSE Conditions
Usable == IF binding = "Rust" THEN {"ready"} ELSE {"ready", "hollow"}

Clients == {"ocsp_client", "cached_client", "rim_store", "cached_store"}

Contents(v) ==
    IF v \in Clients THEN Shared
    ELSE IF v = "ctx" THEN [rim : Taken, ocsp : Taken, rp : BOOLEAN]
    ELSE IF v = "evidence" THEN [items : SUBSET ({"element"} \X Nat)]
    ELSE IF v = "verifier"
    THEN {nras_verifier} \cup [type : {"local"}, rim : Usable, ocsp : Usable]
    ELSE {"value"}

Boxes(v) == [kind : {Kind(v)}, has : Contents(v)]

HeapInv ==
    /\ IsFiniteSet(DOMAIN heap)
    /\ DOMAIN heap \subseteq Addresses
    /\ \A a \in DOMAIN heap : heap[a] \in Boxes(a[1])

\* A handle refers to a box that was made for its variable, and the evidence
\* has its elements.
VarInv ==
    /\ var \in [Variables -> Addresses \cup {null}]
    /\ \A v \in Variables : var[v] # null => var[v] \in DOMAIN heap /\ var[v][1] = v
    /\ var["evidence"] # null => heap[var["evidence"]].has.items \subseteq DOMAIN heap

IInv ==
    /\ binding \in {"C", "Rust"}
    /\ HeapInv /\ VarInv
    /\ binding = "Rust" => rc # "crash"

\* A step that keeps the invariant and loses a box only in a failure.
StepOK == IInv' /\ \A a \in Lost' : a \notin Lost => LossIsFailure(a)

-----------------------------------------------------------------------------
\* The invariant holds in a process that has not called anything.
LEMMA IInvInit == Init => IInv
<1> SUFFICES ASSUME Init PROVE IInv
  OBVIOUS
<1>1. DOMAIN heap = {}
  BY DEF Init
<1> QED
  BY <1>1, FS_EmptySet DEF Init, IInv, HeapInv, VarInv, Variables

\* As long as there is room for a box, there is an unused address for it.
LEMMA AddressIsFresh ==
    ASSUME IInv, HasRoom(1), NEW v \in Variables
    PROVE  Address(v) \in Addresses /\ Address(v) \notin DOMAIN heap /\ Address(v)[1] = v
<1> DEFINE numbers == 1 .. MaxBoxes + 1
           taken == [k \in numbers |-> <<v, k>>]
<1>1. IsFiniteSet(numbers) /\ Cardinality(numbers) = MaxBoxes + 1
  BY FS_Interval, NvatConstants
<1>2. IsFiniteSet(DOMAIN heap) /\ Cardinality(DOMAIN heap) \in Nat
  BY FS_CardinalityType DEF IInv, HeapInv
<1>3. \E k \in numbers : <<v, k>> \notin DOMAIN heap
  <2>1. SUFFICES ASSUME \A k \in numbers : <<v, k>> \in DOMAIN heap PROVE FALSE
    OBVIOUS
  <2>2. taken \in [numbers -> DOMAIN heap]
    BY <2>1
  <2>3. Cardinality(DOMAIN heap) < Cardinality(numbers)
    BY <1>1, <1>2, NvatConstants DEF HasRoom
  <2> HIDE DEF numbers, taken
  <2>4. \E x, y \in numbers : x # y /\ taken[x] = taken[y]
    BY <1>1, <1>2, <2>2, <2>3, FS_PigeonHole
  <2> QED
    BY <2>4 DEF taken
<1>4. PICK k \in Nat : Address(v) = <<v, k>> /\ <<v, k>> \notin DOMAIN heap
  BY <1>3 DEF Address
<1> QED
  BY <1>4 DEF Addresses

\* The type of a box does not change with a step.
LEMMA BoxesStay == ASSUME binding' = binding PROVE \A v : Boxes(v)' = Boxes(v)
BY DEF Boxes, Contents, Shared, Taken, Usable

\* The invariant covers the elements of an array and no other box has any.
LEMMA ElementsOfBoxes ==
    ASSUME IInv, NEW v \in Variables, var[v] # null
    PROVE  /\ v = "evidence" => Elements(heap[var[v]]) = heap[var[v]].has.items
           /\ v # "evidence" => Elements(heap[var[v]]) = {}
           /\ heap[var[v]] \in Boxes(v)
           /\ Elements(heap[var[v]]) \subseteq ({"element"} \X Nat)
           /\ Elements(heap[var[v]]) \subseteq DOMAIN heap
<1>1. heap[var[v]] \in Boxes(v)
  BY DEF IInv, HeapInv, VarInv
<1>2. heap[var[v]].kind = Kind(v)
  BY <1>1 DEF Boxes
<1>3. CASE v = "evidence"
  <2>1. heap[var[v]].has \in [items : SUBSET ({"element"} \X Nat)]
    BY <1>1, <1>3 DEF Boxes, Contents, Clients
  <2> QED
    BY <1>1, <1>2, <1>3, <2>1 DEF Elements, Kind, IInv, VarInv
<1>4. CASE v # "evidence"
  BY <1>1, <1>2, <1>4 DEF Elements, Kind
<1> QED
  BY <1>3, <1>4

\* The invariant implies the two properties of the states.
LEMMA IInvImplies == IInv => HandlesAreSound /\ VerifiersHaveClients
<1> SUFFICES ASSUME IInv PROVE HandlesAreSound /\ VerifiersHaveClients
  OBVIOUS
<1>1. ASSUME NEW v \in Variables, var[v] # null
      PROVE  /\ var[v] \in DOMAIN heap /\ heap[var[v]].kind = Kind(v)
             /\ \A w \in Variables \ {v} : var[w] # var[v]
  BY <1>1, ElementsOfBoxes DEF IInv, VarInv, Boxes
<1>2. ASSUME NEW v \in Variables, var[v] # null, NEW a \in Elements(heap[var[v]])
      PROVE  a \in DOMAIN heap /\ heap[a].kind = "element"
  <2>1. a \in DOMAIN heap /\ a \in ({"element"} \X Nat)
    BY <1>2, ElementsOfBoxes
  <2>2. heap[a] \in Boxes("element")
    BY <2>1 DEF IInv, HeapInv
  <2> QED
    BY <2>1, <2>2 DEF Boxes, Kind
<1>3. ASSUME NEW a \in DOMAIN heap, heap[a].kind = "verifier", heap[a].has.type = "local"
      PROVE  /\ "empty" \notin {heap[a].has.rim, heap[a].has.ocsp}
             /\ binding = "Rust" => CanVerify(heap[a].has)
  <2>1. a[1] \in Variables \cup {"element"} /\ heap[a] \in Boxes(a[1])
    BY <1>3 DEF IInv, HeapInv, Addresses
  <2>2. a[1] = "verifier"
    BY <1>3, <2>1 DEF Boxes, Kind
  <2>3. heap[a].has \in {nras_verifier} \cup [type : {"local"}, rim : Usable, ocsp : Usable]
    BY <2>1, <2>2 DEF Boxes, Contents, Clients
  <2>4. heap[a].has \in [type : {"local"}, rim : Usable, ocsp : Usable]
    BY <1>3, <2>3 DEF nras_verifier
  <2>5. heap[a].has.rim \in Usable /\ heap[a].has.ocsp \in Usable
    BY <2>4
  <2> QED
    BY <2>5 DEF Usable, CanVerify
<1> QED
  BY <1>1, <1>2, <1>3 DEF HandlesAreSound, VerifiersHaveClients, IInv

-----------------------------------------------------------------------------
\* A step that only makes boxes, at unused addresses, and hands out some of
\* them in variables that were NULL.
Grows(made) ==
    /\ DOMAIN heap' = made \cup DOMAIN heap
    /\ \A a \in DOMAIN heap : heap'[a] = heap[a]
    /\ \A a \in made : heap'[a] \in Boxes(a[1])
    /\ IsFiniteSet(made) /\ made \subseteq Addresses \ DOMAIN heap
    /\ binding' = binding /\ rc' # "crash"
    /\ var' \in [Variables -> Addresses \cup {null}]
    /\ \A v \in Variables :
          var'[v] = var[v] \/ (var[v] = null /\ var'[v] \in made /\ var'[v][1] = v)
    /\ var'["evidence"] = var["evidence"] \/ heap'[var'["evidence"]].has.items \subseteq made

\* Such a step keeps the invariant and loses at most the boxes it makes.
LEMMA GrowthIsSound ==
    ASSUME IInv, NEW made, Grows(made)
    PROVE  IInv' /\ \A a \in Lost' : a \notin Lost => a \in made /\ a \notin Reachable'
<1>1. HeapInv'
  <2>1. IsFiniteSet(DOMAIN heap')
    <3>1. IsFiniteSet(made) /\ IsFiniteSet(DOMAIN heap) /\ DOMAIN heap' = made \cup DOMAIN heap
      BY DEF Grows, IInv, HeapInv
    <3>2. IsFiniteSet(made \cup DOMAIN heap)
      BY <3>1, FS_Union, Zenon
    <3> QED
      BY <3>1, <3>2
  <2>2. \A a \in DOMAIN heap' : a \in Addresses /\ heap'[a] \in Boxes(a[1])
    BY DEF Grows, IInv, HeapInv
  <2> QED
    BY <2>1, <2>2, BoxesStay DEF HeapInv, Grows
<1>2. "evidence" \in Variables
  BY DEF Variables
<1>3. VarInv'
  BY <1>2 DEF Grows, IInv, VarInv
<1>4. ASSUME NEW a \in DOMAIN heap, a \in Reachable PROVE a \in Reachable'
  <2>1. a # null
    BY <1>4, NvatConstants DEF IInv, HeapInv
  <2>2. CASE \E v \in Variables : a = var[v]
    BY <2>1, <2>2 DEF Grows, Reachable
  <2>3. CASE var["evidence"] # null /\ a \in Elements(heap[var["evidence"]])
    <3>1. var'["evidence"] = var["evidence"] /\ heap'[var["evidence"]] = heap[var["evidence"]]
      BY <1>2, <2>3 DEF Grows, IInv, VarInv
    <3> QED
      BY <2>3, <3>1 DEF Reachable, Elements
  <2> QED
    BY <1>4, <2>2, <2>3 DEF Reachable
<1> QED
  BY <1>1, <1>3, <1>4 DEF IInv, Lost, Grows

\* A call that changes nothing.
LEMMA ReturnsOK == ASSUME IInv, NEW code, code # "crash", Returns(code) PROVE StepOK
<1>1. UNCHANGED <<binding, heap, var>> /\ rc' = code
  BY DEF Returns
<1>2. \A v : Boxes(v)' = Boxes(v)
  BY <1>1, BoxesStay
<1> QED
  BY <1>1, <1>2 DEF StepOK, IInv, HeapInv, VarInv, Lost, Reachable, Elements

\* Calling through a cache around nothing: only a C program gets there.
LEMMA CrashesOK == ASSUME IInv, binding # "Rust", Crashes PROVE StepOK
<1>1. UNCHANGED <<binding, heap, var>>
  BY DEF Crashes
<1>2. \A v : Boxes(v)' = Boxes(v)
  BY <1>1, BoxesStay
<1> QED
  BY <1>1, <1>2 DEF StepOK, IInv, HeapInv, VarInv, Lost, Reachable, Elements

\* One box is made and handed out.
LEMMA CreatesOK ==
    ASSUME IInv, NEW v \in Variables \ {"evidence"}, NEW has \in Contents(v), Creates(v, has)
    PROVE  StepOK
<1>1. CASE Returns("ALLOC_FAILED")
  BY <1>1, ReturnsOK
<1>2. CASE /\ HasRoom(1) /\ heap' = Box(v, has) @@ heap /\ Receives(v :> Address(v), "OK")
  <2> DEFINE address == Address(v)
  <2>1. address \in Addresses /\ address \notin DOMAIN heap /\ address[1] = v
    BY <1>2, AddressIsFresh
  <2>2. /\ DOMAIN heap' = {address} \cup DOMAIN heap
        /\ \A a \in DOMAIN heap : heap'[a] = heap[a]
        /\ heap'[address] = [kind |-> Kind(v), has |-> has]
    BY <1>2, <2>1 DEF Box, :>, @@
  <2>3. heap'[address] \in Boxes(v)
    BY <2>2 DEF Boxes
  <2>4. var' = [w \in Variables |-> IF w = v THEN address ELSE var[w]]
    BY <1>2 DEF Receives, @@, :>, IInv, VarInv
  <2>5. rc' = "OK" /\ binding' = binding
    BY <1>2 DEF Receives
  <2>6. IsFiniteSet({address})
    BY FS_Singleton
  <2>7. var[v] = null
    BY DEF Creates
  <2> HIDE DEF address
  <2>8. /\ var' \in [Variables -> Addresses \cup {null}]
        /\ \A w \in Variables :
              var'[w] = var[w] \/ (var[w] = null /\ var'[w] \in {address} /\ var'[w][1] = w)
        /\ var'["evidence"] = var["evidence"]
    BY <2>1, <2>4, <2>7 DEF IInv, VarInv, Variables
  <2>9. Grows({address})
    BY <2>1, <2>2, <2>3, <2>5, <2>6, <2>8 DEF Grows
  <2>10. address \in Reachable'
    BY <2>4 DEF Reachable
  <2> QED
    BY <2>9, <2>10, GrowthIsSound DEF StepOK
<1> QED
  BY <1>1, <1>2 DEF Creates

\* ... or what it is made from is no good.
LEMMA CreatesFromOK ==
    ASSUME IInv, NEW v \in Variables \ {"evidence"}, NEW has \in Contents(v), CreatesFrom(v, has)
    PROVE  StepOK
BY CreatesOK, ReturnsOK DEF CreatesFrom

\* What a live handle holds has the type of its variable.
LEMMA HasOK ==
    ASSUME IInv, NEW v \in Variables, var[v] # null
    PROVE  Has(v) \in Contents(v)
BY ElementsOfBoxes DEF Has, Boxes

\* Two boxes that are made in one call differ.
LEMMA AddressesDiffer == ASSUME NEW v, NEW w, v # w PROVE Address(v) # Address(w)
BY DEF Address

-----------------------------------------------------------------------------
\* The results of an attestation or a verification: one or two boxes with a
\* value, V the variables they are for and W those that receive them.
Results(V, W) ==
    /\ DOMAIN heap' = {Address(v) : v \in V} \cup DOMAIN heap
    /\ \A a \in DOMAIN heap : heap'[a] = heap[a]
    /\ \A v \in V : heap'[Address(v)] = [kind |-> v, has |-> "value"]
    /\ binding' = binding /\ rc' # "crash"
    /\ var' = [v \in Variables |-> IF v \in W THEN Address(v) ELSE var[v]]

\* What is lost of the results is what no variable receives.
LEMMA ResultsOK ==
    ASSUME IInv, NEW V \in SUBSET {"str", "claims"}, NEW W \in SUBSET V,
           V # {} => HasRoom(1), \A w \in W : var[w] = null, Results(V, W),
           \A v \in V \ W : heap'[Address(v)].kind = v => LossIsFailure(Address(v))
    PROVE  StepOK
<1> DEFINE made == {Address(v) : v \in V}
<1>1. V \subseteq Variables \ {"evidence"}
  BY DEF Variables
<1>2. \A v \in V : Address(v) \in Addresses /\ Address(v) \notin DOMAIN heap /\ Address(v)[1] = v
  BY <1>1, AddressIsFresh, Zenon
<1>0. \A v \in V : heap'[Address(v)] = [kind |-> v, has |-> "value"]
  BY Zenon DEF Results
<1>3. ASSUME NEW v \in V PROVE heap'[Address(v)] \in Boxes(v)
  <2>1. Kind(v) = v /\ Contents(v) = {"value"}
    BY DEF Kind, Contents, Clients
  <2>2. heap'[Address(v)] = [kind |-> v, has |-> "value"]
    BY <1>0
  <2> QED
    BY <2>1, <2>2 DEF Boxes
<1>4. IsFiniteSet(made)
  <2>1. made \subseteq {Address("str"), Address("claims")}
    OBVIOUS
  <2>2. IsFiniteSet({Address("str")})
    BY FS_Singleton, Zenon
  <2>3. IsFiniteSet({Address("str")} \cup {Address("claims")})
    BY <2>2, FS_AddElement
  <2>4. made \in SUBSET ({Address("str")} \cup {Address("claims")})
    BY <2>1
  <2> HIDE DEF made
  <2> QED
    BY <2>3, <2>4, FS_Subset
<1>5. /\ var' \in [Variables -> Addresses \cup {null}]
      /\ \A v \in Variables :
            var'[v] = var[v] \/ (var[v] = null /\ var'[v] \in made /\ var'[v][1] = v)
      /\ var'["evidence"] = var["evidence"]
  BY <1>1, <1>2 DEF Results, IInv, VarInv, Variables
<1>6. Grows(made)
  <2>1. made \subseteq Addresses \ DOMAIN heap /\ \A a \in made : heap'[a] \in Boxes(a[1])
    BY <1>2, <1>3
  <2> QED
    BY <1>4, <1>5, <2>1 DEF Grows, Results
<1>7. \A w \in W : Address(w) \in Reachable'
  BY <1>1 DEF Results, Reachable
<1>8. ASSUME NEW v \in V PROVE heap'[Address(v)].kind = v
  <2>1. heap'[Address(v)] = [kind |-> v, has |-> "value"]
    BY <1>0
  <2> QED
    BY <2>1
<1>9. ASSUME NEW a \in Lost', a \notin Lost PROVE LossIsFailure(a)
  <2>1. PICK v \in V : a = Address(v) /\ a \notin Reachable'
    BY <1>6, <1>9, GrowthIsSound
  <2>2. v \notin W
    BY <1>7, <2>1
  <2> QED
    BY <1>8, <2>1, <2>2
<1> QED
  BY <1>6, <1>9, GrowthIsSound DEF StepOK

\* A call hands its results out, or with the Rust bindings keeps them when it
\* fails.
LEMMA ReceivesVars ==
    ASSUME IInv, NEW W \in SUBSET Variables, NEW outs, NEW code,
           outs = [v \in W |-> Address(v)], Receives(outs, code)
    PROVE  /\ binding' = binding /\ rc' = code
           /\ LET K == IF binding = "Rust" /\ code # "OK" THEN {} ELSE W
              IN  var' = [v \in Variables |-> IF v \in K THEN Address(v) ELSE var[v]]
<1>1. outs @@ var = [v \in Variables |-> IF v \in W THEN Address(v) ELSE var[v]]
  BY DEF @@, IInv, VarInv
<1>2. var = [v \in Variables |-> var[v]]
  BY DEF IInv, VarInv
<1> QED
  BY <1>1, <1>2 DEF Receives

\* nvat_attest_device.
LEMMA AttestOK == ASSUME IInv, NEW eat \in BOOLEAN, nvat_attest_device(eat) PROVE StepOK
<1> DEFINE made == IF eat THEN Box("str", "value") ELSE <<>>
           outs == IF eat THEN "str" :> Address("str") ELSE <<>>
           room == IF eat THEN 1 ELSE 0
           V == IF eat THEN {"str"} ELSE {}
<1>1. var["claims"] = null /\ (eat => var["str"] = null)
  BY DEF nvat_attest_device
<1>2. Cardinality(DOMAIN heap) \in Nat
  BY FS_CardinalityType DEF IInv, HeapInv
<1>3. Address("str") # Address("claims")
  BY AddressesDiffer
<1>4. CASE \E v \in {"ctx"} : var[v] = null
  BY <1>4, ReturnsOK DEF nvat_attest_device, Checks
<1>5. CASE var["ctx"] # null /\ "hollow" \in {Has("ctx").rim, Has("ctx").ocsp} /\ Crashes
  <2>1. Has("ctx") \in [rim : Taken, ocsp : Taken, rp : BOOLEAN]
    BY <1>5, HasOK DEF Contents, Variables, Clients
  <2>2. binding # "Rust"
    BY <1>5, <2>1 DEF Taken
  <2> QED
    BY <1>5, <2>2, CrashesOK
<1>6. CASE Returns("ALLOC_FAILED")
  BY <1>6, ReturnsOK
<1>7. CASE /\ HasRoom(room) /\ heap' = made @@ heap /\ rc' \in {"ERROR", "ALLOC_FAILED"}
           /\ UNCHANGED <<binding, var>>
  <2>1. V # {} => HasRoom(1) /\ Address("str") \notin DOMAIN heap
    BY <1>7, AddressIsFresh DEF Variables
  <2>2. /\ DOMAIN heap' = {Address(v) : v \in V} \cup DOMAIN heap
        /\ \A a \in DOMAIN heap : heap'[a] = heap[a]
        /\ \A v \in V : heap'[Address(v)] = [kind |-> v, has |-> "value"]
    BY <1>7, <2>1 DEF Box, @@, :>, Kind
  <2>3. Results(V, {})
    BY <1>7, <2>2 DEF Results, IInv, VarInv
  <2>4. \A v \in V : heap'[Address(v)].kind = v => LossIsFailure(Address(v))
    BY <1>7 DEF LossIsFailure
  <2> QED
    BY <2>1, <2>3, <2>4, ResultsOK
<1>8. ASSUME NEW code \in {"OK", "OVERALL_RESULT_FALSE", "RP_POLICY_MISMATCH"},
             HasRoom(room + 1), heap' = made @@ Box("claims", "value") @@ heap,
             Receives(outs @@ ("claims" :> Address("claims")), code)
      PROVE  StepOK
  <2> DEFINE W == V \cup {"claims"}
             K == IF binding = "Rust" /\ code # "OK" THEN {} ELSE W
  <2>1. HasRoom(1)
    BY <1>2, <1>8, NvatConstants DEF HasRoom
  <2>2. Address("str") \notin DOMAIN heap /\ Address("claims") \notin DOMAIN heap
    BY <2>1, AddressIsFresh DEF Variables
  <2>3. /\ DOMAIN heap' = {Address(v) : v \in W} \cup DOMAIN heap
        /\ \A a \in DOMAIN heap : heap'[a] = heap[a]
        /\ \A v \in W : heap'[Address(v)] = [kind |-> v, has |-> "value"]
    <3> DEFINE s == Address("str")
               c == Address("claims")
    <3>1. /\ made = IF eat THEN s :> [kind |-> "str", has |-> "value"] ELSE <<>>
          /\ Box("claims", "value") = c :> [kind |-> "claims", has |-> "value"]
      BY DEF Box, Kind
    <3>2. s # c /\ s \notin DOMAIN heap /\ c \notin DOMAIN heap
      BY <1>3, <2>2
    <3>3. heap' = made @@ Box("claims", "value") @@ heap
      BY <1>8
    <3> HIDE DEF made, s, c
    <3>4. /\ DOMAIN heap' = (IF eat THEN {s} ELSE {}) \cup {c} \cup DOMAIN heap
          /\ heap'[c] = [kind |-> "claims", has |-> "value"]
          /\ eat => heap'[s] = [kind |-> "str", has |-> "value"]
          /\ \A a \in DOMAIN heap : heap'[a] = heap[a]
      BY <3>1, <3>2, <3>3 DEF @@, :>
    <3> QED
      BY <3>4 DEF s, c
  <2>4. outs @@ ("claims" :> Address("claims")) = [v \in W |-> Address(v)]
    BY DEF @@, :>
  <2>5. /\ binding' = binding /\ rc' = code
        /\ var' = [v \in Variables |-> IF v \in K THEN Address(v) ELSE var[v]]
    BY <1>8, <2>4, ReceivesVars DEF Variables
  <2>6. Results(W, K)
    BY <2>3, <2>5 DEF Results
  <2>7. \A v \in W \ K : heap'[Address(v)].kind = v => LossIsFailure(Address(v))
    BY <2>5 DEF LossIsFailure
  <2> QED
    BY <1>1, <2>1, <2>6, <2>7, ResultsOK
<1> QED
  BY <1>4, <1>5, <1>6, <1>7, <1>8 DEF nvat_attest_device, Checks

\* nvat_verify_gpu_evidence and nvat_verify_switch_evidence.
LEMMA VerifyOK == ASSUME IInv, NEW eat \in BOOLEAN, verify_evidence(eat) PROVE StepOK
<1>1. var["claims"] = null /\ (eat => var["str"] = null)
  BY DEF verify_evidence
<1>2. Cardinality(DOMAIN heap) \in Nat
  BY FS_CardinalityType DEF IInv, HeapInv
<1>3. Address("str") # Address("claims")
  BY AddressesDiffer
<1>4. CASE \E v \in {"verifier", "evidence", "policy"} : var[v] = null
  BY <1>4, ReturnsOK DEF verify_evidence, Checks
<1>5. CASE var["verifier"] # null /\ ~CanVerify(Has("verifier")) /\ Crashes
  <2>1. Has("verifier") \in {nras_verifier} \cup [type : {"local"}, rim : Usable, ocsp : Usable]
    BY <1>5, HasOK DEF Contents, Variables, Clients
  <2>2. Has("verifier") # nras_verifier
    BY <1>5 DEF CanVerify, nras_verifier
  <2>3. binding # "Rust"
    BY <1>5, <2>1, <2>2 DEF Usable, CanVerify
  <2> QED
    BY <1>5, <2>3, CrashesOK
<1>6. ASSUME NEW code \in {"ERROR", "ALLOC_FAILED"}, Returns(code) PROVE StepOK
  BY <1>6, ReturnsOK
<1>7. ASSUME NEW W \in {{"claims"}, {"claims", "str"}}, "str" \in W => eat,
             HasRoom(1), NEW code, code # "crash", code # "none",
             heap' = (IF "str" \in W THEN Box("claims", "value") @@ Box("str", "value")
                                     ELSE Box("claims", "value")) @@ heap,
             Receives([v \in W |-> Address(v)], code)
      PROVE  StepOK
  <2> DEFINE K == IF binding = "Rust" /\ code # "OK" THEN {} ELSE W
  <2>1. Address("str") \notin DOMAIN heap /\ Address("claims") \notin DOMAIN heap
    BY <1>7, AddressIsFresh DEF Variables
  <2>2. /\ DOMAIN heap' = {Address(v) : v \in W} \cup DOMAIN heap
        /\ \A a \in DOMAIN heap : heap'[a] = heap[a]
        /\ \A v \in W : heap'[Address(v)] = [kind |-> v, has |-> "value"]
    BY <1>3, <1>7, <2>1 DEF Box, @@, :>, Kind
  <2>3. /\ binding' = binding /\ rc' = code
        /\ var' = [v \in Variables |-> IF v \in K THEN Address(v) ELSE var[v]]
    BY <1>7, ReceivesVars DEF Variables
  <2>4. Results(W, K)
    BY <1>7, <2>2, <2>3 DEF Results
  <2>5. \A v \in W \ K : heap'[Address(v)].kind = v => LossIsFailure(Address(v))
    BY <1>7, <2>3 DEF LossIsFailure
  <2> QED
    BY <1>1, <1>7, <2>4, <2>5, ResultsOK
<1>8. CASE eat /\ HasRoom(1) /\ heap' = Box("claims", "value") @@ heap
           /\ Receives("claims" :> Address("claims"), "ALLOC_FAILED")
  <2>1. "claims" :> Address("claims") = [v \in {"claims"} |-> Address(v)]
    BY DEF :>
  <2> QED
    BY <1>7, <1>8, <2>1
<1>9. ASSUME NEW code \in {"OK", "OVERALL_RESULT_FALSE"},
             HasRoom(IF eat THEN 2 ELSE 1),
             heap' = Box("claims", "value") @@ (IF eat THEN Box("str", "value") ELSE <<>>) @@ heap,
             Receives(("claims" :> Address("claims"))
                      @@ (IF eat THEN "str" :> Address("str") ELSE <<>>), code)
      PROVE  StepOK
  <2>1. HasRoom(1)
    BY <1>2, <1>9, NvatConstants DEF HasRoom
  <2>2. CASE eat
    <3>1. ("claims" :> Address("claims")) @@ ("str" :> Address("str"))
             = [v \in {"claims", "str"} |-> Address(v)]
      BY DEF :>, @@
    <3> QED
      BY <1>7, <1>9, <2>1, <2>2, <3>1
  <2>3. CASE ~eat
    <3>1. ("claims" :> Address("claims")) @@ <<>> = [v \in {"claims"} |-> Address(v)]
      BY DEF :>, @@
    <3>2. Box("claims", "value") @@ <<>> = Box("claims", "value")
      BY DEF Box, :>, @@
    <3> QED
      BY <1>7, <1>9, <2>1, <2>3, <3>1, <3>2
  <2> QED
    BY <2>2, <2>3
<1> QED
  BY <1>4, <1>5, <1>6, <1>8, <1>9 DEF verify_evidence, Checks

\* nvat_*_evidence_collect: elements without an array are lost only when
\* memory ran out.
LEMMA CollectOK == ASSUME IInv, evidence_collect PROVE StepOK
<1>1. CASE \E v \in {"source"} : var[v] = null
  BY <1>1, ReturnsOK DEF evidence_collect, Checks
<1>2. ASSUME NEW code \in {"ERROR", "ALLOC_FAILED"}, Returns(code) PROVE StepOK
  BY <1>2, ReturnsOK
<1>3. ASSUME NEW n \in 0 .. MaxDevices, NEW done \in 0 .. n, NEW elements, NEW items,
             elements = {<<"element", k>> : k \in 1 .. done},
             items = IF done = n THEN elements ELSE {},
             HasRoom(1 + done), elements \cap DOMAIN heap = {},
             heap' = Box("evidence", [items |-> items])
                     @@ [a \in elements |-> [kind |-> "element", has |-> "value"]] @@ heap,
             Receives("evidence" :> Address("evidence"), IF done = n THEN "OK" ELSE "ALLOC_FAILED")
      PROVE  StepOK
  <2> DEFINE address == Address("evidence")
             made == elements \cup {address}
             code == IF done = n THEN "OK" ELSE "ALLOC_FAILED"
             K == IF binding = "Rust" /\ code # "OK" THEN {} ELSE {"evidence"}
  <2>0. done \in Nat /\ n \in Nat
    BY NvatConstants
  <2>1. HasRoom(1)
    <3>1. Cardinality(DOMAIN heap) \in Nat
      BY FS_CardinalityType DEF IInv, HeapInv
    <3> QED
      BY <1>3, <2>0, <3>1, NvatConstants DEF HasRoom
  <2>2. address \in Addresses /\ address \notin DOMAIN heap /\ address[1] = "evidence"
    BY <2>1, AddressIsFresh DEF Variables
  <2>3. IsFiniteSet(elements)
    <3> DEFINE place == [k \in 1 .. done |-> <<"element", k>>]
    <3>1. place \in Surjection(1 .. done, elements)
      BY <1>3, Zenon DEF Surjection
    <3>2. IsFiniteSet(1 .. done)
      BY <2>0, FS_Interval
    <3> HIDE DEF place
    <3> QED
      BY <3>1, <3>2, FS_Surjection
  <2>4. IsFiniteSet(made)
    BY <2>3, FS_AddElement
  <2>5. elements \subseteq {"element"} \X Nat /\ items \subseteq elements
    BY <1>3
  <2>6. address \notin elements
    BY <2>2, <2>5
  <2>7. /\ DOMAIN heap' = made \cup DOMAIN heap
        /\ \A a \in DOMAIN heap : heap'[a] = heap[a]
        /\ \A a \in elements : heap'[a] = [kind |-> "element", has |-> "value"]
        /\ heap'[address] = [kind |-> "evidence", has |-> [items |-> items]]
    BY <1>3, <2>2, <2>6, Zenon DEF Box, @@, :>, Kind
  <2>8. /\ binding' = binding /\ rc' = code
        /\ var' = [v \in Variables |-> IF v \in K THEN Address(v) ELSE var[v]]
    <3>1. "evidence" :> Address("evidence") = [v \in {"evidence"} |-> Address(v)]
      BY DEF :>
    <3> QED
      BY <1>3, <3>1, ReceivesVars DEF Variables
  <2>9. \A a \in made : heap'[a] \in Boxes(a[1])
    <3>1. Kind("element") = "element" /\ Kind("evidence") = "evidence" /\
          Contents("element") = {"value"} /\ Contents("evidence") = [items : SUBSET ({"element"} \X Nat)]
      BY Zenon DEF Kind, Contents, Clients
    <3>2. heap'[address] \in Boxes("evidence")
      <4>1. [items |-> items] \in Contents("evidence")
        BY <2>5, <3>1, Zenon
      <4> QED
        BY <2>7, <3>1, <4>1 DEF Boxes
    <3>3. \A a \in elements : heap'[a] \in Boxes("element")
      BY <2>7, <3>1 DEF Boxes
    <3> QED
      BY <2>2, <2>5, <3>2, <3>3
  <2>10. made \subseteq Addresses \ DOMAIN heap
    BY <1>3, <2>2, <2>5 DEF Addresses
  <2>11. var["evidence"] = null
    BY DEF evidence_collect
  <2>12. /\ var' \in [Variables -> Addresses \cup {null}]
         /\ \A v \in Variables :
               var'[v] = var[v] \/ (var[v] = null /\ var'[v] \in made /\ var'[v][1] = v)
    BY <2>2, <2>8, <2>11 DEF IInv, VarInv
  <2>13. K # {} => var'["evidence"] = address
    BY <2>8 DEF Variables
  <2>14. K = {} => var' = var
    BY <2>8 DEF IInv, VarInv
  <2>15. heap'[address].has.items \subseteq made
    BY <2>5, <2>7, SMTT(30)
  <2> HIDE DEF made, address, K, code
  <2>16. Grows(made)
    <3>1. rc' # "crash"
      BY <2>8 DEF code
    <3>2. var'["evidence"] = var["evidence"] \/ heap'[var'["evidence"]].has.items \subseteq made
      BY <2>13, <2>14, <2>15
    <3> QED
      BY <2>4, <2>7, <2>8, <2>9, <2>10, <2>12, <3>1, <3>2, ZenonT(30) DEF Grows
  <2>17. ASSUME NEW a \in made, a \notin Reachable' PROVE LossIsFailure(a)
    <3>1. CASE code # "OK"
      <4>1. rc' = "ALLOC_FAILED"
        BY <2>8, <3>1 DEF code
      <4>2. CASE a \in elements
        BY <2>7, <4>1, <4>2 DEF LossIsFailure
      <4>3. CASE a = address
        <5>1. binding = "Rust"
          <6>1. SUFFICES ASSUME binding # "Rust" PROVE FALSE
            OBVIOUS
          <6>2. var'["evidence"] = address
            BY <2>13, <6>1 DEF K
          <6> QED
            BY <2>17, <4>3, <6>2 DEF Reachable, Variables
        <5> QED
          BY <2>7, <4>1, <4>3, <5>1 DEF LossIsFailure
      <4> QED
        BY <2>17, <4>2, <4>3 DEF made
    <3>2. CASE code = "OK"
      <4>1. done = n /\ var'["evidence"] = address /\ items = elements
        BY <1>3, <2>13, <3>2 DEF code, K
      <4>2. address # null /\ Elements(heap'[address]) = elements
        BY <2>2, <2>7, <4>1, NvatConstants DEF Elements
      <4>3. made \subseteq Reachable'
        BY <4>1, <4>2 DEF Reachable, Variables, made, Elements
      <4> QED
        BY <2>17, <4>3
    <3> QED
      BY <3>1, <3>2
  <2> QED
    BY <2>16, <2>17, GrowthIsSound DEF StepOK
<1> QED
  BY <1>1, <1>2, <1>3, Zenon DEF evidence_collect, Checks

-----------------------------------------------------------------------------
\* Boxes are deleted together with the only handle that refers to them.
LEMMA ShrinkOK ==
    ASSUME IInv, NEW v \in Variables, NEW gone, binding' = binding, rc' # "crash",
           heap' = [a \in DOMAIN heap \ gone |-> heap[a]], var' = [var EXCEPT ![v] = null],
           var[v] \in gone, \A a \in gone \cap DOMAIN heap : a = var[v] \/ a[1] = "element",
           v # "evidence" => gone = {var[v]},
           v = "evidence" => Elements(heap[var[v]]) \subseteq gone
    PROVE  StepOK
<1>1. var' = [w \in Variables |-> IF w = v THEN null ELSE var[w]]
  BY Zenon DEF IInv, VarInv
<1>2. DOMAIN heap' = DOMAIN heap \ gone /\ \A a \in DOMAIN heap' : heap'[a] = heap[a]
  OBVIOUS
<1>3. HeapInv'
  <2>1. IsFiniteSet(DOMAIN heap \ gone)
    BY FS_Difference, Zenon DEF IInv, HeapInv
  <2> QED
    BY <1>2, <2>1, BoxesStay DEF IInv, HeapInv
<1>4. "element" \notin Variables /\ "evidence" \in Variables
  BY DEF Variables
<1>5. \A w \in Variables \ {v} : var[w] # null => var[w] \in DOMAIN heap'
  BY <1>2, <1>4 DEF IInv, VarInv
<1>6. ASSUME v # "evidence", var["evidence"] # null
      PROVE  heap'[var["evidence"]] = heap[var["evidence"]] /\
             heap[var["evidence"]].has.items \subseteq DOMAIN heap'
  <2>1. heap[var["evidence"]].has.items \subseteq DOMAIN heap
    BY <1>6 DEF IInv, VarInv
  <2>2. heap[var["evidence"]].has.items \subseteq {"element"} \X Nat
    BY <1>4, <1>6, ElementsOfBoxes
  <2>3. var[v] \notin {"element"} \X Nat
    BY <1>4, NvatConstants DEF IInv, VarInv, Addresses
  <2> QED
    BY <1>2, <1>4, <1>5, <1>6, <2>1, <2>2, <2>3
<1>7. VarInv'
  BY <1>1, <1>4, <1>5, <1>6 DEF IInv, VarInv
<1>8. ASSUME NEW a \in DOMAIN heap', a \in Reachable PROVE a \in Reachable'
  <2>1. a # null /\ a \notin gone
    BY <1>2, <1>8, NvatConstants DEF IInv, HeapInv
  <2>2. CASE \E w \in Variables : a = var[w]
    BY <1>1, <2>1, <2>2 DEF Reachable
  <2>3. CASE var["evidence"] # null /\ a \in Elements(heap[var["evidence"]])
    <3>1. v # "evidence"
      BY <2>1, <2>3
    <3>2. heap'[var["evidence"]] = heap[var["evidence"]] /\ var'["evidence"] = var["evidence"]
      BY <1>1, <1>4, <1>6, <2>3, <3>1
    <3> QED
      BY <2>3, <3>2 DEF Reachable, Elements
  <2> QED
    BY <1>8, <2>2, <2>3 DEF Reachable
<1> QED
  BY <1>2, <1>3, <1>7, <1>8 DEF StepOK, IInv, Lost

\* nvat_*_free.
LEMMA FreeOK == ASSUME IInv, NEW v \in Variables, nvat_free(v) PROVE StepOK
<1> DEFINE gone == {var[v]} \cup Elements(heap[var[v]])
<1>1. var[v] # null /\ heap' = [a \in DOMAIN heap \ gone |-> heap[a]]
      /\ var' = [var EXCEPT ![v] = null] /\ rc' # "crash" /\ binding' = binding
  BY DEF nvat_free
<1>2. \A a \in gone : a = var[v] \/ a[1] = "element"
  BY <1>1, ElementsOfBoxes
<1>3. v # "evidence" => gone = {var[v]}
  BY <1>1, ElementsOfBoxes
<1> QED
  BY <1>1, <1>2, <1>3, ShrinkOK, Zenon

\* nvat_attestation_ctx_set_evidence_policy.
LEMMA SetEvidencePolicyOK == ASSUME IInv, nvat_attestation_ctx_set_evidence_policy PROVE StepOK
<1>1. CASE \E v \in {"ctx"} : var[v] = null
  BY <1>1, ReturnsOK DEF nvat_attestation_ctx_set_evidence_policy, Checks
<1>2. CASE ~\E v \in {"ctx"} : var[v] = null
  <2> DEFINE gone == {var["policy"]}
  <2>1. heap' = [a \in DOMAIN heap \ gone |-> heap[a]]
        /\ var' = [var EXCEPT !["policy"] = null] /\ rc' # "crash" /\ binding' = binding
    BY <1>2 DEF nvat_attestation_ctx_set_evidence_policy, Checks
  <2>2. "policy" \in Variables /\ var["policy"] \in gone
        /\ \A a \in gone \cap DOMAIN heap : a = var["policy"] \/ a[1] = "element"
    BY DEF Variables
  <2>3. gone = {var["policy"]}
    OBVIOUS
  <2> HIDE DEF gone
  <2> QED
    BY <2>1, <2>2, <2>3, ShrinkOK, Zenon
<1> QED
  BY <1>1, <1>2

-----------------------------------------------------------------------------
\* What a box holds changes, but not the elements of an array.
LEMMA UpdateOK ==
    ASSUME IInv, binding' = binding, var' = var, rc' # "crash",
           DOMAIN heap' = DOMAIN heap, \A a \in DOMAIN heap : heap'[a] \in Boxes(a[1]),
           \A a \in DOMAIN heap : a[1] = "evidence" => heap'[a] = heap[a]
    PROVE  StepOK
<1>1. "evidence" \in Variables
  BY DEF Variables
<1>2. var["evidence"] # null => heap'[var["evidence"]] = heap[var["evidence"]]
  BY <1>1 DEF IInv, VarInv
<1>3. HeapInv'
  BY BoxesStay DEF IInv, HeapInv
<1>4. VarInv'
  BY <1>2 DEF IInv, VarInv
<1>5. Reachable' = Reachable
  BY <1>2 DEF Reachable, Elements
<1> QED
  BY <1>3, <1>4, <1>5 DEF StepOK, IInv, Lost

\* The box of the context.
LEMMA ContextBox ==
    ASSUME IInv, var["ctx"] # null
    PROVE  /\ var["ctx"] \in DOMAIN heap /\ var["ctx"][1] = "ctx"
           /\ heap[var["ctx"]] \in [kind : {"ctx"}, has : [rim : Taken, ocsp : Taken, rp : BOOLEAN]]
           /\ \A b \in [kind : {"ctx"}, has : [rim : Taken, ocsp : Taken, rp : BOOLEAN]] :
                 b \in Boxes("ctx")
<1>1. "ctx" \in Variables
  BY DEF Variables
<1>2. \A b : b \in Boxes("ctx") <=>
           b \in [kind : {"ctx"}, has : [rim : Taken, ocsp : Taken, rp : BOOLEAN]]
  BY DEF Boxes, Contents, Clients, Kind
<1> QED
  BY <1>1, <1>2, ElementsOfBoxes DEF IInv, VarInv

\* nvat_attestation_ctx_set_relying_party_policy.
LEMMA SetRelyingPartyPolicyOK ==
    ASSUME IInv, nvat_attestation_ctx_set_relying_party_policy PROVE StepOK
<1>1. CASE \E v \in {"ctx", "rp_policy"} : var[v] = null
  BY <1>1, ReturnsOK, Zenon DEF nvat_attestation_ctx_set_relying_party_policy, Checks
<1>2. CASE var["ctx"] # null /\ Sets("rp", TRUE)
  <2> DEFINE c == var["ctx"]
             B == [kind : {"ctx"}, has : [rim : Taken, ocsp : Taken, rp : BOOLEAN]]
  <2>1. c \in DOMAIN heap /\ c[1] = "ctx" /\ heap[c] \in B /\ \A b \in B : b \in Boxes("ctx")
    BY <1>2, ContextBox
  <2>2. heap' = [heap EXCEPT ![c].has["rp"] = TRUE]
    BY <1>2 DEF Sets
  <2>3. DOMAIN heap' = DOMAIN heap /\ \A a \in DOMAIN heap \ {c} : heap'[a] = heap[a]
    BY <2>1, <2>2
  <2>4. heap'[c] = [heap[c] EXCEPT !.has = [heap[c].has EXCEPT !["rp"] = TRUE]]
    BY <2>1, <2>2
  <2>5. heap'[c] \in B
    BY <2>1, <2>4, ZenonT(30)
  <2> QED
    BY <1>2, <2>1, <2>3, <2>5, UpdateOK, Zenon DEF Sets, IInv, HeapInv
<1> QED
  BY <1>1, <1>2, Zenon DEF nvat_attestation_ctx_set_relying_party_policy, Checks

\* nvat_attestation_ctx_set_service_key.
LEMMA SetServiceKeyOK == ASSUME IInv, nvat_attestation_ctx_set_service_key PROVE StepOK
<1>1. CASE \E v \in {"ctx"} : var[v] = null
  BY <1>1, ReturnsOK DEF nvat_attestation_ctx_set_service_key, Checks
<1>2. CASE var["ctx"] # null
  <2> DEFINE c == var["ctx"]
             B == [kind : {"ctx"}, has : [rim : Taken, ocsp : Taken, rp : BOOLEAN]]
  <2>1. c \in DOMAIN heap /\ c[1] = "ctx" /\ heap[c] \in B /\ \A b \in B : b \in Boxes("ctx")
    BY <1>2, ContextBox
  <2>2. heap' = [heap EXCEPT ![c].has.rim = "empty", ![c].has.ocsp = "empty"]
        /\ rc' = "OK" /\ UNCHANGED <<binding, var>>
    BY <1>2 DEF nvat_attestation_ctx_set_service_key, Checks
  <2>3. DOMAIN heap' = DOMAIN heap /\ \A a \in DOMAIN heap \ {c} : heap'[a] = heap[a]
    BY <2>1, <2>2
  <2>4. heap'[c] \in B
    BY <2>1, <2>2 DEF Taken, Conditions
  <2> QED
    BY <1>2, <2>1, <2>2, <2>3, <2>4, UpdateOK DEF IInv, HeapInv
<1> QED
  BY <1>1, <1>2

\* A context takes a client or a store out of its box.
LEMMA TakesOK ==
    ASSUME IInv, binding = "C", NEW field \in {"rim", "ocsp"}, NEW v \in Clients,
           Checks({"ctx", v}, Takes(field, v))
    PROVE  StepOK
<1>1. CASE \E w \in {"ctx", v} : var[w] = null
  BY <1>1, ReturnsOK DEF Checks
<1>2. CASE ~\E w \in {"ctx", v} : var[w] = null
  <2> DEFINE c == var["ctx"]
             d == var[v]
             B == [kind : {"ctx"}, has : [rim : Taken, ocsp : Taken, rp : BOOLEAN]]
             D == [kind : {Kind(v)}, has : Conditions]
  <2>1. c \in DOMAIN heap /\ c[1] = "ctx" /\ heap[c] \in B /\ \A b \in B : b \in Boxes("ctx")
    BY <1>2, ContextBox
  <2>2. v \in Variables /\ v # "ctx" /\ v # "evidence"
    BY DEF Clients, Variables
  <2>3. \A b : b \in Boxes(v) <=> b \in D
    BY SMTT(30) DEF Boxes, Contents, Shared
  <2>4. d \in DOMAIN heap /\ d[1] = v /\ heap[d] \in D
    BY <1>2, <2>2, <2>3, ElementsOfBoxes DEF IInv, VarInv
  <2>5. Taken = Conditions /\ "empty" \in Conditions
    BY DEF Taken, Conditions
  <2>6. Has(v) \in Conditions
    BY <2>4 DEF Has
  <2>7. heap' = [heap EXCEPT ![c].has[field] = Has(v), ![d].has = "empty"]
        /\ rc' = "OK" /\ UNCHANGED <<binding, var>>
    BY <1>2 DEF Checks, Takes
  <2>8. c # d
    BY <2>1, <2>2, <2>4
  <2>9. DOMAIN heap' = DOMAIN heap /\ \A a \in DOMAIN heap \ {c, d} : heap'[a] = heap[a]
    BY <2>1, <2>4, <2>7
  <2>10. heap'[c] = [heap[c] EXCEPT !.has = [heap[c].has EXCEPT ![field] = Has(v)]]
    BY <2>1, <2>4, <2>7, <2>8
  <2>11. heap'[d] = [heap[d] EXCEPT !.has = "empty"]
    BY <2>1, <2>4, <2>7, <2>8
  <2>12. heap'[c] \in B
    BY <2>1, <2>5, <2>6, <2>10
  <2>13. heap'[d] \in D
    BY <2>4, <2>5, <2>11
  <2> HIDE DEF c, d, B, D
  <2> QED
    BY <2>1, <2>2, <2>3, <2>4, <2>7, <2>9, <2>12, <2>13, UpdateOK DEF IInv, HeapInv
<1> QED
  BY <1>1, <1>2

\* A cache around a client or a store.
LEMMA CachedOK ==
    ASSUME IInv, NEW v \in Clients, NEW w \in Clients, var[v] # null,
           Creates(w, CacheAround(Has(v))) \/ CreatesFrom(w, CacheAround(Has(v)))
    PROVE  StepOK
<1>1. v \in Variables /\ w \in Variables \ {"evidence"}
  BY DEF Clients, Variables
<1>2. Has(v) \in Shared
  BY <1>1, HasOK DEF Contents
<1>3. CacheAround(Has(v)) \in Contents(w)
  BY <1>2 DEF Contents, CacheAround, Shared, Conditions
<1> QED
  BY <1>1, <1>3, CreatesOK, CreatesFromOK

\* A local verifier copies a store and a client that are not empty.
LEMMA LocalVerifierOK ==
    ASSUME IInv, NEW store \in Clients, NEW client \in Clients, local_verifier_create(store, client)
    PROVE  StepOK
<1>1. CASE \E v \in {store, client} : var[v] = null
  BY <1>1, ReturnsOK DEF local_verifier_create, Checks
<1>2. CASE Returns("BAD_ARGUMENT")
  BY <1>2, ReturnsOK
<1>3. CASE /\ var[store] # null /\ var[client] # null
           /\ "empty" \notin {Has(store), Has(client)}
           /\ CreatesFrom("verifier", local_verifier(store, client))
  <2>1. store \in Variables /\ client \in Variables /\ "verifier" \in Variables \ {"evidence"}
    BY DEF Clients, Variables
  <2>2. Has(store) \in Shared /\ Has(client) \in Shared
    BY <1>3, <2>1, HasOK DEF Contents
  <2>3. Has(store) \in Usable /\ Has(client) \in Usable
    BY <1>3, <2>2 DEF Shared, Usable, Conditions
  <2>4. local_verifier(store, client) \in [type : {"local"}, rim : Usable, ocsp : Usable]
    BY <2>3 DEF local_verifier
  <2>5. local_verifier(store, client) \in Contents("verifier")
    BY <2>4 DEF Contents, Clients
  <2> QED
    BY <1>3, <2>1, <2>5, CreatesFromOK
<1> QED
  BY <1>1, <1>2, <1>3 DEF local_verifier_create, Checks

-----------------------------------------------------------------------------
\* A box with a value of which nothing is kept.
LEMMA ValueOK ==
    ASSUME IInv, NEW v \in {"options", "nonce", "rp_policy", "source", "policy", "str"},
           Creates(v, "value") \/ CreatesFrom(v, "value")
    PROVE  StepOK
<1>1. v \in Variables \ {"evidence"} /\ "value" \in Contents(v)
  BY DEF Variables, Contents, Clients
<1> QED
  BY <1>1, CreatesOK, CreatesFromOK

\* A string is made from the handle of another variable.
LEMMA StringOK ==
    ASSUME IInv, NEW v, Checks({v}, Creates("str", "value")) \/ Checks({v}, CreatesFrom("str", "value"))
    PROVE  StepOK
BY ValueOK, ReturnsOK DEF Checks

\* Clients, stores, contexts and NRAS verifiers are made with what their boxes
\* may hold.
LEMMA NewBoxOK ==
    ASSUME IInv,
           \/ CreatesFrom("ocsp_client", "ready")
           \/ CreatesFrom("rim_store", "ready")
           \/ Creates("ctx", [rim |-> "empty", ocsp |-> "empty", rp |-> FALSE])
           \/ CreatesFrom("verifier", nras_verifier)
    PROVE  StepOK
<1>1. {"ocsp_client", "rim_store", "ctx", "verifier"} \subseteq Variables \ {"evidence"}
  BY DEF Variables
<1>2. "ready" \in Contents("ocsp_client") /\ "ready" \in Contents("rim_store")
  BY DEF Contents, Clients, Shared, Conditions
<1>3. [rim |-> "empty", ocsp |-> "empty", rp |-> FALSE] \in Contents("ctx")
  <2>1. [rim |-> "empty", ocsp |-> "empty", rp |-> FALSE] \in [rim : Taken, ocsp : Taken, rp : BOOLEAN]
    BY DEF Taken, Conditions
  <2> QED
    BY <2>1 DEF Contents, Clients
<1>4. nras_verifier \in Contents("verifier")
  BY DEF Contents, Clients
<1> QED
  BY <1>1, <1>2, <1>3, <1>4, CreatesOK, CreatesFromOK

\* What the Rust bindings offer.
LEMMA RustNextOK == ASSUME IInv, RustNext PROVE StepOK
<1>1. CASE RustSdkOptions \/ RustLogger \/ RustHttpOptions \/ RustEvidencePolicy
  BY <1>1, ValueOK DEF RustSdkOptions, RustLogger, RustHttpOptions, RustEvidencePolicy,
     nvat_sdk_opts_create, nvat_logger_create, nvat_http_options_create_default,
     nvat_evidence_policy_create_default
<1>2. CASE RustNonce
  BY <1>2, ValueOK, StringOK, ReturnsOK, Zenon DEF RustNonce, nvat_nonce_create, nvat_nonce_from,
     nvat_nonce_to_hex_string
<1>3. CASE RustGpuEvidenceSource \/ RustSwitchEvidenceSource
  BY <1>3, ValueOK, CollectOK DEF RustGpuEvidenceSource, RustSwitchEvidenceSource,
     nvat_gpu_evidence_source_create, nvat_switch_evidence_source_create,
     nvat_gpu_evidence_collect, nvat_switch_evidence_collect
<1>4. CASE RustGpuEvidenceCollection \/ RustSwitchEvidenceCollection \/ RustClaimsCollection
  BY <1>4, StringOK, Zenon DEF RustGpuEvidenceCollection, RustSwitchEvidenceCollection,
     RustClaimsCollection, nvat_gpu_evidence_serialize_json, nvat_switch_evidence_serialize_json,
     nvat_claims_collection_serialize_json
<1>5. CASE RustAttestationContext
  BY <1>5, NewBoxOK, AttestOK, SetServiceKeyOK, Zenon DEF RustAttestationContext, nvat_attestation_ctx_create
<1>6. CASE RustOcspClient \/ RustRimStore
  BY <1>6, NewBoxOK DEF RustOcspClient, RustRimStore, nvat_ocsp_client_create, nvat_rim_store_create
<1>7. CASE RustGpuLocalVerifier \/ RustSwitchLocalVerifier
  BY <1>7, LocalVerifierOK, VerifyOK, Zenon DEF RustGpuLocalVerifier, RustSwitchLocalVerifier,
     nvat_gpu_local_verifier_create, nvat_switch_local_verifier_create,
     nvat_verify_gpu_evidence, nvat_verify_switch_evidence, Clients
<1>8. CASE RustGpuNrasVerifier \/ RustSwitchNrasVerifier
  BY <1>8, NewBoxOK, VerifyOK, Zenon DEF RustGpuNrasVerifier, RustSwitchNrasVerifier,
     nvat_gpu_nras_verifier_create, nvat_switch_nras_verifier_create,
     nvat_verify_gpu_evidence, nvat_verify_switch_evidence
<1> QED
  BY <1>1, <1>2, <1>3, <1>4, <1>5, <1>6, <1>7, <1>8 DEF RustNext

\* What only a C program calls.
LEMMA COnlyOK == ASSUME IInv, binding = "C", COnly PROVE StepOK
<1>1. CASE nvat_relying_party_policy_create_rego_from_str \/ nvat_detached_eat_options_create
  BY <1>1, ValueOK DEF nvat_relying_party_policy_create_rego_from_str,
     nvat_detached_eat_options_create
<1>2. CASE nvat_apply_relying_party_policy
  BY <1>2, ReturnsOK DEF nvat_apply_relying_party_policy, Checks
<1>3. CASE nvat_get_detached_eat_es384
  BY <1>3, StringOK DEF nvat_get_detached_eat_es384
<1>4. CASE nvat_ocsp_client_create_cached \/ nvat_rim_store_create_cached
  BY <1>4, CachedOK, ReturnsOK DEF nvat_ocsp_client_create_cached, nvat_rim_store_create_cached,
     Checks, Clients
<1>5. CASE nvat_attestation_ctx_set_evidence_policy \/ nvat_attestation_ctx_set_relying_party_policy
  BY <1>5, SetEvidencePolicyOK, SetRelyingPartyPolicyOK
<1>6. ASSUME NEW v \in {"rim_store", "cached_store"}, nvat_attestation_ctx_set_default_rim_store(v)
      PROVE  StepOK
  BY <1>6, TakesOK DEF nvat_attestation_ctx_set_default_rim_store, Clients
<1>7. ASSUME NEW v \in {"ocsp_client", "cached_client"},
             nvat_attestation_ctx_set_default_ocsp_client(v)
      PROVE  StepOK
  BY <1>7, TakesOK DEF nvat_attestation_ctx_set_default_ocsp_client, Clients
<1>8. CASE nvat_attest_device(FALSE)
  BY <1>8, AttestOK, Zenon
<1>9. CASE nvat_verify_gpu_evidence(FALSE) \/ nvat_verify_switch_evidence(FALSE)
  BY <1>9, VerifyOK, Zenon DEF nvat_verify_gpu_evidence, nvat_verify_switch_evidence
<1>10. ASSUME NEW store \in {"rim_store", "cached_store"}, NEW c \in {"ocsp_client", "cached_client"},
              nvat_gpu_local_verifier_create(store, c) \/ nvat_switch_local_verifier_create(store, c)
       PROVE  StepOK
  BY <1>10, LocalVerifierOK DEF nvat_gpu_local_verifier_create, nvat_switch_local_verifier_create,
     Clients
<1> QED
  BY <1>1, <1>2, <1>3, <1>4, <1>5, <1>6, <1>7, <1>8, <1>9, <1>10, Zenon DEF COnly

\* Every step of either program keeps the invariant, and loses a box only in a
\* failure.
LEMMA NextOK == ASSUME IInv, Next PROVE StepOK
BY RustNextOK, COnlyOK, FreeOK DEF Next

\* IInv is inductive.
LEMMA IInvNext == IInv /\ [Next]_vars => IInv'
<1> SUFFICES ASSUME IInv, [Next]_vars PROVE IInv'
  OBVIOUS
<1>1. CASE Next
  BY <1>1, NextOK DEF StepOK
<1>2. CASE UNCHANGED vars
  <2>1. \A v : Boxes(v)' = Boxes(v)
    BY <1>2, BoxesStay DEF vars
  <2> QED
    BY <1>2, <2>1 DEF vars, IInv, HeapInv, VarInv
<1> QED
  BY <1>1, <1>2

\* IInv holds in every reachable state.
LEMMA IInvAlways == Spec => []IInv
BY IInvInit, IInvNext, PTL DEF Spec

\* Whatever a C or a Rust program calls, in whatever order: a handle variable
\* is NULL or the only one that refers to its box, and the box exists and has
\* the type of the variable, with the elements of an array.
THEOREM HandlesAreAlwaysSound == Spec => []HandlesAreSound
BY IInvAlways, IInvImplies, PTL

\* A local verifier always has a RIM store and an OCSP client, and a Rust
\* program never calls into one that has none.
THEOREM VerifiersAlwaysHaveClients == Spec => []VerifiersHaveClients
BY IInvAlways, IInvImplies, PTL

\* A step loses no box but by a failing call.
LEMMA LossStep == IInv /\ [Next]_vars => [\A a \in Lost' : a \notin Lost => LossIsFailure(a)]_vars
BY NextOK DEF StepOK

\* Memory is lost only in calls that report an error, and only the boxes that
\* LossIsFailure lists.
THEOREM LossesAreAlwaysFailures == Spec => LossesAreFailures
BY IInvAlways, LossStep, PTL DEF Spec, LossesAreFailures
=============================================================================
