------------------------ MODULE CachingClientsProofs ------------------------
(***************************************************************************)
(* What the caching clients promise for every set of threads and keys, and *)
(* every TTL, validity and put delay.                                      *)
(***************************************************************************)
EXTENDS CachingClients, TLAPS

\* A document for k that the service really had: not from the future, and not
\* older than a change it does not know of.
Sound(d, k) ==
    /\ d.key = k
    /\ d.asof \in Nat /\ d.asof <= now
    /\ d.content = "old" => changedAt[k] = Never \/ d.asof <= changedAt[k]
    /\ kind = "ocsp" => d.nextupd \in Nat /\ d.nextupd <= d.asof + LongestValidity

\* When the entry of a RIM that was put in time is gone.
Gone(d) == d.asof + TtlSeconds + MaxPutDelay

\* A document that a call which began at that time may return.
Recent(d, time) ==
    /\ kind = "ocsp" => d.nextupd >= time
    /\ kind = "rim" => time < Gone(d)

ProofTypeOK ==
    /\ kind \in {"ocsp", "rim"} /\ now \in Nat
    /\ pc \in [Threads -> {"idle", "lookup", "check", "fetch", "put", "done"}]
    /\ DOMAIN key = Threads /\ DOMAIN document = Threads
    /\ DOMAIN result = Threads /\ DOMAIN began = Threads
    /\ changedAt \in [Keys -> Nat \cup {Never}]

StoreInv ==
    \A k \in DOMAIN store :
        /\ k \in Keys /\ Sound(store[k].value, k)
        /\ store[k].expiry \in Nat
        /\ kind = "rim" => store[k].expiry <= Gone(store[k].value)

\* What is known of a call depends on how far it is.
CallInv(t) ==
    /\ pc[t] # "idle" => key[t] \in Keys /\ began[t] \in Nat /\ began[t] <= now
    /\ pc[t] \in {"check", "put"} \/ Answered(t) => Sound(document[t], key[t])
    /\ pc[t] = "check" /\ kind = "rim" => began[t] < Gone(document[t])
    /\ pc[t] = "put" => /\ Recent(document[t], began[t])
                        /\ kind = "rim" => now <= document[t].asof + MaxPutDelay
    /\ Answered(t) => Recent(document[t], began[t])

IInv == ProofTypeOK /\ StoreInv /\ \A t \in Threads : CallInv(t)

\* IInv holds when the client is created.
LEMMA IInvInit == Init => IInv
<1> SUFFICES ASSUME Init PROVE IInv
  OBVIOUS
<1>1. now = 0 /\ DOMAIN store = {}
  BY DEF Init, Cache!MapInit
<1>2. ProofTypeOK
  BY <1>1 DEF Init, ProofTypeOK
<1>3. StoreInv
  BY <1>1 DEF StoreInv
<1>4. \A t \in Threads : CallInv(t)
  BY DEF Init, CallInv, Answered
<1> QED
  BY <1>2, <1>3, <1>4 DEF IInv

\* A step of thread t leaves the calls of the others as they are.
LEMMA OthersKeep ==
    ASSUME IInv, NEW t \in Threads, UNCHANGED <<kind, now, changedAt>>,
           \A u \in Threads \ {t} :
              /\ pc'[u] = pc[u] /\ key'[u] = key[u] /\ document'[u] = document[u]
              /\ result'[u] = result[u] /\ began'[u] = began[u]
    PROVE  \A u \in Threads \ {t} : CallInv(u)'
<1> SUFFICES ASSUME NEW u \in Threads \ {t} PROVE CallInv(u)'
  OBVIOUS
<1>1. CallInv(u)
  BY DEF IInv
<1> QED
  BY <1>1 DEF CallInv, Answered, Sound, Recent, Gone

\* A step that leaves the cache alone, the clock and the service included.
LEMMA StoreKeeps ==
    ASSUME IInv, UNCHANGED <<kind, store, now, changedAt>>
    PROVE  StoreInv'
BY DEF IInv, StoreInv, Sound, Gone

\* A call begins.
LEMMA CallKeeps ==
    ASSUME IInv, NEW t \in Threads, NEW k \in Keys, Call(t, k)
    PROVE  IInv'
<1>1. ProofTypeOK'
  BY DEF IInv, ProofTypeOK, Call, Goto, cacheVars
<1>2. StoreInv'
  BY StoreKeeps DEF Call, cacheVars
<1>3. \A u \in Threads \ {t} : CallInv(u)'
  <2>1. \A u \in Threads \ {t} :
              /\ pc'[u] = pc[u] /\ key'[u] = key[u] /\ document'[u] = document[u]
              /\ result'[u] = result[u] /\ began'[u] = began[u]
    BY DEF IInv, ProofTypeOK, Call, Goto
  <2> QED
    BY <2>1, OthersKeep DEF Call, cacheVars
<1>4. CallInv(t)'
  <2>1. pc'[t] = "lookup" /\ key'[t] = k /\ began'[t] = now /\ now' = now /\ now \in Nat
    BY DEF IInv, ProofTypeOK, Call, Goto, cacheVars
  <2> QED
    BY <2>1 DEF CallInv, Answered
<1> QED
  BY <1>1, <1>2, <1>3, <1>4 DEF IInv

\* A call that fails answers nothing.
LEMMA KeyFailsKeeps ==
    ASSUME IInv, NEW t \in Threads, KeyFails(t)
    PROVE  IInv'
<1>1. ProofTypeOK'
  BY DEF IInv, ProofTypeOK, KeyFails, Goto, Return, cacheVars
<1>2. StoreInv'
  BY StoreKeeps DEF KeyFails, cacheVars
<1>3. \A u \in Threads \ {t} : CallInv(u)'
  <2>1. \A u \in Threads \ {t} :
              /\ pc'[u] = pc[u] /\ key'[u] = key[u] /\ document'[u] = document[u]
              /\ result'[u] = result[u] /\ began'[u] = began[u]
    BY DEF IInv, ProofTypeOK, KeyFails, Goto, Return
  <2> QED
    BY <2>1, OthersKeep DEF KeyFails, cacheVars
<1>4. CallInv(t)'
  <2>1. /\ pc'[t] = "done" /\ result'[t] = "InternalError" /\ key'[t] = key[t]
        /\ began'[t] = began[t] /\ now' = now /\ pc[t] = "lookup"
    BY DEF IInv, ProofTypeOK, KeyFails, Return, Goto, cacheVars
  <2>2. CallInv(t)
    BY DEF IInv
  <2> QED
    BY <2>1, <2>2 DEF CallInv, Answered
<1> QED
  BY <1>1, <1>2, <1>3, <1>4 DEF IInv

\* Nor does one whose inner client fails.
LEMMA FetchFailsKeeps ==
    ASSUME IInv, NEW t \in Threads, FetchFails(t)
    PROVE  IInv'
<1>1. ProofTypeOK'
  BY DEF IInv, ProofTypeOK, FetchFails, Goto, Return, cacheVars
<1>2. StoreInv'
  BY StoreKeeps DEF FetchFails, cacheVars
<1>3. \A u \in Threads \ {t} : CallInv(u)'
  <2>1. \A u \in Threads \ {t} :
              /\ pc'[u] = pc[u] /\ key'[u] = key[u] /\ document'[u] = document[u]
              /\ result'[u] = result[u] /\ began'[u] = began[u]
    BY DEF IInv, ProofTypeOK, FetchFails, Goto, Return
  <2> QED
    BY <2>1, OthersKeep DEF FetchFails, cacheVars
<1>4. CallInv(t)'
  <2>1. /\ pc'[t] = "done" /\ result'[t] = "InnerError" /\ key'[t] = key[t]
        /\ began'[t] = began[t] /\ now' = now /\ pc[t] = "fetch"
    BY DEF IInv, ProofTypeOK, FetchFails, Return, Goto, cacheVars
  <2>2. CallInv(t)
    BY DEF IInv
  <2> QED
    BY <2>1, <2>2 DEF CallInv, Answered
<1> QED
  BY <1>1, <1>2, <1>3, <1>4 DEF IInv

\* A thread that left its call owes nothing.
LEMMA LeaveKeeps ==
    ASSUME IInv, NEW t \in Threads, Leave(t)
    PROVE  IInv'
<1>1. ProofTypeOK'
  BY DEF IInv, ProofTypeOK, Leave, Goto, Return, cacheVars
<1>2. StoreInv'
  BY StoreKeeps DEF Leave, cacheVars
<1>3. \A u \in Threads \ {t} : CallInv(u)'
  <2>1. \A u \in Threads \ {t} :
              /\ pc'[u] = pc[u] /\ key'[u] = key[u] /\ document'[u] = document[u]
              /\ result'[u] = result[u] /\ began'[u] = began[u]
    BY DEF IInv, ProofTypeOK, Leave, Goto, Return
  <2> QED
    BY <2>1, OthersKeep DEF Leave, cacheVars
<1>4. CallInv(t)'
  <2>1. pc'[t] = "idle"
    BY DEF IInv, ProofTypeOK, Leave, Goto
  <2> QED
    BY <2>1 DEF CallInv, Answered
<1> QED
  BY <1>1, <1>2, <1>3, <1>4 DEF IInv

\* A hit is a live entry, so it expires after the call began.
LEMMA CacheGetKeeps ==
    ASSUME IInv, NEW t \in Threads, CacheGet(t)
    PROVE  IInv'
<1>1. ProofTypeOK'
  BY DEF IInv, ProofTypeOK, CacheGet, Goto, Return, cacheVars, Cache!Lookup
<1>2. StoreInv'
  BY StoreKeeps DEF CacheGet, cacheVars, Cache!Lookup
<1>3. \A u \in Threads \ {t} : CallInv(u)'
  <2>1. \A u \in Threads \ {t} :
              /\ pc'[u] = pc[u] /\ key'[u] = key[u] /\ document'[u] = document[u]
              /\ result'[u] = result[u] /\ began'[u] = began[u]
    BY DEF IInv, ProofTypeOK, CacheGet, Goto, Return
  <2> QED
    BY <2>1, OthersKeep DEF CacheGet, cacheVars, Cache!Lookup
<1>4. CallInv(t)'
  <2>1. /\ key'[t] = key[t] /\ began'[t] = began[t] /\ now' = now /\ pc[t] = "lookup"
        /\ pc'[t] \in {"check", "fetch"} /\ UNCHANGED <<kind, changedAt>>
        /\ document'[t] = reply'.value
        /\ pc'[t] = "check" => reply'.error = "Ok"
    BY DEF IInv, ProofTypeOK, CacheGet, Goto, Cache!Lookup
  <2>2. CallInv(t) /\ StoreInv /\ now \in Nat
    BY DEF IInv, ProofTypeOK
  <2>3. key[t] \in Keys /\ began[t] \in Nat /\ began[t] <= now
    BY <2>1, <2>2 DEF CallInv
  <2>4. ASSUME pc'[t] = "check"
        PROVE  /\ key[t] \in DOMAIN store /\ store[key[t]].expiry > now
               /\ document'[t] = store[key[t]].value
    BY <2>1, <2>4 DEF CacheGet, Cache!Lookup, Cache!Live, Cache!GetHit, Cache!GetMiss
  <2>5. ASSUME pc'[t] = "check"
        PROVE  /\ Sound(document[t], key[t])'
               /\ kind = "rim" => began[t] < Gone(document'[t])
    <3>1. /\ Sound(store[key[t]].value, key[t]) /\ store[key[t]].expiry \in Nat
          /\ kind = "rim" => store[key[t]].expiry <= Gone(store[key[t]].value)
      BY <2>2, <2>4, <2>5 DEF StoreInv
    <3>2. Sound(document[t], key[t])'
      BY <2>1, <2>4, <2>5, <3>1 DEF Sound
    <3>3. Gone(document'[t]) \in Nat
      BY <2>4, <2>5, <3>1, CachingClientsConstants, OcspValidityConstants DEF Gone, Sound
    <3> QED
      BY <2>2, <2>3, <2>4, <2>5, <3>1, <3>2, <3>3
  <2> QED
    BY <2>1, <2>3, <2>5 DEF CallInv, Answered, Gone
<1> QED
  BY <1>1, <1>2, <1>3, <1>4 DEF IInv

\* A hit that is returned is recent enough.
LEMMA CheckHitKeeps ==
    ASSUME IInv, NEW t \in Threads, CheckHit(t)
    PROVE  IInv'
<1>1. ProofTypeOK'
  BY DEF IInv, ProofTypeOK, CheckHit, Goto, Return, cacheVars
<1>2. StoreInv'
  BY StoreKeeps DEF CheckHit, cacheVars
<1>3. \A u \in Threads \ {t} : CallInv(u)'
  <2>1. \A u \in Threads \ {t} :
              /\ pc'[u] = pc[u] /\ key'[u] = key[u] /\ document'[u] = document[u]
              /\ result'[u] = result[u] /\ began'[u] = began[u]
    BY DEF IInv, ProofTypeOK, CheckHit, Goto, Return
  <2> QED
    BY <2>1, OthersKeep DEF CheckHit, cacheVars
<1>4. CallInv(t)'
  <2>1. /\ key'[t] = key[t] /\ began'[t] = began[t] /\ now' = now /\ pc[t] = "check"
        /\ document'[t] = document[t] /\ UNCHANGED <<kind, changedAt>>
        /\ pc'[t] \in {"fetch", "done"}
        /\ pc'[t] = "done" => ~ (kind = "ocsp" /\ document[t].nextupd < now)
    BY DEF IInv, ProofTypeOK, CheckHit, Goto, Return, cacheVars
  <2>2. CallInv(t) /\ now \in Nat
    BY DEF IInv, ProofTypeOK
  <2>3. key[t] \in Keys /\ began[t] \in Nat /\ began[t] <= now /\ Sound(document[t], key[t])
    BY <2>1, <2>2 DEF CallInv
  <2>4. Sound(document[t], key[t])'
    BY <2>1, <2>3 DEF Sound
  <2>5. pc'[t] = "done" => Recent(document[t], began[t])'
    BY <2>1, <2>2, <2>3 DEF CallInv, Recent, Sound, Gone
  <2> QED
    BY <2>1, <2>3, <2>4, <2>5 DEF CallInv, Answered
<1> QED
  BY <1>1, <1>2, <1>3, <1>4 DEF IInv

\* What a service sends is sound, and recent enough for any call in progress.
LEMMA AnswersAreSound ==
    ASSUME ProofTypeOK, NEW k \in Keys,
           NEW a \in IF kind = "ocsp" THEN OcspAnswers(k) ELSE RimAnswers(k)
    PROVE  /\ Sound(a, k)
           /\ kind = "ocsp" => a.nextupd >= now
           /\ kind = "rim" => a.asof = now
<1>1. now \in Nat /\ kind \in {"ocsp", "rim"}
  BY DEF ProofTypeOK
<1>2. CASE kind = "ocsp"
  <2>1. PICK u \in 0..now, v \in Validities :
            a = [key |-> k, content |-> ContentAt(k, u), asof |-> u, nextupd |-> NextUpdate(u, v)]
    BY <1>2 DEF OcspAnswers
  <2>2. a.nextupd >= now
    BY <1>2 DEF OcspAnswers
  <2>3. a.key = k /\ a.content = ContentAt(k, u) /\ a.asof = u /\ a.nextupd = NextUpdate(u, v)
    BY <2>1
  <2>4. NextUpdate(u, v) \in Nat /\ NextUpdate(u, v) <= u + LongestValidity
    BY <1>1, CachingClientsConstants, OcspValidityConstants DEF NextUpdate
  <2>5. u \in Nat /\ u <= now
    BY <1>1
  <2>6. ContentAt(k, u) = "old" => changedAt[k] = Never \/ u <= changedAt[k]
    BY <2>5 DEF ContentAt, ProofTypeOK
  <2> QED
    BY <1>2, <2>2, <2>3, <2>4, <2>5, <2>6 DEF Sound
<1>3. CASE kind = "rim"
  <2>1. a.key = k /\ a.content = ContentAt(k, now) /\ a.asof = now
    BY <1>3 DEF RimAnswers
  <2>2. ContentAt(k, now) = "old" => changedAt[k] = Never \/ now <= changedAt[k]
    BY <1>1 DEF ContentAt, ProofTypeOK
  <2> QED
    BY <1>1, <1>3, <2>1, <2>2 DEF Sound
<1> QED
  BY <1>1, <1>2, <1>3

\* A fetched answer is sound and recent.
LEMMA FetchedKeeps ==
    ASSUME IInv, NEW t \in Threads, Fetched(t)
    PROVE  IInv'
<1>1. ProofTypeOK'
  BY DEF IInv, ProofTypeOK, Fetched, Goto, cacheVars
<1>2. StoreInv'
  BY StoreKeeps DEF Fetched, cacheVars
<1>3. \A u \in Threads \ {t} : CallInv(u)'
  <2>1. \A u \in Threads \ {t} :
              /\ pc'[u] = pc[u] /\ key'[u] = key[u] /\ document'[u] = document[u]
              /\ result'[u] = result[u] /\ began'[u] = began[u]
    BY DEF IInv, ProofTypeOK, Fetched, Goto
  <2> QED
    BY <2>1, OthersKeep DEF Fetched, cacheVars
<1>4. CallInv(t)'
  <2>1. PICK a \in IF kind = "ocsp" THEN OcspAnswers(key[t]) ELSE RimAnswers(key[t]) :
            document' = [document EXCEPT ![t] = a]
    BY Zenon DEF Fetched
  <2>2. /\ key'[t] = key[t] /\ began'[t] = began[t] /\ now' = now /\ pc[t] = "fetch"
        /\ document'[t] = a /\ UNCHANGED <<kind, changedAt>> /\ pc'[t] = "put"
    BY <2>1 DEF IInv, ProofTypeOK, Fetched, Goto, cacheVars
  <2>3. CallInv(t) /\ now \in Nat /\ ProofTypeOK
    BY DEF IInv, ProofTypeOK
  <2>4. key[t] \in Keys /\ began[t] \in Nat /\ began[t] <= now
    BY <2>2, <2>3 DEF CallInv
  <2>5. /\ Sound(a, key[t])
        /\ kind = "ocsp" => a.nextupd >= now
        /\ kind = "rim" => a.asof = now
    BY <2>3, <2>4, AnswersAreSound
  <2>6. Sound(document[t], key[t])'
    BY <2>2, <2>5 DEF Sound
  <2>7. Recent(a, began[t])
    BY <2>3, <2>4, <2>5, CachingClientsConstants, OcspValidityConstants DEF Recent, Gone, Sound
  <2>8. kind = "rim" => now <= a.asof + MaxPutDelay
    BY <2>3, <2>5, CachingClientsConstants, OcspValidityConstants
  <2> QED
    BY <2>2, <2>4, <2>6, <2>7, <2>8 DEF CallInv, Answered, Recent, Gone
<1> QED
  BY <1>1, <1>2, <1>3, <1>4 DEF IInv

\* A put stores a sound document, early enough; whether it is accepted decides
\* whether the call is answered.
LEMMA CachePutKeeps ==
    ASSUME IInv, NEW t \in Threads, CachePut(t)
    PROVE  IInv'
<1>0. /\ UNCHANGED <<kind, now, changedAt, key, document, began>> /\ now \in Nat
      /\ pc[t] = "put" /\ pc'[t] = "done" /\ CallInv(t) /\ StoreInv
  BY DEF IInv, ProofTypeOK, CachePut, Return, Goto, Cache!Refuse, Cache!Store
<1>1. ProofTypeOK'
  BY <1>0 DEF IInv, ProofTypeOK, CachePut, Goto, Return
<1>2. StoreInv'
  <2>1. CASE key[t] \in Oversize
    BY <1>0, <2>1, StoreKeeps DEF CachePut, Cache!Refuse
  <2>2. CASE key[t] \notin Oversize
    <3>1. PICK S \in SUBSET (DOMAIN store \ {key[t]}) :
              store' = [x \in S \cup {key[t]} |->
                          IF x = key[t] THEN [value |-> document[t], expiry |-> now + TtlSeconds]
                                        ELSE store[x]]
      BY <2>2, Zenon DEF CachePut, Cache!Store
    <3>2. /\ key[t] \in Keys /\ Sound(document[t], key[t])
          /\ kind = "rim" => now <= document[t].asof + MaxPutDelay
      BY <1>0 DEF CallInv
    <3> SUFFICES ASSUME NEW k \in DOMAIN store'
                 PROVE  /\ k \in Keys /\ Sound(store[k].value, k)'
                        /\ store'[k].expiry \in Nat
                        /\ kind' = "rim" => store'[k].expiry <= Gone(store'[k].value)
      BY DEF StoreInv, Gone
    <3>3. CASE k = key[t]
      <4>1. store'[k].value = document[t] /\ store'[k].expiry = now + TtlSeconds
        BY <3>1, <3>3
      <4>2. Sound(store[k].value, k)'
        BY <1>0, <3>2, <3>3, <4>1 DEF Sound
      <4>3. kind = "rim" => now + TtlSeconds <= Gone(document[t])
        BY <1>0, <3>2, CachingClientsConstants, OcspValidityConstants DEF Gone, Sound
      <4> QED
        BY <1>0, <3>2, <3>3, <4>1, <4>2, <4>3, CachingClientsConstants, OcspValidityConstants
    <3>4. CASE k # key[t]
      <4>1. k \in DOMAIN store /\ store'[k] = store[k]
        BY <3>1, <3>4
      <4> QED
        BY <1>0, <4>1 DEF StoreInv, Sound
    <3> QED
      BY <3>3, <3>4
  <2> QED
    BY <2>1, <2>2
<1>3. \A u \in Threads \ {t} : CallInv(u)'
  <2>1. \A u \in Threads \ {t} :
              /\ pc'[u] = pc[u] /\ key'[u] = key[u] /\ document'[u] = document[u]
              /\ result'[u] = result[u] /\ began'[u] = began[u]
    BY DEF IInv, ProofTypeOK, CachePut, Goto, Return
  <2> QED
    BY <1>0, <2>1, OthersKeep
<1>4. CallInv(t)'
  BY <1>0 DEF CallInv, Answered, Sound, Recent, Gone
<1> QED
  BY <1>1, <1>2, <1>3, <1>4 DEF IInv

\* A change at the service comes after everything it sent before.
LEMMA ChangeKeeps ==
    ASSUME IInv, NEW k \in Keys, Change(k)
    PROVE  IInv'
<1>1. UNCHANGED <<kind, now, store, callVars>> /\ changedAt' = [changedAt EXCEPT ![k] = now]
  BY DEF Change, cacheVars
<1>2. ProofTypeOK'
  BY <1>1 DEF IInv, ProofTypeOK, callVars
<1>4. StoreInv'
  <2>1. \A x \in DOMAIN store : x \in Keys /\ Sound(store[x].value, x)
    BY DEF IInv, StoreInv
  <2>2. \A x \in DOMAIN store : Sound(store[x].value, x)'
    <3> SUFFICES ASSUME NEW x \in DOMAIN store PROVE Sound(store[x].value, x)'
      OBVIOUS
    <3> DEFINE d == store[x].value
    <3>1. Sound(d, x) /\ x \in Keys
      BY <2>1
    <3> QED
      BY <1>1, <3>1 DEF IInv, ProofTypeOK, Sound
  <2> QED
    BY <1>1, <2>2 DEF IInv, StoreInv, Gone
<1>5. \A t \in Threads : CallInv(t)'
  <2> SUFFICES ASSUME NEW t \in Threads PROVE CallInv(t)'
    OBVIOUS
  <2>1. CallInv(t)
    BY DEF IInv
  <2>2. key[t] \in Keys /\ Sound(document[t], key[t]) => Sound(document[t], key[t])'
    BY <1>1 DEF IInv, ProofTypeOK, Sound, callVars
  <2> QED
    BY <1>1, <2>1, <2>2 DEF CallInv, Answered, Recent, Gone, callVars
<1> QED
  BY <1>2, <1>4, <1>5 DEF IInv

\* Eviction only takes entries away.
LEMMA EvictKeeps ==
    ASSUME IInv, Evict
    PROVE  IInv'
<1>1. UNCHANGED <<kind, now, changedAt, callVars>>
  BY DEF Evict, Cache!Lose
<1>2. PICK S \in SUBSET DOMAIN store : store' = [x \in S |-> store[x]]
  BY DEF Evict, Cache!Lose, Cache!Restrict
<1>3. ProofTypeOK'
  BY <1>1 DEF IInv, ProofTypeOK, callVars
<1>4. StoreInv'
  BY <1>1, <1>2 DEF IInv, StoreInv, Sound, Gone
<1>5. \A t \in Threads : CallInv(t)'
  BY <1>1 DEF IInv, CallInv, Answered, Sound, Recent, Gone, callVars
<1> QED
  BY <1>3, <1>4, <1>5 DEF IInv

\* The clock waits for a RIM on its way into the cache; nothing else of the
\* invariant minds its progress.
LEMMA TickKeeps ==
    ASSUME IInv, Tick
    PROVE  IInv'
<1>1. /\ UNCHANGED <<kind, store, changedAt, callVars>> /\ now' = now + 1
      /\ now \in Nat /\ now' \in Nat
  BY DEF Tick, IInv, ProofTypeOK
<1>2. ProofTypeOK'
  BY <1>1 DEF IInv, ProofTypeOK, callVars
<1>3. StoreInv'
  BY <1>1 DEF IInv, StoreInv, Sound, Gone
<1>4. \A t \in Threads : CallInv(t)'
  <2> SUFFICES ASSUME NEW t \in Threads PROVE CallInv(t)'
    OBVIOUS
  <2>1. CallInv(t)
    BY DEF IInv
  <2>2. Sound(document[t], key[t]) => Sound(document[t], key[t])'
    BY <1>1 DEF Sound, callVars
  <2>3. pc[t] # "idle" => began[t] <= now'
    BY <1>1, <2>1 DEF CallInv
  <2>4. pc[t] = "put" /\ kind = "rim" => now' <= document[t].asof + MaxPutDelay
    <3>1. pc[t] = "put" => document[t].asof \in Nat
      BY <2>1 DEF CallInv, Sound
    <3> QED
      BY <1>1, <3>1, CachingClientsConstants, OcspValidityConstants DEF Tick
  <2> QED
    BY <1>1, <2>1, <2>2, <2>3, <2>4 DEF CallInv, Answered, Recent, Gone, callVars
<1> QED
  BY <1>2, <1>3, <1>4 DEF IInv

\* IInv is inductive.
LEMMA IInvNext == IInv /\ [Next]_vars => IInv'
<1> SUFFICES ASSUME IInv, [Next]_vars PROVE IInv'
  OBVIOUS
<1>1. ASSUME NEW t \in Threads, Step(t) PROVE IInv'
  BY <1>1, KeyFailsKeeps, CacheGetKeeps, CheckHitKeeps, FetchedKeeps, FetchFailsKeeps,
     CachePutKeeps DEF Step
<1>2. ASSUME NEW t \in Threads, Leave(t) PROVE IInv'
  BY <1>2, LeaveKeeps
<1>3. ASSUME NEW t \in Threads, NEW k \in Keys, Call(t, k) PROVE IInv'
  BY <1>3, CallKeeps
<1>4. ASSUME NEW k \in Keys, Change(k) PROVE IInv'
  BY <1>4, ChangeKeeps
<1>5. CASE Evict
  BY <1>5, EvictKeeps
<1>6. CASE Tick
  BY <1>6, TickKeeps
<1>7. CASE UNCHANGED vars
  <2>1. ProofTypeOK'
    BY <1>7 DEF IInv, ProofTypeOK, vars
  <2>2. StoreInv'
    BY <1>7, StoreKeeps DEF vars
  <2>3. \A t \in Threads : CallInv(t)'
    BY <1>7 DEF IInv, CallInv, Answered, Sound, Recent, Gone, vars
  <2> QED
    BY <2>1, <2>2, <2>3 DEF IInv
<1> QED
  BY <1>1, <1>2, <1>3, <1>4, <1>5, <1>6, <1>7 DEF Next

\* IInv holds in every reachable state.
LEMMA IInvAlways == Spec => []IInv
BY IInvInit, IInvNext, PTL DEF Spec

\* However threads, puts, evictions and the clock interleave, a caller of
\* get_ocsp_response never gets a response that was past its nextUpdate when
\* the call began.
THEOREM NeverAnsweredPastNextUpdate == Spec => []NeverPastNextUpdate
<1>1. IInv => NeverPastNextUpdate
  BY DEF IInv, CallInv, Recent, NeverPastNextUpdate
<1> QED
  BY <1>1, IInvAlways, PTL

\* A revoked certificate is not reported good to a call that begins more than
\* the longest validity of a response after the revocation, whatever the TTL
\* of the cache.
THEOREM RevocationAlwaysTakesEffect == Spec => []RevocationTakesEffect
<1>1. IInv => RevocationTakesEffect
  <2> SUFFICES ASSUME IInv, NEW t \in Threads, Answered(t), kind = "ocsp",
                      document[t].content = "old", changedAt[key[t]] # Never
               PROVE  began[t] <= changedAt[key[t]] + LongestValidity
    BY DEF RevocationTakesEffect
  <2>1. CallInv(t) /\ pc[t] # "idle"
    BY DEF IInv, Answered
  <2>2. /\ key[t] \in Keys /\ began[t] \in Nat
        /\ Sound(document[t], key[t]) /\ Recent(document[t], began[t])
    BY <2>1 DEF CallInv
  <2>3. changedAt[key[t]] \in Nat
    BY <2>2 DEF IInv, ProofTypeOK
  <2> QED
    BY <2>2, <2>3, CachingClientsConstants, OcspValidityConstants DEF Sound, Recent
<1> QED
  BY <1>1, IInvAlways, PTL

\* A caller of get_rim gets the document it asked for, and one that was
\* replaced only if the call began less than the TTL plus the put delay after
\* that.
THEOREM StalenessAlwaysBounded == Spec => []StalenessIsBounded
<1>1. IInv => StalenessIsBounded
  <2> SUFFICES ASSUME IInv, NEW t \in Threads, Answered(t), kind = "rim"
               PROVE  /\ document[t].key = key[t]
                      /\ document[t].content = "old" /\ changedAt[key[t]] # Never =>
                            began[t] < changedAt[key[t]] + TtlSeconds + MaxPutDelay
    BY DEF StalenessIsBounded
  <2>1. CallInv(t) /\ pc[t] # "idle"
    BY DEF IInv, Answered
  <2>2. /\ key[t] \in Keys /\ began[t] \in Nat
        /\ Sound(document[t], key[t]) /\ Recent(document[t], began[t])
    BY <2>1 DEF CallInv
  <2>3. changedAt[key[t]] \in Nat \cup {Never}
    BY <2>2 DEF IInv, ProofTypeOK
  <2> QED
    BY <2>2, <2>3, CachingClientsConstants, OcspValidityConstants DEF Sound, Recent, Gone
<1> QED
  BY <1>1, IInvAlways, PTL

=============================================================================
