---------------------------- MODULE CachingClients --------------------------
(***************************************************************************)
(* The two caching clients: NvHttpOcspCacheClient (nv_ocsp.cpp), an OCSP   *)
(* client, and InMemoryCachingRimStoreImpl (rim.cpp), a RIM store.  Each   *)
(* puts an NvCache, here the TtlMap it implements, in front of another     *)
(* client of its kind.  Both are refcounted and shared: several threads    *)
(* are inside a call at once, and nothing is locked between the cache      *)
(* lookup, the request to the inner client and the put.                    *)
(*                                                                         *)
(* They differ in what limits the age of a hit.  An OCSP response carries  *)
(* nextUpdate, which a hit is checked against; a RIM document carries      *)
(* nothing, so its age rests on the TTL alone.                             *)
(*                                                                         *)
(* The services are external.  A responder signs the status a certificate  *)
(* has at thisUpdate and names a nextUpdate (or none, and the client       *)
(* assumes DefaultValidity); it may send a response it signed earlier, but *)
(* not one past its own nextUpdate: neither client checks a fresh response *)
(* for that.  A RIM service, or directory, hands out its current document. *)
(***************************************************************************)
EXTENDS OcspValidity, FiniteSets

CONSTANTS
    Threads,
    Keys,               \* certificates, by serialised OCSP_CERTID, or RIM ids
    Oversize,           \* keys whose entry is larger than the whole cache
    TtlSeconds,         \* ttl_seconds of the cache
    LongestValidity,    \* no response is valid for longer
    MaxPutDelay,        \* longest time from a RIM store's answer to the put
    NoValue, Never,
    MaxTime             \* bound of the model on the clock

ASSUME CachingClientsConstants ==
    /\ Oversize \subseteq Keys
    /\ TtlSeconds \in Nat
    /\ MaxPutDelay \in Nat /\ MaxTime \in Nat
    /\ LongestValidity \in Nat /\ LongestValidity >= DefaultValidity
    /\ \A v \in Validities \ {NoNextUpdate} : LongestValidity >= v
    /\ TtlSeconds + MaxPutDelay > 0

\* An NvOcspResponse, or the raw data of a RimDocument, which has no times of
\* its own: asof is then only history.  "old" is what the service said before
\* what it says of the key changed: GOOD before a revocation, or a RIM that a
\* later publication replaced.
Documents == [key : Keys, content : {"old", "new"}, asof : 0..MaxTime,
              nextupd : 0..(2 * MaxTime + DefaultValidity) \cup {Never}]

VARIABLES
    kind,               \* which of the two clients this is: "ocsp" or "rim"
    store, reply, now,  \* the cache, see TtlMap
    pc,                 \* where each thread is in its call
    key,                \* its subject certificate or rim_id
    document,           \* the cached object, or the out parameter
    result,             \* the Error it returned last
    began,              \* when its call began (history)
    changedAt           \* when the service's content changed, or Never

Cache == INSTANCE TtlMap WITH Values <- Documents

vars == <<kind, store, reply, now, pc, key, document, result, began, changedAt>>
cacheVars == <<store, reply, now>>
callVars == <<pc, key, document, result, began>>

\* "InnerError" stands for whatever error the inner client returns.
Errors == {"Ok", "BadArgument", "InternalError", "InnerError"}

TypeOK ==
    /\ kind \in {"ocsp", "rim"}
    /\ Cache!MapTypeOK
    /\ pc \in [Threads -> {"idle", "lookup", "check", "fetch", "put", "done"}]
    /\ key \in [Threads -> Keys \cup {NoValue}]
    /\ document \in [Threads -> Documents \cup {NoValue}]
    /\ result \in [Threads -> Errors]
    /\ began \in [Threads -> 0..MaxTime]
    /\ changedAt \in [Keys -> (0..MaxTime) \cup {Never}]

Init ==
    /\ kind \in {"ocsp", "rim"}
    /\ Cache!MapInit
    /\ pc = [t \in Threads |-> "idle"]
    /\ key = [t \in Threads |-> NoValue]
    /\ document = [t \in Threads |-> NoValue]
    /\ result = [t \in Threads |-> "Ok"]
    /\ began = [t \in Threads |-> 0]
    /\ changedAt = [k \in Keys |-> Never]

Goto(t, label) == pc' = [pc EXCEPT ![t] = label]

Return(t, error) == Goto(t, "done") /\ result' = [result EXCEPT ![t] = error]

-----------------------------------------------------------------------------
\* A thread enters get_ocsp_response or get_rim.
Call(t, k) ==
    /\ pc[t] = "idle"
    /\ Goto(t, "lookup")
    /\ key' = [key EXCEPT ![t] = k]
    /\ began' = [began EXCEPT ![t] = now]
    /\ UNCHANGED <<kind, cacheVars, document, result, changedAt>>

\* get_cache_key fails; a RIM id is the key as it stands.
KeyFails(t) ==
    /\ pc[t] = "lookup" /\ kind = "ocsp"
    /\ Return(t, "InternalError")
    /\ UNCHANGED <<kind, cacheVars, key, document, began, changedAt>>

\* m_cache->get.
CacheGet(t) ==
    /\ pc[t] = "lookup"
    /\ Cache!Lookup(key[t])
    /\ document' = [document EXCEPT ![t] = reply'.value]
    /\ Goto(t, IF reply'.error = "Ok" THEN "check" ELSE "fetch")
    /\ UNCHANGED <<kind, key, result, began, changedAt>>

\* Variation: the TTL of the cache is trusted.
NextUpdateUnchecked(t) ==
    /\ pc[t] = "check"
    /\ Return(t, "Ok")
    /\ UNCHANGED <<kind, cacheVars, key, document, began, changedAt>>

\* What becomes of a hit.  A cached OCSP response is used until nextUpdate
\* has passed.  A RIM is parsed again, which succeeds, for only data that
\* parsed when it was fetched is ever put.
CheckHit(t) ==
    /\ pc[t] = "check"
    /\ IF kind = "ocsp" /\ document[t].nextupd < now
       THEN Goto(t, "fetch") /\ UNCHANGED result
       ELSE Return(t, "Ok")
    /\ UNCHANGED <<kind, cacheVars, key, document, began, changedAt>>

-----------------------------------------------------------------------------
\* What the service may send for k at this moment (external).  The clock and
\* nextUpdate are compared for hits only: get_ocsp_response returns and caches
\* a fresh response as it is.  That a fresh response is not past its own
\* nextUpdate is therefore assumed of the responder, here and nowhere else.
ContentAt(k, time) == IF changedAt[k] = Never \/ time < changedAt[k] THEN "old" ELSE "new"

OcspAnswers(k) ==
    {a \in {[key |-> k, content |-> ContentAt(k, u), asof |-> u, nextupd |-> NextUpdate(u, v)] :
              u \in 0..now, v \in Validities} : a.nextupd >= now}

RimAnswers(k) ==
    {[key |-> k, content |-> ContentAt(k, now), asof |-> now, nextupd |-> Never]}

\* The inner client succeeds.  The thread may be delayed before it puts the
\* answer.
Fetched(t) ==
    /\ pc[t] = "fetch"
    /\ \E a \in IF kind = "ocsp" THEN OcspAnswers(key[t]) ELSE RimAnswers(key[t]) :
          document' = [document EXCEPT ![t] = a]
    /\ Goto(t, "put")
    /\ UNCHANGED <<kind, cacheVars, key, result, began, changedAt>>

\* Variation: an expired object is better than none.
StaleOnError(t) ==
    /\ pc[t] = "fetch"
    /\ IF key[t] \in DOMAIN store
       THEN /\ document' = [document EXCEPT ![t] = store[key[t]].value]
            /\ Return(t, "Ok")
       ELSE Return(t, "InnerError") /\ UNCHANGED document
    /\ UNCHANGED <<kind, cacheVars, key, began, changedAt>>

\* ... or fails, and an expired object is not used either.
FetchFails(t) ==
    /\ pc[t] = "fetch"
    /\ Return(t, "InnerError")
    /\ document' = [document EXCEPT ![t] = NoValue]
    /\ UNCHANGED <<kind, cacheVars, key, began, changedAt>>

\* m_cache->put, whose error becomes the error of the call.
CachePut(t) ==
    /\ pc[t] = "put"
    /\ IF key[t] \in Oversize THEN Cache!Refuse(key[t])
                              ELSE Cache!Store(key[t], document[t])
    /\ Return(t, reply'.error)
    /\ UNCHANGED <<kind, key, document, began, changedAt>>

\* The caller takes the outcome; the thread may call again.
Leave(t) ==
    /\ pc[t] = "done"
    /\ Goto(t, "idle")
    /\ key' = [key EXCEPT ![t] = NoValue]
    /\ document' = [document EXCEPT ![t] = NoValue]
    /\ result' = [result EXCEPT ![t] = "Ok"]
    /\ began' = [began EXCEPT ![t] = 0]
    /\ UNCHANGED <<kind, cacheVars, changedAt>>

-----------------------------------------------------------------------------
\* A certificate is revoked, or a new version of a RIM published (external).
Change(k) ==
    /\ changedAt[k] = Never
    /\ changedAt' = [changedAt EXCEPT ![k] = now]
    /\ UNCHANGED <<kind, cacheVars, callVars>>

\* Eviction by puts of other clients of the same cache.
Evict == Cache!Lose /\ store' # store /\ UNCHANGED <<kind, callVars, changedAt>>

\* Time passes, and is never set back: ages and deadlines in the properties
\* are differences of time(nullptr), and mean nothing across a step back.
\* What the cache does then is in NvCache.  Between a RIM's arrival and its
\* put a thread only copies bytes: it is not held up there for more than
\* MaxPutDelay.  For OCSP no such limit is needed.
Tick ==
    /\ now < MaxTime
    /\ kind = "rim" =>
          \A t \in Threads : pc[t] = "put" => now < document[t].asof + MaxPutDelay
    /\ now' = now + 1
    /\ UNCHANGED <<kind, store, reply, callVars, changedAt>>

Step(t) ==
    \/ KeyFails(t) \/ CacheGet(t) \/ CheckHit(t)
    \/ Fetched(t) \/ FetchFails(t) \/ CachePut(t)

Next ==
    \/ \E t \in Threads : Step(t) \/ Leave(t) \/ \E k \in Keys : Call(t, k)
    \/ \E k \in Keys : Change(k)
    \/ Evict \/ Tick

Spec == Init /\ [][Next]_vars

-----------------------------------------------------------------------------
Answered(t) == pc[t] = "done" /\ result[t] = "Ok"

\* A caller never gets an OCSP response whose nextUpdate lay in the past when
\* the call began, in spite of TTLs that start at the put and not at
\* thisUpdate, as long as the responder sends none (OcspAnswers).
NeverPastNextUpdate ==
    \A t \in Threads :
        Answered(t) /\ kind = "ocsp" => document[t].nextupd >= began[t]

\* Once a certificate was revoked longer ago than responses stay valid, no
\* new call reports it good, whatever interleaving of slow fetches, late puts
\* and cache hits happened before.
RevocationTakesEffect ==
    \A t \in Threads :
        Answered(t) /\ kind = "ocsp" /\ document[t].content = "old" =>
            \/ changedAt[key[t]] = Never
            \/ began[t] <= changedAt[key[t]] + LongestValidity

\* The document a get_rim caller gets is the one it asked for, and one that a
\* later publication replaced is served only to calls that began less than
\* TTL plus put delay after it was replaced, although a slow thread may put an
\* old document over a newer one.
StalenessIsBounded ==
    \A t \in Threads :
        Answered(t) /\ kind = "rim" =>
            /\ document[t].key = key[t]
            /\ document[t].content = "old" /\ changedAt[key[t]] # Never =>
                  began[t] < changedAt[key[t]] + TtlSeconds + MaxPutDelay

=============================================================================
