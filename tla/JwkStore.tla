------------------------------ MODULE JwkStore ------------------------------
(***************************************************************************)
(* JwkStore (nv_jwt.cpp): the keys that NRAS signs its tokens with, cached *)
(* by a remote verifier.  A verifier is shared between threads; the mutex  *)
(* is held from the look at the cache to the answer, the HTTP request for  *)
(* a new key set included.                                                 *)
(*                                                                         *)
(* NRAS is external: it publishes a key identifier, and may withdraw it    *)
(* for good, at any time; a request gets the set of one moment.            *)
(***************************************************************************)
EXTENDS Integers

CONSTANTS
    Threads, Kids,
    CacheDuration,       \* m_cache_duration_ms
    MaxTime,             \* bound of the model on the clock
    NoThread, NoKid, Never

\* A real clock is far past m_cache_duration_ms.
Start == CacheDuration + 1

ASSUME JwkStoreConstants ==
    /\ CacheDuration \in Nat /\ MaxTime \in Nat /\ MaxTime >= Start
    /\ NoThread \notin Threads /\ Never \notin Nat

VARIABLES
    jwks, lastUpdate,    \* m_jwks, m_last_update_unix_ms
    lock,                \* holder of m_lock
    now, published, withdrawnAt,
    pc, kid, now_ms, result,
    known                \* what was published when the call began (history)

vars == <<jwks, lastUpdate, lock, now, published, withdrawnAt,
          pc, kid, now_ms, result, known>>
nras == <<published, withdrawnAt>>

\* "FetchError" stands for any error of refresh_jwks.
Errors == {"Ok", "CertNotFound", "FetchError"}

TypeOK ==
    /\ jwks \subseteq Kids /\ lastUpdate \in 0..MaxTime
    /\ lock \in Threads \cup {NoThread}
    /\ now \in Start..MaxTime
    /\ published \subseteq Kids /\ withdrawnAt \in [Kids -> (Start..MaxTime) \cup {Never}]
    /\ pc \in [Threads -> {"idle", "lock", "refresh", "look", "done"}]
    /\ kid \in [Threads -> Kids \cup {NoKid}]
    /\ now_ms \in [Threads -> 0..MaxTime]
    /\ result \in [Threads -> Errors]
    /\ known \in [Threads -> SUBSET Kids]

Init ==
    /\ jwks = {} /\ lastUpdate = 0 /\ lock = NoThread
    /\ now = Start /\ published = {} /\ withdrawnAt = [k \in Kids |-> Never]
    /\ pc = [t \in Threads |-> "idle"]
    /\ kid = [t \in Threads |-> NoKid]
    /\ now_ms = [t \in Threads |-> 0]
    /\ result = [t \in Threads |-> "Ok"]
    /\ known = [t \in Threads |-> {}]

Goto(t, label) == pc' = [pc EXCEPT ![t] = label]

\* get_jwk_by_kid returns, and the lock_guard releases the mutex.
Return(t, error) ==
    /\ Goto(t, "done") /\ lock' = NoThread
    /\ result' = [result EXCEPT ![t] = error]

-----------------------------------------------------------------------------
Call(t, k) ==
    /\ pc[t] = "idle"
    /\ Goto(t, "lock")
    /\ kid' = [kid EXCEPT ![t] = k]
    /\ known' = [known EXCEPT ![t] = published]
    /\ UNCHANGED <<jwks, lastUpdate, lock, now, nras, now_ms, result>>

\* Variation: twice the duration.
ExpiredLate == lastUpdate + 2 * CacheDuration < now

cache_expired == lastUpdate + CacheDuration < now
cache_miss(k) == k \notin jwks

\* Variation: a missing key waits for the set to expire.
OutdatedByAge(k) == cache_expired

\* Whether the cached set is not good enough for k.
Outdated(k) == cache_expired \/ cache_miss(k)

\* The mutex is taken, and the cache kept or cleared.
Lock(t) ==
    /\ pc[t] = "lock" /\ lock = NoThread
    /\ lock' = t
    /\ now_ms' = [now_ms EXCEPT ![t] = now]
    /\ IF Outdated(kid[t])
       THEN jwks' = {} /\ Goto(t, "refresh")
       ELSE Goto(t, "look") /\ UNCHANGED jwks
    /\ UNCHANGED <<lastUpdate, now, nras, kid, result, known>>

\* refresh_jwks succeeds; m_last_update_unix_ms is the time from before it.
Refresh(t) ==
    /\ pc[t] = "refresh"
    /\ jwks' = published
    /\ lastUpdate' = now_ms[t]
    /\ Goto(t, "look")
    /\ UNCHANGED <<lock, now, nras, kid, now_ms, result, known>>

\* ... or fails, which also counts as an update of the cleared cache.
RefreshFails(t) ==
    /\ pc[t] = "refresh"
    /\ lastUpdate' = now_ms[t]
    /\ Return(t, "FetchError")
    /\ UNCHANGED <<jwks, now, nras, kid, now_ms, known>>

Look(t) ==
    /\ pc[t] = "look"
    /\ Return(t, IF kid[t] \in jwks THEN "Ok" ELSE "CertNotFound")
    /\ UNCHANGED <<jwks, lastUpdate, now, nras, kid, now_ms, known>>

\* The caller takes the answer.
Leave(t) ==
    /\ pc[t] = "done"
    /\ Goto(t, "idle")
    /\ kid' = [kid EXCEPT ![t] = NoKid] /\ now_ms' = [now_ms EXCEPT ![t] = 0]
    /\ result' = [result EXCEPT ![t] = "Ok"] /\ known' = [known EXCEPT ![t] = {}]
    /\ UNCHANGED <<jwks, lastUpdate, lock, now, nras>>

-----------------------------------------------------------------------------
Publish(k) ==
    /\ k \notin published /\ withdrawnAt[k] = Never
    /\ published' = published \cup {k}
    /\ UNCHANGED <<jwks, lastUpdate, lock, now, withdrawnAt, pc, kid, now_ms, result, known>>

Withdraw(k) ==
    /\ k \in published
    /\ published' = published \ {k}
    /\ withdrawnAt' = [withdrawnAt EXCEPT ![k] = now]
    /\ UNCHANGED <<jwks, lastUpdate, lock, now, pc, kid, now_ms, result, known>>

Tick ==
    /\ now < MaxTime
    /\ now' = now + 1
    /\ UNCHANGED <<jwks, lastUpdate, lock, nras, pc, kid, now_ms, result, known>>

Locked(t) == Refresh(t) \/ RefreshFails(t) \/ Look(t)

Next ==
    \/ \E t \in Threads : Lock(t) \/ Locked(t) \/ Leave(t) \/ \E k \in Kids : Call(t, k)
    \/ \E k \in Kids : Publish(k) \/ Withdraw(k)
    \/ Tick

Spec == Init /\ [][Next]_vars

-----------------------------------------------------------------------------
\* A key is used for at most m_cache_duration_ms after it was withdrawn,
\* however long the refresh took and whoever did it.
WithdrawnKeysExpire ==
    \A t \in Threads :
        pc[t] = "done" /\ result[t] = "Ok" =>
            \/ withdrawnAt[kid[t]] = Never
            \/ now_ms[t] <= withdrawnAt[kid[t]] + CacheDuration

\* A key that was published before the call and still is, is not reported
\* missing: neither an older set in the cache nor a refresh that failed
\* hides it.
PublishedKeyIsFound ==
    \A t \in Threads :
        pc[t] = "done" /\ result[t] = "CertNotFound" /\ kid[t] \in known[t] =>
            withdrawnAt[kid[t]] # Never

=============================================================================
