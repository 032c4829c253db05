----------------------------- MODULE HttpProofs -----------------------------
(***************************************************************************)
(* What a caller of do_request_as_string may rely on, for every number of  *)
(* retries, every backoff and any CA bundle files; and what holds of the   *)
(* key store, which fetches its keys with such a request, for every set of *)
(* threads and keys and every cache duration.                              *)
(***************************************************************************)
EXTENDS HttpClient, JwkStore, TLAPS

(* The HTTP client.                                                        *)

\* The bundle was resolved under the rules of resolve_ca_bundle_path.
Configured ==
    /\ explicit # NoPath => m_options.ca_bundle_path = explicit
    /\ explicit = NoPath =>
          \A i \in 1..3 :
              environment[i] # NoPath /\ (\A j \in 1..(i - 1) : environment[j] = NoPath) =>
                  m_options.ca_bundle_path = environment[i]

OptionsInv ==
    /\ environment \in [1..3 -> Paths \cup {NoPath}]
    /\ explicit \in Paths \cup {NoPath}
    /\ DOMAIN m_options = {"max_retry_count", "base_backoff_ms", "max_backoff_ms",
                           "ca_bundle_path", "ca_bundle_path_error"}
    /\ m_options.max_retry_count \in Nat
    /\ Configured

\* How far the call is: in the loop there is an attempt left, a usable bundle,
\* and the status an earlier attempt may have left is one that is retried;
\* without an attempt there is no status, and the body is empty.
LoopInv ==
    /\ phase \in {"configure", "start", "attempt", "done"}
    /\ cur_try \in Nat
    /\ phase \in {"configure", "start"} => cur_try = 0 /\ out_status = "0" /\ last_error = "InternalError" /\ curl_code = "none"
    /\ phase = "attempt" =>
          /\ cur_try <= m_options.max_retry_count
          /\ m_options.ca_bundle_path # NoPath
          /\ cur_try = 0 => out_response = <<>>
          /\ last_error = "Ok" => out_status = "retryable"

HttpInv == OptionsInv /\ LoopInv /\ RetriesAreUsedUp /\ BodyBelongsToStatus /\ ConfiguredBundleOnly

\* What resolve_ca_bundle_path returns obeys the order explicit path,
\* environment, defaults.
LEMMA ResolveProperty ==
    ASSUME environment \in [1..3 -> Paths \cup {NoPath}], NEW path \in Paths \cup {NoPath}
    PROVE  /\ path # NoPath => Resolve(path).path = path
           /\ path = NoPath =>
                \A i \in 1..3 :
                  environment[i] # NoPath /\ (\A j \in 1..(i - 1) : environment[j] = NoPath) =>
                      Resolve(path).path = environment[i]
<1>1. path # NoPath => Resolve(path).path = path
  BY DEF Resolve, Authoritative
<1>2. ASSUME path = NoPath, NEW i \in 1..3, environment[i] # NoPath,
             \A j \in 1..(i - 1) : environment[j] = NoPath
      PROVE  Resolve(path).path = environment[i]
  <2> DEFINE P(k) == environment[k] \in Paths /\ \A j \in 1..(k - 1) : environment[j] \notin Paths
             k0 == CHOOSE k \in DOMAIN environment : P(k)
  <2>1. DOMAIN environment = 1..3
    OBVIOUS
  <2>2. \A j \in 1..3 : environment[j] \in Paths <=> environment[j] # NoPath
    BY HttpClientConstants
  <2>3. P(i)
    BY <1>2, <2>2
  <2>4. k0 \in 1..3 /\ P(k0)
    BY <2>1, <2>3
  <2>5. k0 = i
    BY <2>2, <2>3, <2>4
  <2>6. First(environment, Paths) = environment[i]
    BY <2>5, Zenon DEF First
  <2>7. Some(environment, Paths)
    BY <2>1, <2>3 DEF Some
  <2> QED
    BY <1>2, <2>6, <2>7 DEF Resolve, Authoritative
<1> QED
  BY <1>1, <1>2

\* The invariant holds of new options and before the call.
LEMMA HttpInvInit == HttpInit => HttpInv
<1> SUFFICES ASSUME HttpInit PROVE HttpInv
  OBVIOUS
<1>1. PICK retries \in Retries, base \in Backoffs, max \in Backoffs :
          m_options = [max_retry_count |-> Clamp(retries), base_backoff_ms |-> Clamp(base),
                       max_backoff_ms |-> Clamp(max),
                       ca_bundle_path |-> Resolve(NoPath).path,
                       ca_bundle_path_error |-> Resolve(NoPath).error]
  BY DEF HttpInit
<1>2. environment \in [1..3 -> Paths \cup {NoPath}] /\ explicit = NoPath
  BY DEF HttpInit
<1>3. Clamp(retries) \in Nat
  BY HttpClientConstants DEF Clamp
<1>4. Configured
  BY <1>1, <1>2, ResolveProperty DEF Configured
<1>5. OptionsInv
  BY <1>1, <1>2, <1>3, <1>4 DEF OptionsInv
<1>6. LoopInv
  BY DEF HttpInit, LoopInv
<1>7. RetriesAreUsedUp /\ BodyBelongsToStatus /\ ConfiguredBundleOnly
  BY <1>1, <1>3 DEF HttpInit, RetriesAreUsedUp, BodyBelongsToStatus, ConfiguredBundleOnly, Sent
<1> QED
  BY <1>5, <1>6, <1>7 DEF HttpInv

\* Setting the path keeps to the order, and nothing was sent yet.
LEMMA SetPathKeeps ==
    ASSUME HttpInv, NEW path \in Paths \cup {NoPath}, set_ca_bundle_path(path)
    PROVE  HttpInv'
<1>1. /\ m_options'.max_retry_count = m_options.max_retry_count
      /\ DOMAIN m_options' = DOMAIN m_options
      /\ m_options'.ca_bundle_path = Resolve(path).path
      /\ explicit' = path
      /\ UNCHANGED <<environment, phase, cur_try, last_error, curl_code, out_status, out_response>>
      /\ phase = "configure"
  BY DEF HttpInv, OptionsInv, set_ca_bundle_path, WithBundle
<1>2. environment \in [1..3 -> Paths \cup {NoPath}]
  BY DEF HttpInv, OptionsInv
<1>3. Configured'
  BY <1>1, <1>2, ResolveProperty DEF Configured
<1>4. OptionsInv'
  BY <1>1, <1>3 DEF HttpInv, OptionsInv
<1>5. LoopInv' /\ cur_try' = 0 /\ phase' = "configure"
  BY <1>1 DEF HttpInv, LoopInv
<1> QED
  BY <1>1, <1>4, <1>5 DEF HttpInv, OptionsInv, RetriesAreUsedUp, BodyBelongsToStatus,
     ConfiguredBundleOnly, Sent

\* An attempt that leaves the loop open has an attempt left, and the last one
\* ends it.
LEMMA AttemptKeeps == HttpInv /\ Attempt => HttpInv'
<1> SUFFICES ASSUME HttpInv, Attempt PROVE HttpInv'
  OBVIOUS
<1>0. /\ phase = "attempt" /\ cur_try \in Nat /\ cur_try' = cur_try + 1
      /\ UNCHANGED settings /\ m_options.max_retry_count \in Nat
      /\ cur_try <= m_options.max_retry_count
      /\ m_options.ca_bundle_path # NoPath
      /\ last_error = "Ok" => out_status = "retryable"
      /\ Configured
  BY DEF HttpInv, OptionsInv, LoopInv, Attempt, RetryableError, FatalError, Response
<1>1. OptionsInv' /\ Configured' /\ m_options' = m_options
  BY <1>0 DEF HttpInv, OptionsInv, Configured, settings
<1>2. ConfiguredBundleOnly'
  BY <1>0, <1>1 DEF ConfiguredBundleOnly, Configured
<1>3. Body = <<>>
  BY <1>0 DEF Body, HttpInv, LoopInv
<1>4. CASE RetryableError
  <2>1. out_status' = out_status /\ last_error' = last_error /\ curl_code' = "retryable" /\
        phase' = IF cur_try' <= m_options.max_retry_count THEN "attempt" ELSE "done"
    BY <1>4 DEF RetryableError, Again, HttpReturn
  <2> QED
    BY <1>0, <1>1, <1>2, <2>1 DEF HttpInv, LoopInv, RetriesAreUsedUp, BodyBelongsToStatus
<1>5. CASE FatalError
  <2>1. phase' = "done" /\ last_error' = "InternalError" /\ curl_code' = "fatal"
    BY <1>5 DEF FatalError, HttpReturn
  <2> QED
    BY <1>0, <1>1, <1>2, <2>1 DEF HttpInv, LoopInv, RetriesAreUsedUp, BodyBelongsToStatus
<1>6. ASSUME NEW s \in Statuses, Response(s) PROVE HttpInv'
  <2>1. /\ out_status' = s /\ last_error' = "Ok" /\ curl_code' = "OK"
        /\ out_response' = <<cur_try'>>
    BY <1>0, <1>3, <1>6 DEF Response, Again, HttpReturn
  <2>2. phase' = IF s = "retryable" /\ cur_try' <= m_options.max_retry_count THEN "attempt" ELSE "done"
    BY <1>6 DEF Response, Again, HttpReturn
  <2>3. s # "0"
    BY DEF Statuses
  <2> QED
    BY <1>0, <1>1, <1>2, <2>1, <2>2, <2>3 DEF HttpInv, LoopInv, RetriesAreUsedUp, BodyBelongsToStatus
<1> QED
  BY <1>4, <1>5, <1>6 DEF Attempt

\* HttpInv is inductive.
LEMMA HttpInvNext == HttpInv /\ [HttpNext]_httpVars => HttpInv'
<1> SUFFICES ASSUME HttpInv, [HttpNext]_httpVars PROVE HttpInv'
  OBVIOUS
<1> USE DEF OptionsInv, Configured, LoopInv, RetriesAreUsedUp, BodyBelongsToStatus,
            ConfiguredBundleOnly, Sent
<1>1. ASSUME NEW p \in Paths \cup {NoPath}, set_ca_bundle_path(p) PROVE HttpInv'
  BY <1>1, SetPathKeeps
<1>2. ASSUME NEW p \in Paths, FilesChange(p) PROVE HttpInv'
  BY <1>2 DEF HttpInv, FilesChange
<1>3. CASE Begin
  BY <1>3 DEF HttpInv, Begin, settings
<1>4. CASE RefuseWithoutBundle
  BY <1>4 DEF HttpInv, RefuseWithoutBundle, HttpReturn, settings
<1>5. CASE SetUp
  BY <1>5 DEF HttpInv, SetUp, HasBundle, settings
<1>6. CASE Attempt
  BY <1>6, AttemptKeeps
<1>7. CASE UNCHANGED httpVars
  BY <1>7 DEF HttpInv, httpVars, settings
<1> QED
  BY <1>1, <1>2, <1>3, <1>4, <1>5, <1>6, <1>7 DEF HttpNext, Returned

\* HttpInv holds in every reachable state.
LEMMA HttpInvAlways == HttpSpec => []HttpInv
BY HttpInvInit, HttpInvNext, PTL DEF HttpSpec

\* However libcurl and the server behave, an attempt that a retry could improve,
\* by its answer or by its error, is the last one only if it is attempt
\* max_retry_count + 1, and there are never more.
THEOREM RetriesAlwaysUsedUp == HttpSpec => []RetriesAreUsedUp
BY HttpInvAlways, PTL DEF HttpInv

\* The body that comes with Ok and a final status is the body of that response
\* alone, whatever earlier attempts had received.
THEOREM BodyAlwaysBelongsToStatus == HttpSpec => []BodyBelongsToStatus
BY HttpInvAlways, PTL DEF HttpInv

\* Nothing is sent but under the bundle that was configured, explicitly or by
\* the first variable that is set, whatever happened to the files.
THEOREM AlwaysConfiguredBundleOnly == HttpSpec => []ConfiguredBundleOnly
BY HttpInvAlways, PTL DEF HttpInv

-----------------------------------------------------------------------------
(* The key store.                                                          *)

Holding == {"refresh", "look"}

\* The mutex is held by the one thread between Lock and its return.
MutexInv == \A t \in Threads : pc[t] \in Holding => lock = t

\* A key is withdrawn for good, and what is cached was published no earlier
\* than the time of the last update says.
CacheInv ==
    /\ lastUpdate <= now
    /\ \A k \in published : withdrawnAt[k] = Never
    /\ \A k \in Kids : withdrawnAt[k] # Never => withdrawnAt[k] <= now
    /\ \A k \in jwks : withdrawnAt[k] # Never => lastUpdate <= withdrawnAt[k]

\* What a thread in a call may rely on.
CallInv ==
    \A t \in Threads :
        /\ pc[t] # "idle" => kid[t] \in Kids
        /\ now_ms[t] <= now
        /\ pc[t] = "refresh" => jwks = {}
        /\ pc[t] = "look" => now_ms[t] <= lastUpdate + CacheDuration
        /\ pc[t] # "idle" /\ kid[t] \in known[t] =>
              kid[t] \in published \/ withdrawnAt[kid[t]] # Never
        /\ pc[t] = "look" /\ kid[t] \in known[t] =>
              kid[t] \in jwks \/ withdrawnAt[kid[t]] # Never

IInv ==
    TypeOK /\ MutexInv /\ CacheInv /\ CallInv /\ WithdrawnKeysExpire /\ PublishedKeyIsFound

\* The invariant holds of a new store.
LEMMA IInvInit == Init => IInv
BY JwkStoreConstants, SMTT(30) DEF Init, IInv, TypeOK, MutexInv, CacheInv, CallInv, WithdrawnKeysExpire,
   PublishedKeyIsFound, Start, Errors, Holding

\* Every step of a thread, of the service and of the clock preserves it.
LEMMA IInvNext == IInv /\ [Next]_vars => IInv'
<1> SUFFICES ASSUME IInv, [Next]_vars PROVE IInv'
  OBVIOUS
<1> USE JwkStoreConstants DEF IInv, TypeOK, Start, Errors, Holding, Goto, Return, nras
<1>1. CASE UNCHANGED vars
  BY <1>1 DEF vars, MutexInv, CacheInv, CallInv, WithdrawnKeysExpire, PublishedKeyIsFound
<1>2. ASSUME NEW t \in Threads, Lock(t) PROVE IInv'
  <2>1. TypeOK'
    BY <1>2 DEF Lock, Outdated, cache_expired, cache_miss
  <2>2. MutexInv'
    BY <1>2 DEF Lock, Outdated, cache_expired, cache_miss, MutexInv
  <2>3. CacheInv'
    BY <1>2 DEF Lock, Outdated, cache_expired, cache_miss, CacheInv, CallInv
  <2>4. CallInv'
    BY <1>2 DEF Lock, Outdated, cache_expired, cache_miss, CallInv, CacheInv, MutexInv
  <2>5. WithdrawnKeysExpire'
    BY <1>2 DEF Lock, Outdated, cache_expired, cache_miss, WithdrawnKeysExpire, CallInv, CacheInv
  <2>6. PublishedKeyIsFound'
    BY <1>2 DEF Lock, Outdated, cache_expired, cache_miss, PublishedKeyIsFound, CallInv, CacheInv
  <2>7. QED
    BY <2>1, <2>2, <2>3, <2>4, <2>5, <2>6
<1>3. ASSUME NEW t \in Threads, Refresh(t) PROVE IInv'
  <2>1. TypeOK'
    BY <1>3 DEF Refresh
  <2>2. MutexInv'
    BY <1>3 DEF Refresh, MutexInv
  <2>3. CacheInv'
    BY <1>3 DEF Refresh, CacheInv, CallInv
  <2>4. CallInv'
    BY <1>3 DEF Refresh, CallInv, CacheInv, MutexInv
  <2>5. WithdrawnKeysExpire'
    BY <1>3 DEF Refresh, WithdrawnKeysExpire, CallInv, CacheInv
  <2>6. PublishedKeyIsFound'
    BY <1>3 DEF Refresh, PublishedKeyIsFound, CallInv, CacheInv
  <2>7. QED
    BY <2>1, <2>2, <2>3, <2>4, <2>5, <2>6
<1>4. ASSUME NEW t \in Threads, RefreshFails(t) PROVE IInv'
  <2>1. TypeOK'
    BY <1>4 DEF RefreshFails
  <2>2. MutexInv'
    BY <1>4 DEF RefreshFails, MutexInv
  <2>3. CacheInv'
    BY <1>4 DEF RefreshFails, CacheInv, CallInv
  <2>4. CallInv'
    BY <1>4 DEF RefreshFails, CallInv, CacheInv, MutexInv
  <2>5. WithdrawnKeysExpire'
    BY <1>4 DEF RefreshFails, WithdrawnKeysExpire, CallInv, CacheInv
  <2>6. PublishedKeyIsFound'
    BY <1>4 DEF RefreshFails, PublishedKeyIsFound, CallInv, CacheInv
  <2>7. QED
    BY <2>1, <2>2, <2>3, <2>4, <2>5, <2>6
<1>5. ASSUME NEW t \in Threads, Look(t) PROVE IInv'
  <2>1. TypeOK'
    BY <1>5 DEF Look
  <2>2. MutexInv'
    BY <1>5 DEF Look, MutexInv
  <2>3. CacheInv'
    BY <1>5 DEF Look, CacheInv, CallInv
  <2>4. CallInv'
    BY <1>5 DEF Look, CallInv, CacheInv, MutexInv
  <2>5. WithdrawnKeysExpire'
    BY <1>5 DEF Look, WithdrawnKeysExpire, CallInv, CacheInv
  <2>6. PublishedKeyIsFound'
    BY <1>5 DEF Look, PublishedKeyIsFound, CallInv, CacheInv
  <2>7. QED
    BY <2>1, <2>2, <2>3, <2>4, <2>5, <2>6
<1>6. ASSUME NEW t \in Threads, Leave(t) PROVE IInv'
  <2>1. TypeOK'
    BY <1>6 DEF Leave
  <2>2. MutexInv'
    BY <1>6 DEF Leave, MutexInv
  <2>3. CacheInv'
    BY <1>6 DEF Leave, CacheInv, CallInv
  <2>4. CallInv'
    BY <1>6 DEF Leave, CallInv, CacheInv, MutexInv
  <2>5. WithdrawnKeysExpire'
    BY <1>6 DEF Leave, WithdrawnKeysExpire, CallInv, CacheInv
  <2>6. PublishedKeyIsFound'
    BY <1>6 DEF Leave, PublishedKeyIsFound, CallInv, CacheInv
  <2>7. QED
    BY <2>1, <2>2, <2>3, <2>4, <2>5, <2>6
<1>7. ASSUME NEW t \in Threads, NEW k \in Kids, Call(t, k) PROVE IInv'
  <2>1. TypeOK'
    BY <1>7 DEF Call
  <2>2. MutexInv'
    BY <1>7 DEF Call, MutexInv
  <2>3. CacheInv'
    BY <1>7 DEF Call, CacheInv, CallInv
  <2>4. CallInv'
    BY <1>7 DEF Call, CallInv, CacheInv, MutexInv
  <2>5. WithdrawnKeysExpire'
    BY <1>7 DEF Call, WithdrawnKeysExpire, CallInv, CacheInv
  <2>6. PublishedKeyIsFound'
    BY <1>7 DEF Call, PublishedKeyIsFound, CallInv, CacheInv
  <2>7. QED
    BY <2>1, <2>2, <2>3, <2>4, <2>5, <2>6
<1>8. ASSUME NEW k \in Kids, Publish(k) PROVE IInv'
  <2>1. TypeOK'
    BY <1>8 DEF Publish
  <2>2. MutexInv'
    BY <1>8 DEF Publish, MutexInv
  <2>3. CacheInv'
    BY <1>8 DEF Publish, CacheInv, CallInv
  <2>4. CallInv'
    BY <1>8 DEF Publish, CallInv, CacheInv, MutexInv
  <2>5. WithdrawnKeysExpire'
    BY <1>8 DEF Publish, WithdrawnKeysExpire, CallInv, CacheInv
  <2>6. PublishedKeyIsFound'
    BY <1>8 DEF Publish, PublishedKeyIsFound, CallInv, CacheInv
  <2>7. QED
    BY <2>1, <2>2, <2>3, <2>4, <2>5, <2>6
<1>9. ASSUME NEW k \in Kids, Withdraw(k) PROVE IInv'
  <2>1. TypeOK'
    BY <1>9 DEF Withdraw
  <2>2. MutexInv'
    BY <1>9 DEF Withdraw, MutexInv
  <2>3. CacheInv'
    BY <1>9 DEF Withdraw, CacheInv, CallInv
  <2>4. CallInv'
    BY <1>9 DEF Withdraw, CallInv, CacheInv, MutexInv
  <2>5. WithdrawnKeysExpire'
    BY <1>9 DEF Withdraw, WithdrawnKeysExpire, CallInv, CacheInv
  <2>6. PublishedKeyIsFound'
    BY <1>9 DEF Withdraw, PublishedKeyIsFound, CallInv, CacheInv
  <2>7. QED
    BY <2>1, <2>2, <2>3, <2>4, <2>5, <2>6
<1>10. ASSUME Tick PROVE IInv'
  <2>1. TypeOK'
    BY <1>10 DEF Tick
  <2>2. MutexInv'
    BY <1>10 DEF Tick, MutexInv
  <2>3. CacheInv'
    BY <1>10 DEF Tick, CacheInv, CallInv
  <2>4. CallInv'
    BY <1>10 DEF Tick, CallInv, CacheInv, MutexInv
  <2>5. WithdrawnKeysExpire'
    BY <1>10 DEF Tick, WithdrawnKeysExpire, CallInv, CacheInv
  <2>6. PublishedKeyIsFound'
    BY <1>10 DEF Tick, PublishedKeyIsFound, CallInv, CacheInv
  <2>7. QED
    BY <2>1, <2>2, <2>3, <2>4, <2>5, <2>6
<1>11. QED
  BY <1>1, <1>2, <1>3, <1>4, <1>5, <1>6, <1>7, <1>8, <1>9, <1>10, ZenonT(30) DEF Next, Locked

\* WithdrawnKeysExpire for any number of threads and keys: however slow a
\* refresh is, a key is used for at most m_cache_duration_ms after NRAS
\* withdrew it.
THEOREM WithdrawnKeysAlwaysExpire == Spec => []WithdrawnKeysExpire
<1>1. IInv => WithdrawnKeysExpire
  BY DEF IInv
<1>2. QED
  BY <1>1, IInvInit, IInvNext, PTL DEF Spec

\* PublishedKeyIsFound for any number of threads and keys: get_jwk_by_kid
\* reports a key missing only if it was not published, or withdrawn, in time.
THEOREM PublishedKeyAlwaysFound == Spec => []PublishedKeyIsFound
<1>1. IInv => PublishedKeyIsFound
  BY DEF IInv
<1>2. QED
  BY <1>1, IInvInit, IInvNext, PTL DEF Spec

=============================================================================
