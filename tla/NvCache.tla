------------------------------- MODULE NvCache ------------------------------
(***************************************************************************)
(* The bounded TTL/LRU cache of nv_cache.cpp.                              *)
(*                                                                         *)
(* get, remove and clear run under m_mutex from start to end and are one   *)
(* action each.  put also holds m_mutex, but it reads the clock once per   *)
(* loop iteration and once more when it inserts, and the clock runs on     *)
(* meanwhile: it is a PutLock step, one step per loop iteration and a      *)
(* PutInsert step, with `putting' as the lock and its local variables.     *)
(* The front of a std::list is position 1, its back the last position.     *)
(***************************************************************************)
EXTENDS Integers, Sequences, FiniteSetsExt

CONSTANTS
    Keys, Values, NoValue,
    Sizes,          \* sizes callers pass as size_bytes
    MaxSizeBytes,   \* m_options->max_size_bytes
    TtlSeconds,     \* m_options->ttl_seconds, one for all objects
    NoPut,          \* no put is between its lock and its unlock
    MaxTime         \* bound of the model on the clock

\* The sum of two sizes up to MaxSizeBytes does not wrap uint64_t: the model
\* uses unbounded integers, and TypeOK excludes an underflow.
ASSUME CacheConstants ==
    /\ Sizes \subseteq Nat
    /\ MaxSizeBytes \in Nat
    /\ TtlSeconds \in Nat
    /\ MaxTime \in Nat
    /\ NoValue \notin Values
    /\ NoPut \notin [key : Keys, value : Values, size : Sizes,
                     expiring : BOOLEAN, begun : Int]

VARIABLES
    m_cache,                \* key -> object: a partial function on Keys
    m_lru_list,             \* keys, the most recently used first
    m_insertion_list,       \* keys, the most recently inserted first
    m_current_size_bytes,
    putting,                \* the put that holds m_mutex, or NoPut
    reply,                  \* the outcome of the last call that returned
    now,                    \* time(nullptr)
    setBack                 \* the wall clock was stepped back (history)

vars == <<m_cache, m_lru_list, m_insertion_list, m_current_size_bytes,
          putting, reply, now, setBack>>
contents == <<m_cache, m_lru_list, m_insertion_list, m_current_size_bytes>>

NvCacheObject == [m_value : Values, m_size_bytes : Nat, m_expiry_time : Int]

\* The map that clients see.
Seen == [k \in DOMAIN m_cache |-> [value  |-> m_cache[k].m_value,
                                   expiry |-> m_cache[k].m_expiry_time]]

Map == INSTANCE TtlMap WITH store <- Seen

\* A put in progress; `expiring' while it is in its first loop, `begun' is
\* the time at which it took the lock (history, read by no step).
Puts == [key : Keys, value : Values, size : Sizes, expiring : BOOLEAN, begun : Int]

TypeOK ==
    /\ DOMAIN m_cache \subseteq Keys
    /\ m_cache \in [DOMAIN m_cache -> NvCacheObject]
    /\ m_lru_list \in Seq(Keys)
    /\ m_insertion_list \in Seq(Keys)
    /\ m_current_size_bytes \in 0..MaxSizeBytes
    /\ putting \in Puts \cup {NoPut}
    /\ reply \in Map!Reply
    /\ now \in Int
    /\ setBack \in BOOLEAN

Init ==
    /\ m_cache = [k \in {} |-> NoValue]
    /\ m_lru_list = <<>>
    /\ m_insertion_list = <<>>
    /\ m_current_size_bytes = 0
    /\ putting = NoPut
    /\ reply = Map!NoReply
    /\ now = 0
    /\ setBack = FALSE

-----------------------------------------------------------------------------
\* std::list::erase of the node an object's iterator points to.
Erase(list, k) ==
    LET i == CHOOSE i \in DOMAIN list : list[i] = k
    IN  SubSeq(list, 1, i - 1) \o SubSeq(list, i + 1, Len(list))

back(list) == list[Len(list)]

\* Variation: the size of the removed object is not subtracted.
RemoveKeepsSize(k) ==
    /\ UNCHANGED m_current_size_bytes
    /\ m_lru_list' = Erase(m_lru_list, k)
    /\ m_insertion_list' = Erase(m_insertion_list, k)
    /\ m_cache' = Restrict(m_cache, DOMAIN m_cache \ {k})

remove_helper(k) ==
    /\ m_current_size_bytes' = m_current_size_bytes - m_cache[k].m_size_bytes
    /\ m_lru_list' = Erase(m_lru_list, k)
    /\ m_insertion_list' = Erase(m_insertion_list, k)
    /\ m_cache' = Restrict(m_cache, DOMAIN m_cache \ {k})

Unlocked == putting = NoPut

\* The size test precedes the lock: it may also run while another put works.
PutTooLarge(k, s) ==
    /\ s > MaxSizeBytes
    /\ reply' = Map!PutReply(k, "BadArgument")
    /\ UNCHANGED <<contents, putting, now, setBack>>

PutLock(k, v, s) ==
    /\ Unlocked
    /\ s <= MaxSizeBytes
    /\ IF k \in DOMAIN m_cache THEN remove_helper(k) ELSE UNCHANGED contents
    /\ putting' = [key |-> k, value |-> v, size |-> s, expiring |-> TRUE, begun |-> now]
    /\ UNCHANGED <<reply, now, setBack>>

Full == m_current_size_bytes + putting.size > MaxSizeBytes

\* Variation: an object counts as expired one second late.
OldestExpiredLate == m_cache[back(m_insertion_list)].m_expiry_time < now

OldestExpired == m_cache[back(m_insertion_list)].m_expiry_time <= now

\* First loop: drop objects from the old end while they are expired.
EvictExpired ==
    /\ ~Unlocked /\ putting.expiring
    /\ m_insertion_list # <<>> /\ Full
    /\ OldestExpired
    /\ remove_helper(back(m_insertion_list))
    /\ UNCHANGED <<putting, reply, now, setBack>>

StopExpiring ==
    /\ ~Unlocked /\ putting.expiring
    /\ ~(m_insertion_list # <<>> /\ Full /\ OldestExpired)
    /\ putting' = [putting EXCEPT !.expiring = FALSE]
    /\ UNCHANGED <<contents, reply, now, setBack>>

\* Variation: the loop body does not remove the victim.
EvictNothing ==
    /\ ~Unlocked /\ ~putting.expiring
    /\ m_lru_list # <<>> /\ Full
    /\ UNCHANGED <<contents, putting, reply, now, setBack>>

\* Second loop: drop the least recently used object, expired or not.
EvictLru ==
    /\ ~Unlocked /\ ~putting.expiring
    /\ m_lru_list # <<>> /\ Full
    /\ remove_helper(back(m_lru_list))
    /\ UNCHANGED <<putting, reply, now, setBack>>

PutInsert ==
    /\ ~Unlocked /\ ~putting.expiring
    /\ ~(m_lru_list # <<>> /\ Full)
    /\ m_current_size_bytes' = m_current_size_bytes + putting.size
    /\ m_lru_list' = <<putting.key>> \o m_lru_list
    /\ m_insertion_list' = <<putting.key>> \o m_insertion_list
    /\ m_cache' = [k \in DOMAIN m_cache \cup {putting.key} |->
                     IF k = putting.key
                     THEN [m_value |-> putting.value, m_size_bytes |-> putting.size,
                           m_expiry_time |-> now + TtlSeconds]
                     ELSE m_cache[k]]
    /\ reply' = Map!PutReply(putting.key, "Ok")
    /\ putting' = NoPut
    /\ UNCHANGED <<now, setBack>>

\* Variation: the hit key is pushed to the front without erasing its node.
GetKeepsNode(k) ==
    /\ Unlocked
    /\ IF k \in DOMAIN m_cache /\ m_cache[k].m_expiry_time > now
       THEN /\ reply' = Map!GetHit(k, m_cache[k].m_value)
            /\ m_lru_list' = <<k>> \o m_lru_list
       ELSE /\ reply' = Map!GetMiss(k)
            /\ UNCHANGED m_lru_list
    /\ UNCHANGED <<m_cache, m_insertion_list, m_current_size_bytes, putting, now, setBack>>

\* Variation: an object is handed out in the second in which it expires.
GetAtExpiry(k) ==
    /\ Unlocked
    /\ IF k \in DOMAIN m_cache /\ m_cache[k].m_expiry_time >= now
       THEN /\ reply' = Map!GetHit(k, m_cache[k].m_value)
            /\ m_lru_list' = <<k>> \o Erase(m_lru_list, k)
       ELSE /\ reply' = Map!GetMiss(k)
            /\ UNCHANGED m_lru_list
    /\ UNCHANGED <<m_cache, m_insertion_list, m_current_size_bytes, putting, now, setBack>>

\* A miss leaves an expired object where it is; a hit moves the key to the
\* front of the LRU list.
Get(k) ==
    /\ Unlocked
    /\ IF k \in DOMAIN m_cache /\ m_cache[k].m_expiry_time > now
       THEN /\ reply' = Map!GetHit(k, m_cache[k].m_value)
            /\ m_lru_list' = <<k>> \o Erase(m_lru_list, k)
       ELSE /\ reply' = Map!GetMiss(k)
            /\ UNCHANGED m_lru_list
    /\ UNCHANGED <<m_cache, m_insertion_list, m_current_size_bytes, putting, now, setBack>>

RemoveKey(k) ==
    /\ Unlocked
    /\ k \in DOMAIN m_cache
    /\ remove_helper(k)
    /\ UNCHANGED <<putting, reply, now, setBack>>

Clear ==
    /\ Unlocked
    /\ m_cache' = [k \in {} |-> NoValue]
    /\ m_lru_list' = <<>>
    /\ m_insertion_list' = <<>>
    /\ m_current_size_bytes' = 0
    /\ UNCHANGED <<putting, reply, now, setBack>>

Tick ==
    /\ now < MaxTime
    /\ now' = now + 1
    /\ UNCHANGED <<contents, putting, reply, setBack>>

ClockSetBack ==
    /\ now > 0
    /\ now' \in 0 .. now - 1
    /\ setBack' = TRUE
    /\ UNCHANGED <<contents, putting, reply>>

PutSteps == EvictExpired \/ StopExpiring \/ EvictLru \/ PutInsert

Next ==
    \/ \E k \in Keys :
          \/ Get(k) \/ RemoveKey(k)
          \/ \E s \in Sizes : PutTooLarge(k, s) \/ \E v \in Values : PutLock(k, v, s)
    \/ EvictExpired \/ StopExpiring \/ EvictLru \/ PutInsert
    \/ Clear \/ Tick \/ ClockSetBack

Spec == Init /\ [][Next]_vars

\* The thread that holds m_mutex in put runs straight-line code.
FairSpec == Spec /\ WF_vars(PutSteps)

-----------------------------------------------------------------------------
\* Each list holds exactly the cached keys, each once.  Every erase through a
\* stored iterator, and every m_cache[oldest_key], relies on it: operator[]
\* on a key that is not cached would insert an object of size 0.
IndexesAgree ==
    \A list \in {m_lru_list, m_insertion_list} :
        IsInjective(list) /\ Range(list) = DOMAIN m_cache

\* The bytes the objects of a map account for.
BytesOf(c) == UNION {{k} \X (1 .. c[k].m_size_bytes) : k \in DOMAIN c}

\* m_current_size_bytes is the sum of the sizes of the cached objects after
\* any mix of replacements, evictions, removes and clears; with TypeOK it
\* never exceeds max_size_bytes.
SizeIsAccurate == m_current_size_bytes = Cardinality(BytesOf(m_cache))

\* The insertion list is sorted by expiry time, oldest last: the reason why
\* the first loop of put may stop at the first unexpired object.  It holds
\* as long as the clock was not stepped back.
InsertionOrderIsExpiryOrder ==
    ~setBack =>
        \A i, j \in DOMAIN m_insertion_list :
            i < j => m_cache[m_insertion_list[j]].m_expiry_time
                       <= m_cache[m_insertion_list[i]].m_expiry_time

\* put evicts by recency only when no object that had expired by the time it
\* took the lock is left, as long as the clock was not stepped back.
NoLiveVictimBeforeExpired ==
    [][~setBack /\ EvictLru =>
          \A k \in DOMAIN m_cache : m_cache[k].m_expiry_time > putting.begun]_vars

\* NvCache implements the forgetful map its clients rely on: get never
\* returns an expired object, an object of another key, or one that was
\* replaced, removed or cleared.
ImplementsTtlMap == Map!MapSpec

\* The two eviction loops end: a put that took the lock releases it.
PutReturns == ~Unlocked ~> Unlocked

=============================================================================
