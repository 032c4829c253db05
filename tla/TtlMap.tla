------------------------------- MODULE TtlMap -------------------------------
(***************************************************************************)
(* What a client of INvCache (nv_cache.h) may rely on: a map from keys to  *)
(* values that forgets.  An entry appears only through a successful put,   *)
(* carries the expiry time it got there, may vanish at any moment (a full  *)
(* cache evicts), and is handed out by get only while it is unexpired.     *)
(* NvCache.tla is the implementation; CachingClients.tla has its clients,  *)
(* which are built on this module alone.                                   *)
(***************************************************************************)
EXTENDS Integers, Functions

CONSTANTS
    Keys,           \* cache keys (strings in the code)
    Values,         \* cached objects
    NoValue,        \* "no object": the out parameter of a failed get
    TtlSeconds      \* NvCacheOptions::ttl_seconds

VARIABLES
    store,          \* the live entries: a partial function on Keys
    reply,          \* the outcome of the last call that returned
    now             \* time(nullptr)

mapVars == <<store, reply, now>>

MapEntry == [value : Values, expiry : Int]

Reply == [call : {"none", "put", "get"}, key : Keys \cup {NoValue},
          error : {"Ok", "BadArgument", "CacheObjectNotFound"},
          value : Values \cup {NoValue}]

NoReply == [call |-> "none", key |-> NoValue, error |-> "Ok", value |-> NoValue]
PutReply(k, e) == [call |-> "put", key |-> k, error |-> e, value |-> NoValue]
GetHit(k, v) == [call |-> "get", key |-> k, error |-> "Ok", value |-> v]
GetMiss(k) == [call |-> "get", key |-> k, error |-> "CacheObjectNotFound", value |-> NoValue]

MapTypeOK ==
    /\ DOMAIN store \subseteq Keys
    /\ store \in [DOMAIN store -> MapEntry]
    /\ reply \in Reply
    /\ now \in Int

MapInit ==
    /\ store = [k \in {} |-> NoValue]
    /\ reply = NoReply
    /\ now = 0

\* Entries may be lost at any time: eviction, remove() and clear().
Lose ==
    /\ \E S \in SUBSET DOMAIN store : store' = Restrict(store, S)
    /\ UNCHANGED <<reply, now>>

\* A put that was accepted; what else is in the map may shrink.
Store(k, v) ==
    /\ \E S \in SUBSET (DOMAIN store \ {k}) :
          store' = [x \in S \cup {k} |->
                      IF x = k THEN [value |-> v, expiry |-> now + TtlSeconds]
                               ELSE store[x]]
    /\ reply' = PutReply(k, "Ok")
    /\ UNCHANGED now

\* A put of an object that can never fit.
Refuse(k) ==
    /\ reply' = PutReply(k, "BadArgument")
    /\ UNCHANGED <<store, now>>

Live(k) == k \in DOMAIN store /\ store[k].expiry > now

\* A get: a hit exactly on a live entry.
Lookup(k) ==
    /\ reply' = IF Live(k) THEN GetHit(k, store[k].value) ELSE GetMiss(k)
    /\ UNCHANGED <<store, now>>

\* The wall clock is set by others; it may also be stepped back.
Clock ==
    /\ now' \in Int
    /\ UNCHANGED <<store, reply>>

MapNext ==
    \/ Lose \/ Clock
    \/ \E k \in Keys : Refuse(k) \/ Lookup(k) \/ \E v \in Values : Store(k, v)

MapSpec == MapInit /\ [][MapNext]_mapVars

=============================================================================
