--------------------------- MODULE NvCacheProofs ---------------------------
(***************************************************************************)
(* Proofs about NvCache for any keys, sizes, limit and TTL.                *)
(*                                                                         *)
(* The inductive invariant IInv joins the type invariant, the agreement of *)
(* the two lists with the map and the accuracy of the byte count: none of  *)
(* the three is inductive alone.  The limit holds after an insertion into  *)
(* an emptied cache because the count is then 0, that is because the count *)
(* is accurate; the count stays accurate under an eviction because the     *)
(* evicted key is cached, that is because the lists agree with the map.    *)
(***************************************************************************)
EXTENDS NvCache, FiniteSetTheorems, SequenceTheorems, TLAPS

\* Erasing a cached key from a list without duplicates leaves a list without
\* duplicates of the other keys, in the order they had.
LEMMA EraseProperties ==
    ASSUME NEW S, NEW list \in Seq(S), IsInjective(list), NEW k \in Range(list)
    PROVE  /\ Erase(list, k) \in Seq(S)
           /\ IsInjective(Erase(list, k))
           /\ Range(Erase(list, k)) = Range(list) \ {k}
           /\ \A i, j \in DOMAIN Erase(list, k) : i < j =>
                 \E a, b \in DOMAIN list :
                    a < b /\ list[a] = Erase(list, k)[i] /\ list[b] = Erase(list, k)[j]
<1> DEFINE p == CHOOSE i \in DOMAIN list : list[i] = k
           n == Len(list)
           e == Erase(list, k)
<1>1. p \in 1..n /\ list[p] = k /\ n \in Nat /\ DOMAIN list = 1..n
  BY DEF Range
<1>2. \A i \in 1..n : list[i] \in S
  BY DEF Range
<1> DEFINE u == SubSeq(list, 1, p - 1)
           w == SubSeq(list, p + 1, n)
<1>3. /\ u \in Seq(S) /\ Len(u) = p - 1
      /\ \A i \in 1..(p - 1) : u[i] = list[i]
  BY <1>1, <1>2, SubSeqProperties
<1>4. /\ w \in Seq(S) /\ Len(w) = n - p
      /\ \A i \in 1..(n - p) : w[i] = list[p + i]
  BY <1>1, <1>2, SubSeqProperties, SMTT(30)
<1>5. e = u \o w
  BY DEF Erase
<1> HIDE DEF u, w, p, n, e
<1>6. e \in Seq(S) /\ Len(e) = n - 1 /\ DOMAIN e = 1..(n - 1)
  BY <1>1, <1>3, <1>4, <1>5, ConcatProperties
<1>7. \A i \in 1..(n - 1) : e[i] = IF i < p THEN list[i] ELSE list[i + 1]
  BY <1>1, <1>3, <1>4, <1>5, ConcatProperties, SMTT(30)
<1> DEFINE q(i) == IF i < p THEN i ELSE i + 1
<1>11. \A i \in 1..(n - 1) : q(i) \in 1..n /\ q(i) # p /\ e[i] = list[q(i)]
  BY <1>1, <1>7
<1>12. \A a, b \in 1..n : list[a] = list[b] => a = b
  BY <1>1 DEF IsInjective
<1>8. IsInjective(e)
  <2> SUFFICES ASSUME NEW i \in 1..(n - 1), NEW j \in 1..(n - 1), e[i] = e[j]
               PROVE  i = j
    BY <1>6 DEF IsInjective
  <2>1. q(i) = q(j)
    BY <1>11, <1>12
  <2> QED
    BY <1>1, <2>1
<1>9. Range(e) = Range(list) \ {k}
  <2>1. ASSUME NEW x \in Range(e) PROVE x \in Range(list) \ {k}
    <3>1. PICK i \in 1..(n - 1) : e[i] = x
      BY <1>6 DEF Range
    <3>2. list[q(i)] = x /\ q(i) \in 1..n /\ q(i) # p
      BY <1>11, <3>1
    <3>3. x # k
      BY <1>1, <1>12, <3>2
    <3> QED
      BY <1>1, <3>2, <3>3 DEF Range
  <2>2. ASSUME NEW x \in Range(list) \ {k} PROVE x \in Range(e)
    <3>1. PICK i \in 1..n : list[i] = x /\ i # p
      BY <1>1 DEF Range
    <3>2. CASE i < p
      BY <1>1, <1>6, <1>7, <3>1, <3>2 DEF Range
    <3>3. CASE i > p
      <4>1. i - 1 \in 1..(n - 1) /\ ~(i - 1 < p) /\ (i - 1) + 1 = i
        BY <1>1, <3>1, <3>3
      <4>2. e[i - 1] = x
        BY <1>7, <3>1, <4>1
      <4> QED
        BY <1>6, <4>1, <4>2 DEF Range
    <3> QED
      BY <1>1, <3>1, <3>2, <3>3
  <2> QED
    BY <2>1, <2>2
<1>10. \A i, j \in DOMAIN e : i < j =>
           \E a, b \in DOMAIN list : a < b /\ list[a] = e[i] /\ list[b] = e[j]
  <2> SUFFICES ASSUME NEW i \in DOMAIN e, NEW j \in DOMAIN e, i < j
               PROVE  \E a, b \in DOMAIN list : a < b /\ list[a] = e[i] /\ list[b] = e[j]
    OBVIOUS
  <2>1. q(i) \in DOMAIN list /\ q(j) \in DOMAIN list /\ q(i) < q(j)
    BY <1>1, <1>6
  <2>2. list[q(i)] = e[i] /\ list[q(j)] = e[j]
    BY <1>6, <1>11
  <2> HIDE DEF q
  <2> QED
    BY <2>1, <2>2, Zenon
<1> QED
  BY <1>6, <1>8, <1>9, <1>10 DEF e

\* Pushing a new key to the front of a list without duplicates.
LEMMA PushFrontProperties ==
    ASSUME NEW S, NEW list \in Seq(S), IsInjective(list), NEW k \in S, k \notin Range(list)
    PROVE  /\ <<k>> \o list \in Seq(S)
           /\ IsInjective(<<k>> \o list)
           /\ Range(<<k>> \o list) = Range(list) \cup {k}
           /\ \A i \in DOMAIN (<<k>> \o list) :
                 (<<k>> \o list)[i] = IF i = 1 THEN k ELSE list[i - 1]
           /\ DOMAIN (<<k>> \o list) = 1..(Len(list) + 1)
<1> DEFINE n == Len(list)
           c == <<k>> \o list
<1>1. n \in Nat /\ DOMAIN list = 1..n
  OBVIOUS
<1>2. c \in Seq(S) /\ DOMAIN c = 1..(n + 1)
  OBVIOUS
<1>3. \A i \in 1..(n + 1) : c[i] = IF i = 1 THEN k ELSE list[i - 1]
  OBVIOUS
<1> HIDE DEF c, n
<1>4. \A i \in 1..n : c[i + 1] = list[i]
  BY <1>1, <1>3
<1>7. \A a, b \in 1..n : list[a] = list[b] => a = b
  BY <1>1 DEF IsInjective
<1>8. \A a \in 1..n : list[a] # k
  BY <1>1 DEF Range
<1>5. IsInjective(c)
  <2> SUFFICES ASSUME NEW i \in 1..(n + 1), NEW j \in 1..(n + 1), c[i] = c[j]
               PROVE  i = j
    BY <1>2 DEF IsInjective
  <2>1. /\ i = 1 \/ (i - 1 \in 1..n /\ c[i] = list[i - 1])
        /\ j = 1 \/ (j - 1 \in 1..n /\ c[j] = list[j - 1])
    BY <1>1, <1>3
  <2>2. c[1] = k
    BY <1>1, <1>3
  <2> QED
    BY <1>7, <1>8, <2>1, <2>2
<1>6. Range(c) = Range(list) \cup {k}
  <2>1. ASSUME NEW x \in Range(c) PROVE x \in Range(list) \cup {k}
    <3>1. PICK i \in 1..(n + 1) : c[i] = x
      BY <1>2 DEF Range
    <3>2. i = 1 \/ i - 1 \in 1..n
      BY <1>1
    <3>3. x = k \/ \E j \in 1..n : list[j] = x
      BY <1>3, <3>1, <3>2
    <3> QED
      BY <1>1, <3>3 DEF Range
  <2>2. ASSUME NEW x \in Range(list) PROVE x \in Range(c)
    <3>1. PICK i \in 1..n : list[i] = x
      BY <1>1 DEF Range
    <3>2. i + 1 \in 1..(n + 1) /\ c[i + 1] = x
      BY <1>1, <1>4, <3>1
    <3> QED
      BY <1>2, <3>2 DEF Range
  <2>3. k \in Range(c)
    <3>1. 1 \in 1..(n + 1) /\ c[1] = k
      BY <1>1, <1>3
    <3> QED
      BY <1>2, <3>1 DEF Range
  <2> QED
    BY <2>1, <2>2, <2>3
<1> QED
  BY <1>2, <1>3, <1>5, <1>6 DEF c, n

\* One object more accounts for its size, counted once.
LEMMA BytesSplit ==
    ASSUME NEW c, NEW d, NEW k,
           DOMAIN c = DOMAIN d \cup {k}, k \notin DOMAIN d,
           \A x \in DOMAIN d : c[x].m_size_bytes = d[x].m_size_bytes,
           c[k].m_size_bytes \in Nat,
           IsFiniteSet(BytesOf(d))
    PROVE  /\ IsFiniteSet(BytesOf(c))
           /\ Cardinality(BytesOf(c)) = Cardinality(BytesOf(d)) + c[k].m_size_bytes
<1> DEFINE n == c[k].m_size_bytes
           own == {k} \X (1..n)
<1>1. BytesOf(c) = BytesOf(d) \cup own
  BY DEF BytesOf
<1>2. BytesOf(d) \cap own = {}
  BY DEF BytesOf
<1>3. IsFiniteSet(1..n) /\ Cardinality(1..n) = n
  <2>1. n \in Nat /\ 1 \in Int /\ n \in Int
    OBVIOUS
  <2>2. /\ IsFiniteSet(1..n)
        /\ Cardinality(1..n) = IF 1 > n THEN 0 ELSE n - 1 + 1
    BY <2>1, FS_Interval, Zenon
  <2> QED BY <2>1, <2>2
<1>4. IsFiniteSet({k}) /\ Cardinality({k}) = 1
  BY FS_Singleton, Zenon
<1>5. IsFiniteSet(own) /\ Cardinality(own) = n
  <2>1. IsFiniteSet(own) /\ Cardinality(own) = Cardinality({k}) * Cardinality(1..n)
    BY <1>3, <1>4, FS_Product, Zenon
  <2>2. 1 * n = n
    OBVIOUS
  <2> QED
    BY <1>3, <1>4, <2>1, <2>2, Zenon
<1>6. Cardinality(BytesOf(d) \cap own) = 0
  BY <1>2, FS_EmptySet, Zenon
<1>7. Cardinality(BytesOf(d)) \in Nat
  BY FS_CardinalityType
<1> HIDE DEF own, n
<1>8. /\ IsFiniteSet(BytesOf(d) \cup own)
      /\ Cardinality(BytesOf(d) \cup own)
           = Cardinality(BytesOf(d)) + Cardinality(own) - Cardinality(BytesOf(d) \cap own)
  BY <1>5, FS_Union
<1>9. n \in Nat
  BY DEF n
<1> QED
  BY <1>1, <1>5, <1>6, <1>7, <1>8, <1>9 DEF n

\* An emptied cache counts no byte.
LEMMA BytesEmpty ==
    ASSUME NEW c, DOMAIN c = {}
    PROVE  IsFiniteSet(BytesOf(c)) /\ Cardinality(BytesOf(c)) = 0
<1>1. BytesOf(c) = {}
  BY DEF BytesOf
<1> QED
  BY <1>1, FS_EmptySet

-----------------------------------------------------------------------------
\* Between its lock and its unlock a put has an object that fits, and its
\* key is not cached.
PutFits ==
    putting # NoPut =>
        putting.size <= MaxSizeBytes /\ putting.key \notin DOMAIN m_cache

IInv ==
    /\ TypeOK
    /\ IndexesAgree
    /\ IsFiniteSet(BytesOf(m_cache))
    /\ SizeIsAccurate
    /\ PutFits

\* The invariant of the contents alone.
ContentsInv ==
    /\ DOMAIN m_cache \subseteq Keys
    /\ m_cache \in [DOMAIN m_cache -> NvCacheObject]
    /\ m_lru_list \in Seq(Keys)
    /\ m_insertion_list \in Seq(Keys)
    /\ m_current_size_bytes \in 0..MaxSizeBytes
    /\ IndexesAgree
    /\ IsFiniteSet(BytesOf(m_cache))
    /\ SizeIsAccurate

\* remove_helper on a cached key keeps the contents consistent and touches
\* no other object.
LEMMA RemoveHelper ==
    ASSUME ContentsInv, NEW k \in DOMAIN m_cache, remove_helper(k)
    PROVE  /\ ContentsInv'
           /\ DOMAIN m_cache' = DOMAIN m_cache \ {k}
           /\ \A x \in DOMAIN m_cache' : m_cache'[x] = m_cache[x]
<1> USE CacheConstants
<1>1. /\ DOMAIN m_cache' = DOMAIN m_cache \ {k}
      /\ \A x \in DOMAIN m_cache' : m_cache'[x] = m_cache[x]
      /\ m_cache' \in [DOMAIN m_cache' -> NvCacheObject]
  BY DEF remove_helper, ContentsInv, Restrict
<1>2. m_cache[k] \in NvCacheObject
  BY DEF ContentsInv
<1>3. m_cache[k].m_size_bytes \in Nat
  BY <1>2 DEF NvCacheObject
<1>4. BytesOf(m_cache') \subseteq BytesOf(m_cache)
  BY <1>1 DEF BytesOf
<1>5. IsFiniteSet(BytesOf(m_cache'))
  BY <1>4, FS_Subset DEF ContentsInv
<1>6. Cardinality(BytesOf(m_cache)) = Cardinality(BytesOf(m_cache')) + m_cache[k].m_size_bytes
  <2>1. DOMAIN m_cache = DOMAIN m_cache' \cup {k} /\ k \notin DOMAIN m_cache'
    BY <1>1
  <2>2. \A x \in DOMAIN m_cache' : m_cache[x].m_size_bytes = m_cache'[x].m_size_bytes
    BY <1>1
  <2> QED
    BY <1>3, <1>5, <2>1, <2>2, BytesSplit
<1>7. Cardinality(BytesOf(m_cache')) \in Nat
  BY <1>5, FS_CardinalityType
<1>8. m_current_size_bytes' \in 0..MaxSizeBytes /\ SizeIsAccurate'
  BY <1>3, <1>6, <1>7 DEF remove_helper, SizeIsAccurate, ContentsInv
<1>9. k \in Range(m_lru_list) /\ k \in Range(m_insertion_list)
  BY DEF ContentsInv, IndexesAgree
<1>10. /\ m_lru_list' \in Seq(Keys) /\ IsInjective(m_lru_list')
       /\ Range(m_lru_list') = DOMAIN m_cache \ {k}
  BY <1>9, EraseProperties DEF ContentsInv, IndexesAgree, remove_helper
<1>11. /\ m_insertion_list' \in Seq(Keys) /\ IsInjective(m_insertion_list')
       /\ Range(m_insertion_list') = DOMAIN m_cache \ {k}
  BY <1>9, EraseProperties DEF ContentsInv, IndexesAgree, remove_helper
<1> QED
  BY <1>1, <1>5, <1>8, <1>10, <1>11 DEF ContentsInv, IndexesAgree

\* An empty cache satisfies the invariant.
LEMMA InitContents == Init => IInv
<1> SUFFICES ASSUME Init PROVE IInv
  OBVIOUS
<1> USE CacheConstants
<1>1. DOMAIN m_cache = {} /\ m_cache \in [DOMAIN m_cache -> NvCacheObject]
  BY DEF Init
<1>2. IsFiniteSet(BytesOf(m_cache)) /\ Cardinality(BytesOf(m_cache)) = 0
  BY <1>1, BytesEmpty
<1>3. IndexesAgree
  BY <1>1 DEF Init, IndexesAgree, IsInjective, Range
<1>4. reply \in Map!Reply
  BY DEF Init, Map!Reply, Map!NoReply
<1>5. TypeOK
  <2>1. setBack \in BOOLEAN
    BY Zenon DEF Init
  <2>2. /\ DOMAIN m_cache \subseteq Keys
        /\ m_lru_list \in Seq(Keys) /\ m_insertion_list \in Seq(Keys)
        /\ m_current_size_bytes \in 0..MaxSizeBytes
        /\ putting \in Puts \cup {NoPut} /\ now \in Int
    BY <1>1 DEF Init
  <2> QED
    BY <1>1, <1>4, <2>1, <2>2 DEF TypeOK
<1> QED
  BY <1>2, <1>3, <1>5 DEF IInv, SizeIsAccurate, PutFits, Init

\* Only ClockSetBack changes setBack, and it never becomes FALSE again.
LEMMA StepSetBack == [Next]_vars => setBack' = setBack \/ setBack' = TRUE
BY Zenon DEF Next, vars, Get, RemoveKey, PutTooLarge, PutLock, EvictExpired, StopExpiring, EvictLru,
       PutInsert, Clear, Tick, ClockSetBack

\* Every step keeps the invariant: one case per action.
LEMMA StepKeepsIInv == IInv /\ [Next]_vars => IInv'
<1> SUFFICES ASSUME IInv, [Next]_vars PROVE IInv'
  OBVIOUS
<1> USE CacheConstants
<1>0. ContentsInv /\ putting \in Puts \cup {NoPut} /\ reply \in Map!Reply /\ now \in Int
      /\ PutFits
  BY DEF IInv, TypeOK, ContentsInv
<1>z. (setBack \in BOOLEAN)'
  BY StepSetBack, Zenon DEF IInv, TypeOK
<1>a. ASSUME ContentsInv', (putting \in Puts \cup {NoPut})', (reply \in Map!Reply)',
             (now \in Int)', PutFits'
      PROVE  IInv'
  BY <1>a, <1>z DEF IInv, TypeOK, ContentsInv
<1>b. ASSUME UNCHANGED contents PROVE ContentsInv'
  BY <1>0, <1>b DEF ContentsInv, contents, IndexesAgree, SizeIsAccurate
<1>1. ASSUME NEW k \in Keys, Get(k) PROVE IInv'
  <2>1. ContentsInv'
    <3>1. CASE k \in DOMAIN m_cache /\ m_cache[k].m_expiry_time > now
      <4> DEFINE rest == Erase(m_lru_list, k)
      <4>1. /\ m_lru_list' = <<k>> \o rest
            /\ UNCHANGED <<m_cache, m_insertion_list, m_current_size_bytes>>
        BY <1>1, <3>1 DEF Get
      <4>2. m_lru_list \in Seq(Keys) /\ IsInjective(m_lru_list) /\ k \in Range(m_lru_list)
        BY <1>0, <3>1 DEF ContentsInv, IndexesAgree
      <4>3. /\ rest \in Seq(Keys) /\ IsInjective(rest)
            /\ Range(rest) = Range(m_lru_list) \ {k}
        BY <4>2, EraseProperties
      <4> HIDE DEF rest
      <4>4. /\ m_lru_list' \in Seq(Keys) /\ IsInjective(m_lru_list')
            /\ Range(m_lru_list') = Range(rest) \cup {k}
        <5>1. k \notin Range(rest)
          BY <4>3
        <5> QED
          BY <4>1, <4>3, <5>1, PushFrontProperties
      <4>5. Range(m_lru_list') = Range(m_lru_list)
        BY <4>2, <4>3, <4>4
      <4> QED
        BY <1>0, <4>1, <4>4, <4>5 DEF ContentsInv, IndexesAgree, SizeIsAccurate
    <3>2. CASE ~(k \in DOMAIN m_cache /\ m_cache[k].m_expiry_time > now)
      BY <1>1, <1>b, <3>2 DEF Get, contents
    <3> QED
      BY <3>1, <3>2
  <2>2. reply' \in Map!Reply
    BY <1>0, <1>1 DEF Get, Map!Reply, Map!GetHit, Map!GetMiss, ContentsInv, NvCacheObject
  <2> QED
    BY <1>0, <1>1, <1>a, <2>1, <2>2 DEF Get, PutFits
<1>2. ASSUME NEW k \in Keys, RemoveKey(k) PROVE IInv'
  <2>1. ContentsInv'
    BY <1>0, <1>2, RemoveHelper, Zenon DEF RemoveKey
  <2> QED
    BY <1>0, <1>2, <1>a, <2>1 DEF RemoveKey, PutFits, Unlocked
<1>3. ASSUME NEW k \in Keys, NEW s \in Sizes, PutTooLarge(k, s) PROVE IInv'
  <2>1. reply' \in Map!Reply
    BY <1>3 DEF PutTooLarge, Map!Reply, Map!PutReply
  <2> QED
    BY <1>0, <1>3, <1>a, <1>b, <2>1 DEF PutTooLarge, PutFits, contents
<1>4. ASSUME NEW k \in Keys, NEW v \in Values, NEW s \in Sizes, PutLock(k, v, s)
      PROVE  IInv'
  <2>1. ContentsInv' /\ k \notin DOMAIN m_cache'
    <3>1. CASE k \in DOMAIN m_cache
      BY <1>0, <1>4, <3>1, RemoveHelper, Zenon DEF PutLock
    <3>2. CASE k \notin DOMAIN m_cache
      BY <1>0, <1>4, <1>b, <3>2 DEF PutLock, contents
    <3> QED
      BY <3>1, <3>2
  <2>2. putting' \in Puts /\ putting'.key = k /\ putting'.size = s
    BY <1>0, <1>4 DEF PutLock, Puts
  <2> QED
    BY <1>0, <1>4, <1>a, <2>1, <2>2 DEF PutLock, PutFits
<1>5. CASE EvictExpired
  <2>1. back(m_insertion_list) \in DOMAIN m_cache
    BY <1>0, <1>5 DEF EvictExpired, ContentsInv, IndexesAgree, Range, back
  <2>2. ContentsInv' /\ DOMAIN m_cache' \subseteq DOMAIN m_cache
    BY <1>0, <1>5, <2>1, RemoveHelper, Zenon DEF EvictExpired
  <2> QED
    BY <1>0, <1>5, <1>a, <2>2 DEF EvictExpired, PutFits
<1>6. CASE StopExpiring
  <2>1. putting \in Puts /\ putting' \in Puts /\ putting'.key = putting.key
        /\ putting'.size = putting.size
    BY <1>0, <1>6, Zenon DEF StopExpiring, Unlocked, Puts
  <2> QED
    BY <1>0, <1>6, <1>a, <1>b, <2>1 DEF StopExpiring, PutFits, Unlocked, contents
<1>7. CASE EvictLru
  <2>1. back(m_lru_list) \in DOMAIN m_cache
    BY <1>0, <1>7 DEF EvictLru, ContentsInv, IndexesAgree, Range, back
  <2>2. ContentsInv' /\ DOMAIN m_cache' \subseteq DOMAIN m_cache
    BY <1>0, <1>7, <2>1, RemoveHelper, Zenon DEF EvictLru
  <2> QED
    BY <1>0, <1>7, <1>a, <2>2 DEF EvictLru, PutFits
<1>8. CASE PutInsert
  <2>1. /\ putting \in Puts /\ putting.key \in Keys /\ putting.size \in Nat
        /\ putting.value \in Values /\ putting.size <= MaxSizeBytes
        /\ putting.key \notin DOMAIN m_cache
    BY <1>0, <1>8, Zenon DEF PutInsert, Unlocked, PutFits, Puts
  <2>2. /\ DOMAIN m_cache' = DOMAIN m_cache \cup {putting.key}
        /\ \A x \in DOMAIN m_cache : m_cache'[x] = m_cache[x]
        /\ m_cache'[putting.key].m_size_bytes = putting.size
    BY <1>8, <2>1 DEF PutInsert
  <2>3. m_cache' \in [DOMAIN m_cache' -> NvCacheObject]
    <3>1. [m_value |-> putting.value, m_size_bytes |-> putting.size,
           m_expiry_time |-> now + TtlSeconds] \in NvCacheObject
      BY <1>0, <2>1 DEF NvCacheObject
    <3>2. m_cache \in [DOMAIN m_cache -> NvCacheObject]
      BY <1>0 DEF ContentsInv
    <3> QED
      BY <1>8, <2>2, <3>1, <3>2 DEF PutInsert
  <2>4. /\ IsFiniteSet(BytesOf(m_cache'))
        /\ Cardinality(BytesOf(m_cache')) = Cardinality(BytesOf(m_cache)) + putting.size
    <3>1. \A x \in DOMAIN m_cache : m_cache'[x].m_size_bytes = m_cache[x].m_size_bytes
      BY <2>2
    <3>2. IsFiniteSet(BytesOf(m_cache)) /\ m_cache'[putting.key].m_size_bytes \in Nat
      BY <1>0, <2>1, <2>2 DEF ContentsInv
    <3> QED
      BY <2>1, <2>2, <3>1, <3>2, BytesSplit
  <2>5. m_current_size_bytes + putting.size <= MaxSizeBytes
    <3>1. CASE Full
      <4>1. m_lru_list = <<>>
        BY <1>8, <3>1 DEF PutInsert
      <4>2. DOMAIN m_cache = {}
        <5>1. Range(m_lru_list) = DOMAIN m_cache
          BY <1>0 DEF ContentsInv, IndexesAgree
        <5>2. Range(<<>>) = {}
          BY DEF Range
        <5> QED
          BY <4>1, <5>1, <5>2, Zenon
      <4>3. m_current_size_bytes = 0
        BY <1>0, <4>2, BytesEmpty DEF ContentsInv, SizeIsAccurate
      <4> QED
        BY <2>1, <4>3
    <3>2. CASE ~Full
      BY <1>0, <2>1, <3>2 DEF Full, ContentsInv
    <3> QED
      BY <3>1, <3>2
  <2>6. m_current_size_bytes' \in 0..MaxSizeBytes /\ SizeIsAccurate'
    BY <1>0, <1>8, <2>1, <2>4, <2>5, SMTT(30) DEF PutInsert, SizeIsAccurate, ContentsInv
  <2>7. putting.key \notin Range(m_lru_list) /\ putting.key \notin Range(m_insertion_list)
    BY <1>0, <2>1 DEF ContentsInv, IndexesAgree
  <2>8. /\ m_lru_list' \in Seq(Keys) /\ IsInjective(m_lru_list')
        /\ Range(m_lru_list') = DOMAIN m_cache'
    BY <1>0, <1>8, <2>1, <2>2, <2>7, PushFrontProperties, SMTT(30)
       DEF PutInsert, ContentsInv, IndexesAgree
  <2>9. /\ m_insertion_list' \in Seq(Keys) /\ IsInjective(m_insertion_list')
        /\ Range(m_insertion_list') = DOMAIN m_cache'
    BY <1>0, <1>8, <2>1, <2>2, <2>7, PushFrontProperties, SMTT(30)
       DEF PutInsert, ContentsInv, IndexesAgree
  <2>10. ContentsInv'
    BY <1>0, <2>1, <2>2, <2>3, <2>4, <2>6, <2>8, <2>9, ZenonT(30) DEF ContentsInv, IndexesAgree
  <2>11. reply' \in Map!Reply
    BY <1>8, <2>1 DEF PutInsert, Map!Reply, Map!PutReply
  <2> QED
    BY <1>0, <1>8, <1>a, <2>10, <2>11 DEF PutInsert, PutFits
<1>9. CASE Clear
  <2>1. DOMAIN m_cache' = {} /\ m_cache' \in [DOMAIN m_cache' -> NvCacheObject]
    BY <1>9 DEF Clear
  <2>2. IsFiniteSet(BytesOf(m_cache')) /\ Cardinality(BytesOf(m_cache')) = 0
    BY <2>1, BytesEmpty
  <2>3. IndexesAgree'
    BY <1>9, <2>1 DEF Clear, IndexesAgree, IsInjective, Range
  <2>4. ContentsInv'
    BY <1>9, <2>1, <2>2, <2>3 DEF Clear, ContentsInv, SizeIsAccurate
  <2> QED
    BY <1>0, <1>9, <1>a, <2>4 DEF Clear, PutFits, Unlocked
<1>10. CASE Tick \/ ClockSetBack
  BY <1>0, <1>10, <1>a, <1>b DEF Tick, ClockSetBack, PutFits, contents
<1>11. CASE UNCHANGED vars
  BY <1>0, <1>11, <1>a, <1>b DEF vars, PutFits, contents
<1> QED
  BY <1>1, <1>2, <1>3, <1>4, <1>5, <1>6, <1>7, <1>8, <1>9, <1>10, <1>11 DEF Next

\* Type correctness for every instance: in particular m_current_size_bytes
\* neither underflows nor exceeds max_size_bytes, whatever sequence of put,
\* get, remove and clear runs and whatever the clock does.
THEOREM TypeCorrect == Spec => []TypeOK
<1>1. IInv => TypeOK
  BY DEF IInv
<1> QED
  BY <1>1, InitContents, StepKeepsIInv, PTL DEF Spec

\* The map and its two lists never disagree, so no erase uses a dangling
\* iterator and no operator[] inserts an object behind put's back.
THEOREM IndexesAlwaysAgree == Spec => []IndexesAgree
<1>1. IInv => IndexesAgree
  BY DEF IInv
<1> QED
  BY <1>1, InitContents, StepKeepsIInv, PTL DEF Spec

\* m_current_size_bytes is always the number of bytes cached.
THEOREM SizeAlwaysAccurate == Spec => []SizeIsAccurate
<1>1. IInv => SizeIsAccurate
  BY DEF IInv
<1> QED
  BY <1>1, InitContents, StepKeepsIInv, PTL DEF Spec

-----------------------------------------------------------------------------
Expiry(k) == m_cache[k].m_expiry_time

\* What makes the insertion order an expiry order, and what the second loop
\* of put relies on: while the clock is not stepped back no object expires later than a TTL
\* from now, so a new front is never older than the rest.
OrderInv ==
    ~setBack =>
        /\ InsertionOrderIsExpiryOrder
        /\ \A k \in DOMAIN m_cache : Expiry(k) <= now + TtlSeconds
        /\ putting # NoPut => putting.begun <= now
        /\ putting # NoPut /\ ~putting.expiring /\ Full =>
              \A k \in DOMAIN m_cache : Expiry(k) > putting.begun

\* An empty insertion list is sorted.
LEMMA InitOrder == Init => OrderInv
BY DEF Init, OrderInv, InsertionOrderIsExpiryOrder, Expiry

\* Erasing an object keeps the insertion list sorted.
LEMMA RemoveKeepsOrder ==
    ASSUME ContentsInv, ~setBack, InsertionOrderIsExpiryOrder,
           NEW k \in DOMAIN m_cache, remove_helper(k)
    PROVE  InsertionOrderIsExpiryOrder'
<1>1. /\ DOMAIN m_cache' = DOMAIN m_cache \ {k}
      /\ \A x \in DOMAIN m_cache' : m_cache'[x] = m_cache[x]
      /\ ContentsInv'
  BY RemoveHelper, Zenon
<1>2. /\ m_insertion_list \in Seq(Keys) /\ IsInjective(m_insertion_list)
      /\ k \in Range(m_insertion_list)
  BY DEF ContentsInv, IndexesAgree
<1>3. m_insertion_list' = Erase(m_insertion_list, k)
  BY DEF remove_helper
<1>4. Range(m_insertion_list') = DOMAIN m_cache'
  BY <1>1 DEF ContentsInv, IndexesAgree
<1> SUFFICES ASSUME NEW i \in DOMAIN m_insertion_list', NEW j \in DOMAIN m_insertion_list', i < j
             PROVE  m_cache'[m_insertion_list'[j]].m_expiry_time
                      <= m_cache'[m_insertion_list'[i]].m_expiry_time
  BY DEF InsertionOrderIsExpiryOrder
<1>5. PICK a \in DOMAIN m_insertion_list, b \in DOMAIN m_insertion_list :
         /\ a < b
         /\ m_insertion_list[a] = m_insertion_list'[i]
         /\ m_insertion_list[b] = m_insertion_list'[j]
  BY <1>2, <1>3, EraseProperties
<1>6. m_insertion_list'[i] \in DOMAIN m_cache' /\ m_insertion_list'[j] \in DOMAIN m_cache'
  BY <1>4 DEF Range
<1>7. m_cache[m_insertion_list[b]].m_expiry_time <= m_cache[m_insertion_list[a]].m_expiry_time
  BY <1>5 DEF InsertionOrderIsExpiryOrder
<1> QED
  BY <1>1, <1>5, <1>6, <1>7

\* Every step keeps the order: only put inserts, and at the new end.
LEMMA StepKeepsOrder == IInv /\ OrderInv /\ [Next]_vars => OrderInv'
<1> SUFFICES ASSUME IInv, OrderInv, [Next]_vars, ~setBack' PROVE OrderInv'
  BY DEF OrderInv
<1> USE CacheConstants
<1>m. ~setBack
  BY StepSetBack
<1> USE <1>m
<1>0. ContentsInv /\ putting \in Puts \cup {NoPut} /\ now \in Int /\ PutFits
  BY DEF IInv, TypeOK, ContentsInv
<1>s. InsertionOrderIsExpiryOrder
  BY DEF OrderInv
<1>x. \A k \in DOMAIN m_cache : Expiry(k) \in Int /\ Expiry(k) <= now + TtlSeconds
  BY <1>0 DEF OrderInv, Expiry, ContentsInv, NvCacheObject
<1>p. putting # NoPut => putting \in Puts /\ putting.begun \in Int /\ putting.begun <= now
                         /\ putting.size \in Nat
  BY <1>0, Zenon DEF OrderInv, Puts
<1>v. putting # NoPut /\ ~putting.expiring /\ Full =>
         \A k \in DOMAIN m_cache : Expiry(k) > putting.begun
  BY DEF OrderInv
<1>b. ASSUME UNCHANGED <<m_cache, m_insertion_list>> PROVE InsertionOrderIsExpiryOrder'
  BY <1>b, <1>s DEF InsertionOrderIsExpiryOrder
\* Steps that erase an object and keep the clock and the put in progress.
<1>e. ASSUME NEW k \in DOMAIN m_cache, remove_helper(k), UNCHANGED <<putting, now>>
      PROVE  OrderInv'
  <2>1. InsertionOrderIsExpiryOrder'
    BY <1>0, <1>e, <1>s, RemoveKeepsOrder
  <2>2. /\ DOMAIN m_cache' \subseteq DOMAIN m_cache
        /\ \A x \in DOMAIN m_cache' : Expiry(x)' = Expiry(x)
    BY <1>0, <1>e, RemoveHelper, Zenon DEF Expiry
  <2>3. putting # NoPut /\ Full' => Full
    <3>1. m_cache[k].m_size_bytes \in Nat /\ m_current_size_bytes \in Nat
      BY <1>0 DEF ContentsInv, NvCacheObject
    <3> QED
      BY <1>e, <1>p, <3>1 DEF Full, remove_helper
  <2> QED
    BY <1>e, <1>p, <1>v, <1>x, <2>1, <2>2, <2>3 DEF OrderInv
<1>1. ASSUME NEW k \in Keys, Get(k) PROVE OrderInv'
  BY <1>1, <1>b, <1>p, <1>v, <1>x DEF Get, OrderInv, Expiry, Full
<1>2. ASSUME NEW k \in Keys, RemoveKey(k) PROVE OrderInv'
  BY <1>2, <1>e DEF RemoveKey
<1>3. ASSUME NEW k \in Keys, NEW s \in Sizes, PutTooLarge(k, s) PROVE OrderInv'
  BY <1>3, <1>b, <1>p, <1>v, <1>x DEF PutTooLarge, contents, OrderInv, Expiry, Full
<1>4. ASSUME NEW k \in Keys, NEW v \in Values, NEW s \in Sizes, PutLock(k, v, s)
      PROVE  OrderInv'
  <2>1. putting'.begun = now /\ putting'.expiring /\ now' = now
    BY <1>4 DEF PutLock
  <2>2. /\ InsertionOrderIsExpiryOrder'
        /\ DOMAIN m_cache' \subseteq DOMAIN m_cache
        /\ \A x \in DOMAIN m_cache' : Expiry(x)' = Expiry(x)
    <3>1. CASE k \in DOMAIN m_cache
      BY <1>0, <1>4, <1>s, <3>1, RemoveHelper, RemoveKeepsOrder, Zenon DEF PutLock, Expiry
    <3>2. CASE k \notin DOMAIN m_cache
      BY <1>4, <1>b, <3>2 DEF PutLock, contents, Expiry
    <3> QED
      BY <3>1, <3>2
  <2> QED
    BY <1>0, <1>x, <2>1, <2>2 DEF OrderInv
<1>5. CASE EvictExpired
  <2>1. back(m_insertion_list) \in DOMAIN m_cache
    BY <1>0, <1>5 DEF EvictExpired, ContentsInv, IndexesAgree, Range, back
  <2> QED
    BY <1>5, <1>e, <2>1 DEF EvictExpired
<1>6. CASE StopExpiring
  <2>1. /\ putting # NoPut /\ putting'.begun = putting.begun /\ putting'.size = putting.size
        /\ UNCHANGED <<m_cache, m_insertion_list, m_current_size_bytes, now>>
    BY <1>6, <1>p DEF StopExpiring, Unlocked, contents, Puts
  <2>2. ASSUME Full, NEW k \in DOMAIN m_cache PROVE Expiry(k) > putting.begun
    <3> DEFINE n == Len(m_insertion_list)
    <3>1. PICK i \in DOMAIN m_insertion_list : m_insertion_list[i] = k
      BY <1>0 DEF ContentsInv, IndexesAgree, Range
    <3>2. n \in Nat /\ DOMAIN m_insertion_list = 1..n /\ i <= n /\ n >= 1
      BY <1>0, <3>1 DEF ContentsInv
    <3>3. m_insertion_list # <<>>
      BY <3>2
    <3>4. m_insertion_list[n] \in DOMAIN m_cache
      BY <1>0, <3>2 DEF ContentsInv, IndexesAgree, Range
    <3>5. ~(Expiry(m_insertion_list[n]) <= now)
      BY <1>6, <2>2, <3>3 DEF StopExpiring, OldestExpired, back, Expiry
    <3>6. Expiry(m_insertion_list[n]) <= Expiry(k)
      <4>1. CASE i = n
        BY <1>x, <3>1, <4>1
      <4>2. CASE i < n
        BY <1>s, <3>1, <3>2, <4>2 DEF InsertionOrderIsExpiryOrder, Expiry
      <4> QED
        BY <3>2, <4>1, <4>2
    <3> HIDE DEF n
    <3> QED
      BY <1>0, <1>p, <1>x, <2>1, <3>4, <3>5, <3>6
  <2>3. Full' <=> Full
    BY <2>1 DEF Full
  <2> QED
    BY <1>b, <1>p, <1>x, <2>1, <2>2, <2>3 DEF OrderInv, Expiry
<1>7. CASE EvictLru
  <2>1. back(m_lru_list) \in DOMAIN m_cache
    BY <1>0, <1>7 DEF EvictLru, ContentsInv, IndexesAgree, Range, back
  <2> QED
    BY <1>7, <1>e, <2>1 DEF EvictLru
<1>8. CASE PutInsert
  <2>k. PICK k : k = putting.key
    OBVIOUS
  <2> DEFINE l == m_insertion_list
             due(x) == m_cache'[x].m_expiry_time
  <2>1. k \in Keys /\ k \notin DOMAIN m_cache
    BY <1>0, <1>8, <1>p, <2>k DEF PutInsert, Unlocked, PutFits, Puts
  <2>2. /\ DOMAIN m_cache' = DOMAIN m_cache \cup {k} /\ now' = now /\ putting' = NoPut
        /\ \A x \in DOMAIN m_cache : due(x) = Expiry(x)
        /\ due(k) = now + TtlSeconds
    BY <1>8, <2>k, <2>1 DEF PutInsert, Expiry
  <2>3. l \in Seq(Keys) /\ IsInjective(l) /\ Range(l) = DOMAIN m_cache
    BY <1>0 DEF ContentsInv, IndexesAgree
  <2>4. /\ \A i \in DOMAIN l' : l'[i] = IF i = 1 THEN k ELSE l[i - 1]
        /\ DOMAIN l' = 1..(Len(l) + 1) /\ DOMAIN l = 1..Len(l) /\ Len(l) \in Nat
    BY <1>8, <2>k, <2>1, <2>3, PushFrontProperties DEF PutInsert
  <2>5. InsertionOrderIsExpiryOrder'
    <3> SUFFICES ASSUME NEW i \in DOMAIN l', NEW j \in DOMAIN l', i < j
                 PROVE  due(l'[j]) <= due(l'[i])
      BY DEF InsertionOrderIsExpiryOrder
    <3>1. j - 1 \in DOMAIN l /\ l'[j] = l[j - 1]
      BY <2>4
    <3>2. l[j - 1] \in DOMAIN m_cache
      BY <2>3, <3>1 DEF Range
    <3>3. due(l'[j]) = Expiry(l[j - 1])
      BY <2>2, <3>1, <3>2
    <3>4. CASE i = 1
      <4>1. due(l'[i]) = now + TtlSeconds
        BY <2>2, <2>4, <3>4
      <4> QED
        BY <1>x, <3>2, <3>3, <4>1
    <3>5. CASE i # 1
      <4>1. i - 1 \in DOMAIN l /\ l'[i] = l[i - 1] /\ i - 1 < j - 1
        BY <2>4, <3>5
      <4>2. l[i - 1] \in DOMAIN m_cache
        BY <2>3, <4>1 DEF Range
      <4>3. due(l'[i]) = Expiry(l[i - 1])
        BY <2>2, <4>1, <4>2
      <4>4. Expiry(l[j - 1]) <= Expiry(l[i - 1])
        BY <1>s, <3>1, <4>1 DEF InsertionOrderIsExpiryOrder, Expiry
      <4> QED
        BY <3>3, <4>3, <4>4
    <3> QED
      BY <3>4, <3>5
  <2>6. \A x \in DOMAIN m_cache' : due(x) <= now + TtlSeconds
    BY <1>0, <1>x, <2>2
  <2> QED
    BY <2>2, <2>5, <2>6 DEF OrderInv, Expiry
<1>9. CASE Clear
  BY <1>9 DEF Clear, Unlocked, OrderInv, InsertionOrderIsExpiryOrder
<1>10. CASE Tick
  BY <1>0, <1>10, <1>b, <1>p, <1>v, <1>x DEF Tick, contents, OrderInv, Expiry, Full
<1>11. CASE ClockSetBack
  BY <1>11 DEF ClockSetBack
<1>12. CASE UNCHANGED vars
  BY <1>12, <1>b, <1>p, <1>v, <1>x DEF vars, OrderInv, Expiry, Full
<1> QED
  BY <1>1, <1>2, <1>3, <1>4, <1>5, <1>6, <1>7, <1>8, <1>9, <1>10, <1>11, <1>12, ZenonT(30) DEF Next

\* Until the clock is stepped back the insertion list is always sorted by expiry, so
\* the first loop of put may stop at the first live object.
THEOREM InsertionAlwaysSorted == Spec => []InsertionOrderIsExpiryOrder
<1>1. OrderInv => InsertionOrderIsExpiryOrder
  BY DEF OrderInv, InsertionOrderIsExpiryOrder
<1> QED
  BY <1>1, InitContents, InitOrder, StepKeepsIInv, StepKeepsOrder, PTL DEF Spec

\* put evicts a live object only when everything that had expired when it
\* took the lock is gone.
THEOREM LiveEvictedLast == Spec => NoLiveVictimBeforeExpired
<1>1. IInv /\ OrderInv /\ ~setBack /\ EvictLru =>
         \A k \in DOMAIN m_cache : m_cache[k].m_expiry_time > putting.begun
  BY DEF OrderInv, EvictLru, Unlocked, Expiry
<1>2. IInv /\ OrderInv /\ [Next]_vars =>
         [~setBack /\ EvictLru =>
             \A k \in DOMAIN m_cache : m_cache[k].m_expiry_time > putting.begun]_vars
  BY <1>1
<1> QED
  BY <1>2, InitContents, InitOrder, StepKeepsIInv, StepKeepsOrder, PTL
     DEF Spec, NoLiveVictimBeforeExpired

-----------------------------------------------------------------------------
\* An erased object is a lost entry of the abstract map.
LEMMA RemoveLoses ==
    ASSUME ContentsInv, NEW k \in DOMAIN m_cache, remove_helper(k), UNCHANGED <<reply, now>>
    PROVE  Map!Lose
<1>1. /\ DOMAIN m_cache' = DOMAIN m_cache \ {k}
      /\ \A x \in DOMAIN m_cache' : m_cache'[x] = m_cache[x]
  BY RemoveHelper, ZenonT(30)
<1>2. Seen' = Restrict(Seen, DOMAIN Seen \ {k})
  BY <1>1 DEF Seen, Restrict
<1> QED
  BY <1>2 DEF Map!Lose, Map!Restrict, Restrict

\* NvCache implements TtlMap: every step is a step of the forgetful map or
\* leaves it unchanged.
THEOREM RefinesTtlMap == Spec => ImplementsTtlMap
<1>1. Init => Map!MapInit
  BY DEF Init, Map!MapInit, Seen
<1>2. IInv /\ [Next]_vars => [Map!MapNext]_(Map!mapVars)
  <2> SUFFICES ASSUME IInv, [Next]_vars
               PROVE  Map!MapNext \/ UNCHANGED Map!mapVars
    OBVIOUS
  <2>0. ContentsInv /\ putting \in Puts \cup {NoPut} /\ now \in Int /\ PutFits
    BY DEF IInv, TypeOK, ContentsInv
  <2>b. ASSUME UNCHANGED <<m_cache, reply, now>> PROVE UNCHANGED Map!mapVars
    BY <2>b DEF Map!mapVars, Seen
  <2>1. ASSUME NEW k \in Keys, Get(k) PROVE Map!Lookup(k)
    BY <2>1 DEF Get, Map!Lookup, Map!Live, Map!GetHit, Map!GetMiss, Seen
  <2>2. ASSUME NEW k \in Keys, RemoveKey(k) PROVE Map!Lose
    BY <2>0, <2>2, RemoveLoses DEF RemoveKey
  <2>3. ASSUME NEW k \in Keys, NEW s \in Sizes, PutTooLarge(k, s) PROVE Map!Refuse(k)
    BY <2>3 DEF PutTooLarge, Map!Refuse, contents, Seen
  <2>4. ASSUME NEW k \in Keys, NEW v \in Values, NEW s \in Sizes, PutLock(k, v, s)
        PROVE  Map!Lose \/ UNCHANGED Map!mapVars
    BY <2>0, <2>4, <2>b, RemoveLoses DEF PutLock, contents
  <2>5. CASE EvictExpired
    <3>1. back(m_insertion_list) \in DOMAIN m_cache
      BY <2>0, <2>5 DEF EvictExpired, ContentsInv, IndexesAgree, Range, back
    <3> QED
      BY <2>0, <2>5, <3>1, RemoveLoses DEF EvictExpired, Map!MapNext
  <2>6. CASE StopExpiring
    BY <2>6, <2>b DEF StopExpiring, contents
  <2>7. CASE EvictLru
    <3>1. back(m_lru_list) \in DOMAIN m_cache
      BY <2>0, <2>7 DEF EvictLru, ContentsInv, IndexesAgree, Range, back
    <3> QED
      BY <2>0, <2>7, <3>1, RemoveLoses DEF EvictLru, Map!MapNext
  <2>8. CASE PutInsert
    <3>1. putting.key \in Keys /\ putting.value \in Values /\ putting.key \notin DOMAIN m_cache
      BY <2>0, <2>8 DEF PutInsert, Unlocked, PutFits, Puts
    <3>2. Map!Store(putting.key, putting.value)
      <4>1. DOMAIN Seen = DOMAIN m_cache
        BY DEF Seen
      <4>2. Seen' = [x \in DOMAIN Seen \cup {putting.key} |->
                       IF x = putting.key
                       THEN [value |-> putting.value, expiry |-> now + TtlSeconds]
                       ELSE Seen[x]]
        BY <2>8, <3>1 DEF PutInsert, Seen
      <4>3. DOMAIN Seen \in SUBSET (DOMAIN Seen \ {putting.key})
        BY <3>1, <4>1
      <4> QED
        BY <2>8, <4>1, <4>2, <4>3, Zenon DEF PutInsert, Map!Store, Map!PutReply
    <3>3. \E k \in Keys, v \in Values : Map!Store(k, v)
      BY <3>1, <3>2, Zenon
    <3> QED
      BY <3>3, Zenon DEF Map!MapNext
  <2>9. CASE Clear
    <3>1. Seen' = Restrict(Seen, {})
      BY <2>9 DEF Clear, Seen, Restrict
    <3> QED
      BY <2>9, <3>1 DEF Clear, Map!MapNext, Map!Lose, Map!Restrict, Restrict
  <2>10. CASE Tick \/ ClockSetBack
    BY <2>0, <2>10 DEF Tick, ClockSetBack, contents, Map!MapNext, Map!Clock, Seen
  <2>11. CASE UNCHANGED vars
    BY <2>11, <2>b DEF vars
  <2> QED
    BY <2>1, <2>2, <2>3, <2>4, <2>5, <2>6, <2>7, <2>8, <2>9, <2>10, <2>11
       DEF Next, Map!MapNext
<1> QED
  BY <1>1, <1>2, InitContents, StepKeepsIInv, PTL DEF Spec, ImplementsTtlMap, Map!MapSpec

=============================================================================
