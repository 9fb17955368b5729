--------------------------- MODULE DnsCacheProofs ---------------------------
(***************************************************************************)
(* cache_evict_loop runs between queries of which some are waiting for an   *)
(* answer.  It may free memory and must not be seen otherwise.              *)
(***************************************************************************)
EXTENDS DnsCache, TLAPS

(* What is stale has been so since before now, and stays so. *)
LEMMA StaleForGood ==
  ASSUME Ttl \in Int, NEW cache \in Caches, NEW now \in Int, NEW later \in Int,
         now <= later, NEW key \in Stale(cache, now)
  PROVE  ~(later - cache[key].ts < Ttl)
<1>1. key \in DOMAIN cache /\ now - cache[key].ts >= Ttl
  BY DEF Stale
<1>2. cache[key] \in Entry
  BY <1>1 DEF Caches
<1>3. cache[key].ts \in Int
  BY <1>2 DEF Entry
<1>4. QED
  BY <1>1, <1>3

(* Eviction is invisible: as long as the clock does not go back, every get() *)
(* after evict_expired() returns what it would have returned without it,     *)
(* also for an answer that set() stored in between.                          *)
THEOREM EvictionUnseen ==
  ASSUME Ttl \in Int, NEW cache \in Caches, NEW now \in Int, NEW later \in Int,
         now <= later, NEW key \in Keys, NEW k \in Keys, NEW answer \in Answers
  PROVE  /\ Get(EvictExpired(cache, now), key, later) = Get(cache, key, later)
         /\ Get(Set(EvictExpired(cache, now), k, answer, later), key, later)
              = Get(Set(cache, k, answer, later), key, later)
<1> DEFINE left == EvictExpired(cache, now)
<1>1. DOMAIN left = DOMAIN cache \ Stale(cache, now)
  BY DEF EvictExpired
<1>2. \A j \in DOMAIN left : left[j] = cache[j]
  BY DEF EvictExpired
<1>3. \A j \in DOMAIN cache \ DOMAIN left : ~(later - cache[j].ts < Ttl)
  BY <1>1, StaleForGood
<1> HIDE DEF left
<1>4. Get(left, key, later) = Get(cache, key, later)
  <2>1. CASE key \in DOMAIN left
    BY <2>1, <1>1, <1>2 DEF Get
  <2>2. CASE key \in DOMAIN cache \ DOMAIN left
    BY <2>2, <1>3 DEF Get
  <2>3. CASE key \notin DOMAIN cache
    BY <2>3, <1>1 DEF Get
  <2>4. QED
    BY <2>1, <2>2, <2>3
<1>5. Get(Set(left, k, answer, later), key, later) = Get(Set(cache, k, answer, later), key, later)
  <2>1. CASE key = k
    BY <2>1 DEF Get, Set
  <2>2. CASE key # k
    BY <2>2, <1>4 DEF Get, Set
  <2>3. QED
    BY <2>1, <2>2
<1>6. QED
  BY <1>4, <1>5 DEF left

(* And it is complete: whatever evict_expired() leaves, get() still serves   *)
(* at that moment, so the two comparisons with the ttl leave no gap.         *)
THEOREM EvictionComplete ==
  ASSUME Ttl \in Int, NEW cache \in Caches, NEW now \in Int,
         NEW key \in DOMAIN EvictExpired(cache, now)
  PROVE  Get(cache, key, now) = cache[key].data
<1>1. key \in DOMAIN cache /\ ~(now - cache[key].ts >= Ttl)
  BY DEF EvictExpired, Stale
<1>2. cache[key] \in Entry
  BY <1>1 DEF Caches
<1>3. cache[key].ts \in Int
  BY <1>2 DEF Entry
<1>4. QED
  BY <1>1, <1>3 DEF Get
=============================================================================
