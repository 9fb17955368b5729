------------------------------ MODULE DnsCache ------------------------------
(***************************************************************************)
(* The cache of the DNS proxy (class DnsCache of src/dns/resolver.py), as   *)
(* operators on its value: a function from the keys it has an entry for.    *)
(* A moment is what time.time() returns.                                    *)
(***************************************************************************)
EXTENDS Integers

CONSTANTS
  Keys,     \* a name and a type, as dns_cache_key joins them
  Answers,  \* answers from upstream
  None,
  Ttl       \* DNS_CACHE_TTL

Entry == [data : Answers, ts : Int]
Caches == UNION {[K -> Entry] : K \in SUBSET Keys}

Get(cache, key, now) ==
  IF key \in DOMAIN cache /\ now - cache[key].ts < Ttl THEN cache[key].data ELSE None

Set(cache, key, answer, now) ==
  [k \in DOMAIN cache \cup {key} |->
     IF k = key THEN [data |-> answer, ts |-> now] ELSE cache[k]]

Stale(cache, now) == {k \in DOMAIN cache : now - cache[k].ts >= Ttl}

EvictExpired(cache, now) == [k \in DOMAIN cache \ Stale(cache, now) |-> cache[k]]
=============================================================================
