-------------------------------- MODULE LruCache --------------------------------
(***************************************************************************)
(* lru-cache.ts.  A cache is the Map as the sequence of its entries in     *)
(* insertion order, the least recently used one first.  The H3 cache sets  *)
(* no TTL, so entries do not expire and cleanup finds nothing.             *)
(***************************************************************************)
EXTENDS SequencesExt

CONSTANT MaxSize

ASSUME LruCacheAssumption == MaxSize \in Nat \ {0}

Entry(key, value) == [key |-> key, value |-> value]

KeysOf(cache) == [i \in DOMAIN cache |-> cache[i].key]

Has(cache, key) == \E i \in DOMAIN cache : cache[i].key = key

PlaceOf(cache, key) == CHOOSE i \in DOMAIN cache : cache[i].key = key

ValueAt(cache, key) == cache[PlaceOf(cache, key)].value

\* The cache after delete.
Without(cache, key) ==
  IF Has(cache, key) THEN RemoveAt(cache, PlaceOf(cache, key)) ELSE cache

\* get leaves the entry where it is.
GetInPlace(cache, key) == cache

\* The cache after get has found key.
Get(cache, key) == Append(Without(cache, key), Entry(key, ValueAt(cache, key)))

\* The cache after set.
Set(cache, key, value) ==
  LET others == Without(cache, key)
      kept   == IF Len(others) >= MaxSize THEN Tail(others) ELSE others
  IN  Append(kept, Entry(key, value))
=============================================================================
