----------------------------- MODULE QueryCache -----------------------------
(***************************************************************************)
(* atlas_query_cache.py, the SQLite table in which batch runs keep what    *)
(* Atlas answered. Threads and processes share it without a lock of their  *)
(* own: get() is a SELECT and an UPDATE, set() replaces the whole row.     *)
(***************************************************************************)
EXTENDS Naturals

VARIABLE
    cache    \* cache[k]: the row of key k, for every key that has one

Keys == DOMAIN cache
Entry(answer, hits) == [answer |-> answer, hits |-> hits]

CacheInit == cache = <<>>

\* The SELECT of get().
Cached(k) == k \in Keys

\* The UPDATE of get(): nothing, when the row has gone since.
CountHit(k) ==
    cache' = IF Cached(k) THEN [cache EXCEPT ![k].hits = @ + 1] ELSE cache

\* set(): INSERT OR REPLACE, with no hits yet.
Store(k, answer) ==
    cache' = [x \in Keys \cup {k} |->
                 IF x = k THEN Entry(answer, 0) ELSE cache[x]]

\* truncate().
Truncate == cache' = <<>>
=============================================================================
