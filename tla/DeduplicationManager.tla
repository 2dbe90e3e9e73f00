------------------------ MODULE DeduplicationManager ------------------------
(***************************************************************************)
(* core/streaming/reliability/deduplication_manager.py: the two-level      *)
(* memory of processed events of one service, a Redis key per event with a *)
(* TTL, and a bounded in-process set in front of it that has no TTL.       *)
(*                                                                         *)
(* Key stands for the cache key "<broker>:<event_id>".  The consumption    *)
(* loops of a service share one manager; every action below is one stretch *)
(* of code between two awaits, so loops interleave exactly at the actions. *)
(***************************************************************************)
EXTENDS Integers, FiniteSets

CONSTANTS
    Key,       \* the cache keys events may carry
    CacheMax   \* _cache_max_size

\* The code fixes _cache_max_size at 1000; below 4 the eviction would remove nothing.
ASSUME CacheAssumption == CacheMax \in Nat /\ CacheMax >= 4

VARIABLES
    local_cache,   \* _local_cache, lost when the process ends
    redis_keys,    \* the keys Redis holds and has not expired
    marked         \* history: keys that setex has written at least once

dedup_vars == <<local_cache, redis_keys, marked>>

DedupInit ==
    /\ local_cache = {}
    /\ redis_keys = {}
    /\ marked = {}

-----------------------------------------------------------------------------

(***************************************************************************)
(* _add_to_local_cache: a full cache first pops a quarter of its capacity. *)
(* set.pop removes an arbitrary element, so any subset of that size may go.*)
(***************************************************************************)
Evictable(cache) ==
    IF Cardinality(cache) >= CacheMax
    THEN {gone \in SUBSET cache : Cardinality(gone) = CacheMax \div 4}
    ELSE {{}}

AddToLocalCache(key) ==
    \E gone \in Evictable(local_cache) : local_cache' = (local_cache \ gone) \cup {key}

\* is_duplicate answers True from the in-process set.
FoundLocally(key) ==
    /\ key \in local_cache
    /\ UNCHANGED dedup_vars

\* is_duplicate answers True from Redis and remembers the key locally.
FoundInRedis(key) ==
    /\ key \notin local_cache
    /\ key \in redis_keys
    /\ AddToLocalCache(key)
    /\ UNCHANGED <<redis_keys, marked>>

\* is_duplicate answers False.
NotFound(key) ==
    /\ key \notin local_cache
    /\ key \notin redis_keys
    /\ UNCHANGED dedup_vars

\* mark_processed: setex, then the local set.
MarkProcessed(key) ==
    /\ redis_keys' = redis_keys \cup {key}
    /\ marked' = marked \cup {key}
    /\ AddToLocalCache(key)

\* mark_processed raised, and Redis has nevertheless applied the setex.
MarkProcessedUnacknowledged(key) ==
    /\ redis_keys' = redis_keys \cup {key}
    /\ marked' = marked \cup {key}
    /\ UNCHANGED local_cache

\* The TTL of a Redis key runs out.
Expire(key) ==
    /\ key \in redis_keys
    /\ redis_keys' = redis_keys \ {key}
    /\ UNCHANGED <<local_cache, marked>>

\* The process ends: a new manager starts with an empty local set.
ForgetLocal ==
    /\ local_cache' = {}
    /\ UNCHANGED <<redis_keys, marked>>

DedupNext ==
    \/ \E key \in Key :
        \/ FoundLocally(key)
        \/ FoundInRedis(key)
        \/ NotFound(key)
        \/ MarkProcessed(key)
        \/ MarkProcessedUnacknowledged(key)
        \/ Expire(key)
    \/ ForgetLocal

DedupSpec == DedupInit /\ [][DedupNext]_dedup_vars

-----------------------------------------------------------------------------

\* Type invariant of the manager's state.
DedupTypeOK ==
    /\ local_cache \in SUBSET Key
    /\ IsFiniteSet(local_cache)
    /\ redis_keys \in SUBSET Key
    /\ marked \in SUBSET Key

(***************************************************************************)
(* The in-process set never outgrows _cache_max_size, however the keys of  *)
(* hits, misses and marks follow each other (_add_to_local_cache).         *)
(***************************************************************************)
CacheBounded == Cardinality(local_cache) <= CacheMax

(***************************************************************************)
(* is_duplicate is sound: whatever level would answer True for a key, some *)
(* mark_processed wrote that key before.  A false positive would drop an   *)
(* event that nobody processed.                                            *)
(***************************************************************************)
DuplicateWasMarked == local_cache \cup redis_keys \subseteq marked

=============================================================================
