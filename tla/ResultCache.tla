----------------------------- MODULE ResultCache -----------------------------
(***************************************************************************)
(* goal_strategy/adapter.py and config.py: what a call of _profile_obj     *)
(* reads and fills while other hosts do the same in other threads: the     *)
(* parsed cards (load_configs), the map of aliases built from them, and    *)
(* the results, an LRU under a lock that is not held during a computation. *)
(* The cards on disk have versions; whoever edits them clears the caches.  *)
(*                                                                         *)
(* One card stands for all, and a program, a playground or an outcome is a *)
(* member of a small set.  A result is known by what it was computed from: *)
(* its key, and the versions of the cards that were read for it.           *)
(***************************************************************************)
EXTENDS Integers, SequencesExt

CONSTANTS
    Hosts,           \* threads that profile runs
    Supported,       \* playgrounds that have a card
    Unprofilable,    \* programs the engine raises on
    Malformed,       \* versions of the cards that raise ConfigError
    ResultCacheMax   \* _RESULT_CACHE_MAX

ASSUME CacheAssumption == ResultCacheMax \in Nat \ {0}

VARIABLES
    disk,       \* version of the cards on disk
    cards,      \* version in the cache of load_configs
    aliases,    \* version the cached map of aliases was built from
    results,    \* _RESULT_CACHE, the oldest entry first
    call,       \* what each host's call has come to
    toClear,    \* the _CACHE_CLEARERS that a running cache_clear() has still to call
    settled,    \* history: disk as the last finished cache_clear() began
    began,      \* history: disk as the last cache_clear() began
    overlapped  \* history: some call was under way during the last cache_clear()

cacheVars == <<disk, cards, aliases, results, call, toClear, settled, began, overlapped>>

NotCached == 0
Idle == [at |-> "idle"]

\* The cards may have been read before: in an earlier session of this process.
CacheInit ==
    /\ disk = 1
    /\ cards \in {NotCached, disk} /\ aliases = cards
    /\ results = <<>>
    /\ call = [h \in Hosts |-> Idle]
    /\ toClear = <<>>
    /\ settled = 1 /\ began = 1
    /\ overlapped = FALSE

At(h, where) == call[h].at = where

\* What _compute_result makes of a run: an engine defect is a status, not an exception.
Status(key) == IF key.playground \notin Supported THEN "unsupported_playground"
               ELSE IF key.xml \in Unprofilable THEN "engine_error" ELSE "profiled"

-----------------------------------------------------------------------------
\* A call enters _profile_obj; `after` is the version it may not fall behind.
BeginCall(h, key, id) ==
    /\ call[h] = Idle
    /\ call' = [call EXCEPT ![h] = [at |-> "resolve", purpose |-> "params", key |-> key,
                                    id |-> id, used |-> {}, read |-> NotCached,
                                    after |-> settled]]
    /\ overlapped' = (overlapped \/ toClear # <<>>)
    /\ UNCHANGED <<disk, cards, aliases, results, toClear, settled, began>>

\* Version v was read for this purpose: for the aliases before the key is known, for them
\* again by _compute_result, or for the cards.
Read(h, v) ==
    [call[h] EXCEPT !.used = @ \cup {v},
       !.at = CASE call[h].purpose = "params" -> "lookup"
                [] call[h].purpose = "canonical" ->
                      IF call[h].key.playground \in Supported THEN "load" ELSE "store"
                [] call[h].purpose = "cards" -> "computed",
       !.purpose = IF @ = "canonical" THEN "cards" ELSE @]

\* _canonical_playground: the map of aliases, from its cache or from the cards.
FindAliases(h) ==
    /\ At(h, "resolve")
    /\ call' = [call EXCEPT ![h] = IF aliases # NotCached THEN Read(h, aliases)
                                   ELSE [@ EXCEPT !.at = "load"]]
    /\ UNCHANGED <<disk, cards, aliases, results, toClear, settled, began, overlapped>>

\* _load_configs: from the cache, ...
CardsCached(h) ==
    /\ At(h, "load") /\ cards # NotCached
    /\ call' = [call EXCEPT ![h].read = cards, ![h].at = "loaded"]
\* ... or from disk, to be kept a moment later, ...
CardsFromDisk(h) ==
    /\ At(h, "load") /\ cards = NotCached /\ disk \notin Malformed
    /\ call' = [call EXCEPT ![h].read = disk, ![h].at = "keep"]
\* ... or a ConfigError leaves the call.
CardsMalformed(h) ==
    /\ At(h, "load") /\ cards = NotCached /\ disk \in Malformed
    /\ call' = [call EXCEPT ![h].at = "raised"]
LoadCards(h) ==
    /\ CardsCached(h) \/ CardsFromDisk(h) \/ CardsMalformed(h)
    /\ UNCHANGED <<disk, cards, aliases, results, toClear, settled, began, overlapped>>

\* functools.lru_cache keeps what was computed, unless another thread was faster.
KeepCards(h) ==
    /\ At(h, "keep")
    /\ cards' = IF cards = NotCached THEN call[h].read ELSE cards
    /\ call' = [call EXCEPT ![h].at = "loaded"]
    /\ UNCHANGED <<disk, aliases, results, toClear, settled, began, overlapped>>

UseCards(h) ==
    /\ At(h, "loaded")
    /\ aliases' = IF call[h].purpose # "cards" /\ aliases = NotCached THEN call[h].read
                  ELSE aliases
    /\ call' = [call EXCEPT ![h] = Read(h, call[h].read)]
    /\ UNCHANGED <<disk, cards, results, toClear, settled, began, overlapped>>

\* A computation may load the cards more than once; it matters when it reads others.
LoadAgain(h) ==
    /\ At(h, "computed")
    /\ (IF cards = NotCached THEN disk ELSE cards) \notin call[h].used
    /\ call' = [call EXCEPT ![h].at = "load"]
    /\ UNCHANGED <<disk, cards, aliases, results, toClear, settled, began, overlapped>>

-----------------------------------------------------------------------------
\* Mutant: the outcome is not part of the key.
KeyWithoutParams(h) == [xml |-> call[h].key.xml, playground |-> call[h].key.playground]
\* _result_cache_key
CacheKey(h) == call[h].key

Cached(h) == {i \in DOMAIN results : results[i].key = CacheKey(h)}

\* _restamp_program_id
Restamped(result, h) == [result EXCEPT !.id = call[h].id]

\* _result, under the lock: a hit is moved to the end and answered, a miss computes.
LookUp(h) ==
    /\ At(h, "lookup")
    /\ IF Cached(h) = {}
       THEN /\ call' = [call EXCEPT ![h].at = "resolve", ![h].purpose = "canonical"]
            /\ UNCHANGED results
       ELSE \E i \in Cached(h) :
            /\ results' = Append(RemoveAt(results, i), results[i])
            /\ call' = [call EXCEPT ![h] =
                 [at |-> "answered", after |-> @.after,
                  result |-> [Restamped(results[i].result, h) EXCEPT !.used = @ \cup call[h].used]]]
    /\ UNCHANGED <<disk, cards, aliases, toClear, settled, began, overlapped>>

\* The entry keeps its place when another host has stored the same key meanwhile.
Kept(result, h) ==
    LET entry == [key |-> CacheKey(h), result |-> result]
        all   == IF Cached(h) = {} THEN Append(results, entry)
                 ELSE [i \in DOMAIN results |-> IF i \in Cached(h) THEN entry ELSE results[i]]
    IN  IF Len(all) > ResultCacheMax THEN Tail(all) ELSE all

\* The rest of _compute_result, and the store under the lock.
Store(h) ==
    LET result == [key |-> call[h].key, id |-> call[h].id, status |-> Status(call[h].key),
                   used |-> call[h].used]
    IN  /\ At(h, "store") \/ At(h, "computed")
        /\ results' = Kept(result, h)
        /\ call' = [call EXCEPT ![h] = [at |-> "answered", after |-> @.after, result |-> result]]
        /\ UNCHANGED <<disk, cards, aliases, toClear, settled, began, overlapped>>

CallStep(h) == FindAliases(h) \/ LoadCards(h) \/ KeepCards(h) \/ UseCards(h)
               \/ LoadAgain(h) \/ LookUp(h) \/ Store(h)

-----------------------------------------------------------------------------
EditCards ==
    /\ disk' = disk + 1
    /\ UNCHANGED <<cards, aliases, results, call, toClear, settled, began, overlapped>>

\* Mutant: the result cache is not registered.
ResultsNotRegistered == <<"cards", "aliases">>
\* _CACHE_CLEARERS, in the order of the imports.
Clearers == <<"cards", "aliases", "results">>

\* load_configs.cache_clear(): one cache after another.
BeginClear ==
    /\ toClear = <<>>
    /\ toClear' = Clearers
    /\ began' = disk
    /\ overlapped' = (\E h \in Hosts : call[h] # Idle)
    /\ UNCHANGED <<disk, cards, aliases, results, call, settled>>

ClearNext ==
    /\ toClear # <<>>
    /\ toClear' = Tail(toClear)
    /\ cards' = IF Head(toClear) = "cards" THEN NotCached ELSE cards
    /\ aliases' = IF Head(toClear) = "aliases" THEN NotCached ELSE aliases
    /\ results' = IF Head(toClear) = "results" THEN <<>> ELSE results
    /\ settled' = IF toClear' = <<>> THEN began ELSE settled
    /\ UNCHANGED <<disk, call, began, overlapped>>

-----------------------------------------------------------------------------
Answered(h) == At(h, "answered")

\* "in-place card edits stay honest" (adapter.py), "one cache_clear() call stays coherent
\* after external cards are edited" (config.py): once cache_clear() has returned, no call
\* that starts is answered from cards older than those on disk as it began.  A call that is
\* under way during the clear breaks this: it stores what it computed after it.
EditsStayHonest ==
    \A h \in Hosts : Answered(h) => \A v \in call[h].result.used : v >= call[h].after

\* What the code does keep: a cache_clear() during which no call is under way leaves
\* nothing old behind in any of the caches, and one such clear heals them all.
QuietClearIsHonest ==
    toClear = <<>> /\ ~overlapped =>
        /\ {cards, aliases} \subseteq {NotCached} \cup settled..disk
        /\ \A i \in DOMAIN results : results[i].result.used \subseteq settled..disk
        /\ EditsStayHonest
=============================================================================
