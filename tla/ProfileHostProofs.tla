-------------------------- MODULE ProfileHostProofs --------------------------
(***************************************************************************)
(* The hosts, for any number of them, any cards, any workload and any size *)
(* of the result cache: a cache_clear() during which no call is under way  *)
(* heals every cache; a released run stays released; and a stream is the   *)
(* batch call over the events it consumed.                                 *)
(*                                                                         *)
(* The first is an argument about a window of versions.  While the last    *)
(* clear was a quiet one and has returned, everything cached and           *)
(* everything in a call comes from versions since `settled`; at any other  *)
(* time all that is known is that it comes from some version there has     *)
(* been.  A clear that stays quiet finds every call idle and leaves every  *)
(* cache empty, so that the window can be as narrow again when it returns. *)
(***************************************************************************)
EXTENDS ProfileHost, SequenceTheorems, FiniteSetTheorems, TLAPS

\* The oldest version that may still be anywhere.
Low == IF toClear = <<>> /\ ~overlapped THEN settled ELSE 0

ResultFrom(r, lo, hi) == r \in [key : {r.key}, id : {r.id}, status : {r.status},
                                used : SUBSET (lo..hi)]
ResultsFrom(rs, lo, hi) == \E S : /\ rs \in Seq(S)
                                  /\ \A e \in S : ResultFrom(e.result, lo, hi)

Places == {"resolve", "lookup", "load", "keep", "loaded", "computed", "store", "raised"}
OpenFrom(c, lo, hi) ==
    /\ c \in [at : Places, purpose : {"params", "canonical", "cards"}, key : {c.key},
              id : {c.id}, used : SUBSET (lo..hi), read : Nat, after : Nat]
    /\ c.at \in {"keep", "loaded"} => c.read \in lo..hi
AnsweredFrom(c, lo, hi) == /\ c.at = "answered" /\ c.after \in Nat
                           /\ ResultFrom(c.result, lo, hi)
CallFrom(c, lo, hi) == c = Idle \/ OpenFrom(c, lo, hi) \/ AnsweredFrom(c, lo, hi)

Versions ==
    /\ disk \in Nat /\ settled \in Nat /\ began \in Nat
    /\ settled <= began /\ began <= disk
    /\ overlapped \in BOOLEAN
    /\ toClear \in {<<>>, <<"cards", "aliases", "results">>, <<"aliases", "results">>, <<"results">>}
Calls ==
    /\ DOMAIN call = Hosts /\ call = [h \in Hosts |-> call[h]]
    /\ \A h \in Hosts : /\ CallFrom(call[h], Low, disk)
                        /\ call[h] # Idle => call[h].after <= settled
Caches ==
    /\ cards \in {NotCached} \cup Low..disk
    /\ aliases \in {NotCached} \cup Low..disk
    /\ ResultsFrom(results, Low, disk)
\* A clear that is still quiet: nobody works, and what was cleared is empty.
Clearing ==
    toClear # <<>> /\ ~overlapped =>
        /\ \A h \in Hosts : call[h] = Idle
        /\ toClear # <<"cards", "aliases", "results">> => cards = NotCached
        /\ toClear = <<"results">> => aliases = NotCached

CacheInvariant == Versions /\ Calls /\ Caches /\ Clearing

-----------------------------------------------------------------------------
(***************************************************************************)
(* What the caches keep, whatever the window.                              *)
(***************************************************************************)
LEMMA LargerSeq == ASSUME NEW S, NEW T, S \subseteq T, NEW s \in Seq(S) PROVE s \in Seq(T)
OBVIOUS

\* Moving a hit to the end.
LEMMA TouchedIn ==
    ASSUME NEW S, results \in Seq(S), NEW i \in DOMAIN results
    PROVE  Append(RemoveAt(results, i), results[i]) \in Seq(S) /\ results[i] \in S
<1>1. /\ Len(results) \in Nat /\ i \in 1..Len(results)
      /\ \A j \in 1..Len(results) : results[j] \in S
  OBVIOUS
<1>. DEFINE front == SubSeq(results, 1, i - 1)
            back == SubSeq(results, i + 1, Len(results))
<1>2. front \in Seq(S)
  <2>1. i - 1 \in Int /\ \A j \in 1..(i - 1) : results[j] \in S
    BY <1>1
  <2>. QED  BY <2>1, SubSeqProperties
<1>3. back \in Seq(S)
  <2>1. i + 1 \in Int /\ Len(results) \in Int /\ \A j \in (i + 1)..Len(results) : results[j] \in S
    BY <1>1
  <2>. QED  BY <2>1, SubSeqProperties
<1>4. RemoveAt(results, i) \in Seq(S)
  <2>1. RemoveAt(results, i) = front \o back
    BY DEF RemoveAt
  <2>. HIDE DEF front, back
  <2>. QED  BY <1>2, <1>3, <2>1, ConcatProperties
<1>. QED  BY <1>1, <1>4, AppendProperties

\* Storing a result, over an old one or as a new entry that may push the oldest out.
LEMMA KeptIn ==
    ASSUME NEW T, results \in Seq(T), NEW result, NEW h,
           [key |-> CacheKey(h), result |-> result] \in T
    PROVE  Kept(result, h) \in Seq(T)
<1>. DEFINE entry == [key |-> CacheKey(h), result |-> result]
            all == IF Cached(h) = {} THEN Append(results, entry)
                   ELSE [i \in DOMAIN results |-> IF i \in Cached(h) THEN entry ELSE results[i]]
<1>1. Kept(result, h) = IF Len(all) > ResultCacheMax THEN Tail(all) ELSE all
  BY DEF Kept
<1>. HIDE DEF entry
<1>2. all \in Seq(T)
  <2>1. CASE Cached(h) = {}
    BY <2>1, AppendProperties DEF entry
  <2>2. CASE Cached(h) # {}
    <3>1. /\ Len(results) \in Nat /\ DOMAIN results = 1..Len(results)
          /\ \A i \in 1..Len(results) : results[i] \in T
      OBVIOUS
    <3>. QED  BY <2>2, <3>1 DEF entry
  <2>. QED  BY <2>1, <2>2
<1>. HIDE DEF all
<1>3. CASE all = <<>>
  <2>1. Len(all) = 0 /\ ~(0 > ResultCacheMax)
    BY <1>3, CacheAssumption
  <2>. QED  BY <1>1, <1>2, <2>1
<1>4. CASE all # <<>>
  BY <1>1, <1>2, <1>4, HeadTailProperties
<1>. QED  BY <1>3, <1>4

LEMMA TouchedFrom ==
    ASSUME NEW lo, NEW hi, ResultsFrom(results, lo, hi), NEW i \in DOMAIN results
    PROVE  /\ ResultsFrom(Append(RemoveAt(results, i), results[i]), lo, hi)
           /\ ResultFrom(results[i].result, lo, hi)
<1>1. PICK S : results \in Seq(S) /\ \A e \in S : ResultFrom(e.result, lo, hi)
  BY DEF ResultsFrom
<1>. QED  BY <1>1, TouchedIn DEF ResultsFrom

LEMMA KeptFrom ==
    ASSUME NEW lo, NEW hi, ResultsFrom(results, lo, hi), NEW result,
           ResultFrom(result, lo, hi), NEW h
    PROVE  ResultsFrom(Kept(result, h), lo, hi)
<1>1. PICK S : results \in Seq(S) /\ \A e \in S : ResultFrom(e.result, lo, hi)
  BY DEF ResultsFrom
<1>. DEFINE entry == [key |-> CacheKey(h), result |-> result]
            T == S \cup {entry}
<1>2. entry.result = result
  OBVIOUS
<1>3. results \in Seq(T) /\ (\A e \in T : ResultFrom(e.result, lo, hi)) /\ entry \in T
  BY <1>1, <1>2, LargerSeq
<1>. HIDE DEF T
<1>. QED  BY <1>3, KeptIn DEF ResultsFrom

\* What a hit is answered with.
LEMMA HitAnswer ==
    ASSUME NEW lo, NEW hi, NEW h, NEW r, ResultFrom(r, lo, hi), NEW used
    PROVE  [Restamped(r, h) EXCEPT !.used = @ \cup used]
               = [key |-> r.key, id |-> call[h].id, status |-> r.status, used |-> r.used \cup used]
<1>. DEFINE b == Restamped(r, h)
<1>1. b = [key |-> r.key, id |-> call[h].id, status |-> r.status, used |-> r.used]
  BY DEF ResultFrom, Restamped
<1>. HIDE DEF b
<1>2. [b EXCEPT !.used = @ \cup used]
          = [key |-> r.key, id |-> call[h].id, status |-> r.status, used |-> r.used \cup used]
  BY <1>1
<1>. QED  BY <1>2 DEF b

\* A window may widen.
LEMMA WiderWindow ==
    ASSUME NEW lo \in Nat, NEW hi \in Nat, NEW lo2 \in Nat, NEW hi2 \in Nat, lo2 <= lo, hi <= hi2
    PROVE  /\ lo..hi \subseteq lo2..hi2
           /\ \A rs : ResultsFrom(rs, lo, hi) => ResultsFrom(rs, lo2, hi2)
           /\ \A c : CallFrom(c, lo, hi) => CallFrom(c, lo2, hi2)
<1>1. lo..hi \subseteq lo2..hi2
  OBVIOUS
<1>2. \A r : ResultFrom(r, lo, hi) => ResultFrom(r, lo2, hi2)
  BY <1>1 DEF ResultFrom
<1>3. \A rs : ResultsFrom(rs, lo, hi) => ResultsFrom(rs, lo2, hi2)
  BY <1>2 DEF ResultsFrom
<1>4. \A c : OpenFrom(c, lo, hi) => OpenFrom(c, lo2, hi2)
  BY <1>1 DEF OpenFrom
<1>. QED  BY <1>1, <1>2, <1>3, <1>4 DEF CallFrom, AnsweredFrom

-----------------------------------------------------------------------------
LEMMA CacheStarts == CacheInit => CacheInvariant
<1>. SUFFICES ASSUME CacheInit PROVE CacheInvariant
  OBVIOUS
<1>1. Versions
  <2>1. overlapped \in BOOLEAN
    BY Zenon DEF CacheInit
  <2>. QED  BY <2>1 DEF CacheInit, Versions
<1>2. Low = 1 /\ disk = 1
  BY DEF CacheInit, Low
<1>3. Calls
  BY DEF CacheInit, Calls, CallFrom
<1>4. Caches
  <2>1. ResultsFrom(results, Low, disk)
    <3>1. results \in Seq({})
      BY DEF CacheInit
    <3>. QED  BY <3>1 DEF ResultsFrom
  <2>. QED  BY <1>2, <2>1 DEF CacheInit, Caches, NotCached
<1>5. Clearing
  BY DEF CacheInit, Clearing
<1>. QED  BY <1>1, <1>3, <1>4, <1>5 DEF CacheInvariant

LEMMA CachesKept == CacheInvariant /\ UNCHANGED cacheVars => CacheInvariant'
BY DEF cacheVars, CacheInvariant, Versions, Calls, Caches, Clearing, Low

LEMMA WindowIsTyped == Versions => Low \in Nat /\ Low <= settled /\ Low <= disk
BY DEF Versions, Low

\* A call moves on by itself: one host's call is replaced by another that is within the
\* window, and so are the caches.
LEMMA OneCallMoves ==
    ASSUME CacheInvariant, NEW h \in Hosts, call[h] # Idle, NEW c,
           call' = [call EXCEPT ![h] = c],
           CallFrom(c, Low, disk), c # Idle => c.after <= settled,
           UNCHANGED <<disk, toClear, settled, began, overlapped>>,
           Caches'
    PROVE  CacheInvariant'
<1>1. Low' = Low
  BY DEF Low
<1>2. Versions'
  BY DEF CacheInvariant, Versions
<1>3. Calls'
  <2>1. DOMAIN call = Hosts /\ \A g \in Hosts : call'[g] = IF g = h THEN c ELSE call[g]
    BY DEF CacheInvariant, Calls
  <2>2. call' = [g \in Hosts |-> call'[g]] /\ DOMAIN call' = Hosts
    BY <2>1
  <2>. QED  BY <1>1, <2>1, <2>2 DEF CacheInvariant, Calls
<1>4. Clearing'
  BY DEF CacheInvariant, Clearing
<1>. QED  BY <1>2, <1>3, <1>4 DEF CacheInvariant

LEMMA OpenIsTyped ==
    ASSUME NEW c, NEW lo, NEW hi, CallFrom(c, lo, hi), c.at \in Places
    PROVE  OpenFrom(c, lo, hi) /\ c # Idle
BY DEF CallFrom, AnsweredFrom, Idle, Places

\* What reading a version within the window makes of a call.
LEMMA ReadKeeps ==
    ASSUME NEW h \in Hosts, NEW lo \in Nat, NEW hi \in Nat, OpenFrom(call[h], lo, hi),
           NEW v \in lo..hi
    PROVE  /\ OpenFrom(Read(h, v), lo, hi)
           /\ Read(h, v).after = call[h].after
           /\ Read(h, v) # Idle
<1>. DEFINE c == call[h]
            at == CASE c.purpose = "params" -> "lookup"
                    [] c.purpose = "canonical" ->
                          IF c.key.playground \in Supported THEN "load" ELSE "store"
                    [] c.purpose = "cards" -> "computed"
            purpose == IF c.purpose = "canonical" THEN "cards" ELSE c.purpose
            d == [at |-> at, purpose |-> purpose, key |-> c.key, id |-> c.id,
                  used |-> c.used \cup {v}, read |-> c.read, after |-> c.after]
<1>1. /\ c \in [at : Places, purpose : {"params", "canonical", "cards"}, key : {c.key},
                id : {c.id}, used : SUBSET (lo..hi), read : Nat, after : Nat]
  BY DEF OpenFrom
<1>2. Read(h, v) = d
  <2>1. Read(h, v) = [c EXCEPT !.used = c.used \cup {v}, !.at = at, !.purpose = purpose]
    BY DEF Read
  <2>. HIDE DEF at, purpose, c
  <2>. QED  BY <1>1, <2>1
<1>3. at \in Places \ {"keep", "loaded"} /\ purpose \in {"params", "canonical", "cards"}
  BY <1>1 DEF Places
<1>. HIDE DEF at, purpose
<1>4. d.used \subseteq lo..hi /\ d.read \in Nat /\ d.after \in Nat
  BY <1>1
<1>. QED  BY <1>1, <1>2, <1>3, <1>4 DEF OpenFrom, Idle

-----------------------------------------------------------------------------
LEMMA BeginCallKeeps ==
    ASSUME CacheInvariant, NEW h \in Hosts, NEW key, NEW id, BeginCall(h, key, id)
    PROVE  CacheInvariant'
<1>. DEFINE c == [at |-> "resolve", purpose |-> "params", key |-> key, id |-> id,
                  used |-> {}, read |-> NotCached, after |-> settled]
<1>1. /\ call' = [call EXCEPT ![h] = c]
      /\ overlapped' = (overlapped \/ toClear # <<>>)
      /\ UNCHANGED <<disk, cards, aliases, results, toClear, settled, began>>
  BY DEF BeginCall
<1>2. Versions /\ Calls /\ Caches
  BY DEF CacheInvariant
<1>3. Low \in Nat /\ disk \in Nat
  BY <1>2, WindowIsTyped DEF Versions
<1>4. Low' \in Nat /\ Low' <= Low
  BY <1>1, <1>2, <1>3 DEF Low, Versions
<1>5. Versions'
  <2>1. overlapped' \in BOOLEAN
    BY <1>1, Zenon
  <2>. QED  BY <1>1, <1>2, <2>1 DEF Versions
<1>6. Caches'
  <2>1. Low..disk \subseteq Low'..disk /\ ResultsFrom(results, Low', disk)
    BY <1>2, <1>3, <1>4, WiderWindow DEF Caches
  <2>. QED  BY <1>1, <1>2, <2>1 DEF Caches
<1>7. Calls'
  <2>1. OpenFrom(c, Low', disk) /\ c.after = settled /\ settled \in Nat
    BY <1>2 DEF OpenFrom, Places, NotCached, Versions
  <2>2. \A g \in Hosts : CallFrom(call[g], Low', disk)
    BY <1>2, <1>3, <1>4, WiderWindow DEF Calls
  <2>. HIDE DEF c
  <2>3. /\ DOMAIN call' = Hosts /\ call' = [g \in Hosts |-> call'[g]]
        /\ \A g \in Hosts : call'[g] = IF g = h THEN c ELSE call[g]
    BY <1>1, <1>2 DEF Calls
  <2>. QED  BY <1>1, <1>2, <2>1, <2>2, <2>3 DEF Calls, CallFrom
<1>8. Clearing'
  BY <1>1 DEF Clearing, CacheInvariant
<1>. QED  BY <1>5, <1>6, <1>7, <1>8 DEF CacheInvariant

\* The steps of a call: each stays within the window.
LEMMA CallStepKeeps ==
    ASSUME CacheInvariant, NEW h \in Hosts, CallStep(h)
    PROVE  CacheInvariant'
<1>. DEFINE c == call[h]
<1>1. c.at \in Places \ {"raised"}
  BY DEF CallStep, FindAliases, LoadCards, CardsCached, CardsFromDisk, CardsMalformed,
         KeepCards, UseCards, LoadAgain, LookUp, Store, At, Places
<1>2. OpenFrom(c, Low, disk) /\ c # Idle /\ c.after <= settled
  BY <1>1, OpenIsTyped DEF CacheInvariant, Calls, Places
<1>3. c \in [at : Places, purpose : {"params", "canonical", "cards"}, key : {c.key},
             id : {c.id}, used : SUBSET (Low..disk), read : Nat, after : Nat]
  BY <1>2 DEF OpenFrom
<1>4. Low \in Nat /\ disk \in Nat /\ Low <= disk /\ Caches
  BY WindowIsTyped DEF CacheInvariant, Versions
<1>. HIDE DEF c
\* It is enough to say what becomes of the call and of the caches.
<1>5. ASSUME NEW d, call' = [call EXCEPT ![h] = d], CallFrom(d, Low, disk),
             d # Idle => d.after = c.after,
             UNCHANGED <<disk, toClear, settled, began, overlapped>>,
             cards' \in {NotCached} \cup Low..disk,
             aliases' \in {NotCached} \cup Low..disk,
             ResultsFrom(results', Low, disk)
      PROVE  CacheInvariant'
  <2>1. Low' = Low /\ disk' = disk
    BY <1>5 DEF Low
  <2>2. Caches'
    BY <1>5, <2>1 DEF Caches
  <2>3. d # Idle => d.after <= settled
    BY <1>2, <1>5
  <2>. QED  BY <1>2, <1>5, <2>2, <2>3, OneCallMoves DEF c
\* And for a step that leaves the caches alone, what becomes of the call.
<1>6. ASSUME NEW d, call' = [call EXCEPT ![h] = d], CallFrom(d, Low, disk),
             d # Idle => d.after = c.after,
             UNCHANGED <<disk, cards, aliases, results, toClear, settled, began, overlapped>>
      PROVE  CacheInvariant'
  BY <1>4, <1>5, <1>6 DEF Caches
<1>7. ASSUME NEW place \in Places, NEW v \in Nat,
             place \in {"keep", "loaded"} => v \in Low..disk
      PROVE  /\ OpenFrom([c EXCEPT !.read = v, !.at = place], Low, disk)
             /\ [c EXCEPT !.read = v, !.at = place].after = c.after
  <2>. DEFINE d == [at |-> place, purpose |-> c.purpose, key |-> c.key, id |-> c.id,
                    used |-> c.used, read |-> v, after |-> c.after]
  <2>1. [c EXCEPT !.read = v, !.at = place] = d
    <3>. DEFINE b == [c EXCEPT !.read = v]
    <3>1. b = [at |-> c.at, purpose |-> c.purpose, key |-> c.key, id |-> c.id,
               used |-> c.used, read |-> v, after |-> c.after]
      BY <1>3
    <3>. HIDE DEF b
    <3>2. [b EXCEPT !.at = place] = d
      BY <3>1
    <3>. QED  BY <3>2 DEF b
  <2>2. OpenFrom(d, Low, disk)
    BY <1>3, <1>7 DEF OpenFrom
  <2>. QED  BY <2>1, <2>2
<1>8. ASSUME NEW place \in Places, place \in {"keep", "loaded"} => c.read \in Low..disk
      PROVE  /\ OpenFrom([c EXCEPT !.at = place], Low, disk)
             /\ [c EXCEPT !.at = place].after = c.after
  <2>. DEFINE d == [at |-> place, purpose |-> c.purpose, key |-> c.key, id |-> c.id,
                    used |-> c.used, read |-> c.read, after |-> c.after]
  <2>1. [c EXCEPT !.at = place] = d
    BY <1>3
  <2>2. OpenFrom(d, Low, disk)
    BY <1>3, <1>8 DEF OpenFrom
  <2>. QED  BY <2>1, <2>2
<1>11. CASE FindAliases(h)
  <2>1. CASE aliases # NotCached
    <3>1. aliases \in Low..disk
      BY <1>4, <2>1 DEF Caches
    <3>2. OpenFrom(Read(h, aliases), Low, disk) /\ Read(h, aliases).after = c.after
      BY <1>2, <1>4, <3>1, ReadKeeps DEF c
    <3>. QED  BY <1>6, <1>11, <2>1, <3>2 DEF FindAliases, CallFrom
  <2>2. CASE aliases = NotCached
    <3>1. call' = [call EXCEPT ![h] = [c EXCEPT !.at = "load"]]
      BY <1>11, <2>2 DEF FindAliases, c
    <3>2. "load" \in Places \ {"keep", "loaded"}
      BY DEF Places
    <3>. QED  BY <1>6, <1>8, <1>11, <3>1, <3>2 DEF FindAliases, CallFrom
  <2>. QED  BY <2>1, <2>2
<1>12. CASE LoadCards(h)
  <2>1. CASE CardsCached(h)
    <3>1. cards \in Low..disk /\ cards \in Nat /\ "loaded" \in Places
      BY <1>4, <2>1 DEF CardsCached, Caches, Places
    <3>2. call' = [call EXCEPT ![h] = [c EXCEPT !.read = cards, !.at = "loaded"]]
      BY <2>1 DEF CardsCached, CacheInvariant, Calls, c
    <3>. QED  BY <1>6, <1>7, <1>12, <3>1, <3>2 DEF LoadCards, CallFrom
  <2>2. CASE CardsFromDisk(h)
    <3>1. disk \in Low..disk /\ disk \in Nat /\ "keep" \in Places
      BY <1>4 DEF Places
    <3>2. call' = [call EXCEPT ![h] = [c EXCEPT !.read = disk, !.at = "keep"]]
      BY <2>2 DEF CardsFromDisk, CacheInvariant, Calls, c
    <3>. QED  BY <1>6, <1>7, <1>12, <3>1, <3>2 DEF LoadCards, CallFrom
  <2>3. CASE CardsMalformed(h)
    <3>1. "raised" \in Places \ {"keep", "loaded"}
      BY DEF Places
    <3>2. call' = [call EXCEPT ![h] = [c EXCEPT !.at = "raised"]]
      BY <2>3 DEF CardsMalformed, CacheInvariant, Calls, c
    <3>. QED  BY <1>6, <1>8, <1>12, <3>1, <3>2 DEF LoadCards, CallFrom
  <2>. QED  BY <1>12, <2>1, <2>2, <2>3 DEF LoadCards
<1>13. CASE KeepCards(h)
  <2>1. c.at = "keep" /\ c.read \in Low..disk
    BY <1>2, <1>13 DEF KeepCards, At, OpenFrom, c
  <2>2. call' = [call EXCEPT ![h] = [c EXCEPT !.at = "loaded"]] /\ "loaded" \in Places
    BY <1>13 DEF KeepCards, CacheInvariant, Calls, c, Places
  <2>3. cards' \in {NotCached} \cup Low..disk
    BY <1>4, <1>13, <2>1 DEF KeepCards, Caches, c
  <2>. QED  BY <1>4, <1>5, <1>8, <1>13, <2>1, <2>2, <2>3 DEF KeepCards, CallFrom, Caches
<1>14. CASE UseCards(h)
  <2>1. c.at = "loaded" /\ c.read \in Low..disk
    BY <1>2, <1>14 DEF UseCards, At, OpenFrom, c
  <2>2. OpenFrom(Read(h, c.read), Low, disk) /\ Read(h, c.read).after = c.after
    BY <1>2, <1>4, <2>1, ReadKeeps DEF c
  <2>3. aliases' \in {NotCached} \cup Low..disk
    BY <1>4, <1>14, <2>1 DEF UseCards, Caches, c
  <2>4. call' = [call EXCEPT ![h] = Read(h, c.read)]
    BY <1>14 DEF UseCards, c
  <2>. QED  BY <1>4, <1>5, <1>14, <2>2, <2>3, <2>4 DEF UseCards, CallFrom, Caches
<1>15. CASE LoadAgain(h)
  <2>1. "load" \in Places \ {"keep", "loaded"}
    BY DEF Places
  <2>2. call' = [call EXCEPT ![h] = [c EXCEPT !.at = "load"]]
    BY <1>15 DEF LoadAgain, CacheInvariant, Calls, c
  <2>. QED  BY <1>6, <1>8, <1>15, <2>1, <2>2 DEF LoadAgain, CallFrom
<1>16. CASE LookUp(h)
  <2>1. CASE Cached(h) = {}
    <3>. DEFINE d == [at |-> "resolve", purpose |-> "canonical", key |-> c.key, id |-> c.id,
                      used |-> c.used, read |-> c.read, after |-> c.after]
    <3>1. [c EXCEPT !.at = "resolve", !.purpose = "canonical"] = d
      <4>. DEFINE b == [c EXCEPT !.at = "resolve"]
      <4>1. b = [at |-> "resolve", purpose |-> c.purpose, key |-> c.key, id |-> c.id,
                 used |-> c.used, read |-> c.read, after |-> c.after]
        BY <1>3
      <4>. HIDE DEF b
      <4>2. [b EXCEPT !.purpose = "canonical"] = d
        BY <4>1
      <4>. QED  BY <4>2 DEF b
    <3>2. OpenFrom(d, Low, disk) /\ d.after = c.after
      BY <1>3 DEF OpenFrom, Places
    <3>. HIDE DEF d
    <3>3. call' = [call EXCEPT ![h] = d]
      BY <1>16, <2>1, <3>1 DEF LookUp, CacheInvariant, Calls, c
    <3>. QED  BY <1>6, <1>16, <2>1, <3>2, <3>3 DEF LookUp, CallFrom
  <2>2. CASE Cached(h) # {}
    <3>1. PICK i \in Cached(h) :
            /\ results' = Append(RemoveAt(results, i), results[i])
            /\ call' = [call EXCEPT ![h] =
                 [at |-> "answered", after |-> c.after,
                  result |-> [Restamped(results[i].result, h) EXCEPT !.used = @ \cup c.used]]]
      BY <1>16, <2>2 DEF LookUp, c
    <3>. DEFINE r == results[i].result
                s == [key |-> r.key, id |-> c.id, status |-> r.status, used |-> r.used \cup c.used]
                d == [at |-> "answered", after |-> c.after, result |-> s]
    <3>2. i \in DOMAIN results
      BY DEF Cached
    <3>3. ResultsFrom(results', Low, disk) /\ ResultFrom(r, Low, disk)
      BY <1>4, <3>1, <3>2, TouchedFrom DEF Caches
    <3>4. [Restamped(r, h) EXCEPT !.used = @ \cup c.used] = s
      BY <3>3, HitAnswer DEF c
    <3>5. ResultFrom(s, Low, disk)
      BY <1>3, <3>3 DEF ResultFrom
    <3>6. call' = [call EXCEPT ![h] = d]
      BY <3>1, <3>4
    <3>. HIDE DEF s
    <3>7. AnsweredFrom(d, Low, disk) /\ d.after = c.after
      BY <1>3, <3>5 DEF AnsweredFrom
    <3>. HIDE DEF d
    <3>. QED  BY <1>4, <1>5, <1>16, <3>3, <3>6, <3>7 DEF LookUp, CallFrom, Caches
  <2>. QED  BY <2>1, <2>2
<1>17. CASE Store(h)
  <2>. DEFINE s == [key |-> c.key, id |-> c.id, status |-> Status(c.key), used |-> c.used]
              d == [at |-> "answered", after |-> c.after, result |-> s]
  <2>1. results' = Kept(s, h) /\ call' = [call EXCEPT ![h] = d]
    BY <1>17 DEF Store, c
  <2>2. ResultFrom(s, Low, disk)
    BY <1>3 DEF ResultFrom
  <2>. HIDE DEF s
  <2>3. ResultsFrom(results', Low, disk)
    BY <1>4, <2>1, <2>2, KeptFrom DEF Caches
  <2>4. AnsweredFrom(d, Low, disk) /\ d.after = c.after
    BY <1>3, <2>2 DEF AnsweredFrom
  <2>. HIDE DEF d
  <2>. QED  BY <1>4, <1>5, <1>17, <2>1, <2>3, <2>4 DEF Store, CallFrom, Caches
<1>. QED  BY <1>11, <1>12, <1>13, <1>14, <1>15, <1>16, <1>17 DEF CallStep

LEMMA EndOfCallKeeps ==
    ASSUME CacheInvariant, NEW h \in Hosts, call[h] # Idle, call' = [call EXCEPT ![h] = Idle],
           UNCHANGED <<disk, cards, aliases, results, toClear, settled, began, overlapped>>
    PROVE  CacheInvariant'
<1>1. Caches'
  BY DEF CacheInvariant, Caches, Low
<1>2. CallFrom(Idle, Low, disk)
  BY DEF CallFrom
<1>. QED  BY <1>1, <1>2, OneCallMoves

LEMMA EditKeeps == CacheInvariant /\ EditCards => CacheInvariant'
<1>. SUFFICES ASSUME CacheInvariant, EditCards PROVE CacheInvariant'
  OBVIOUS
<1>1. /\ disk' = disk + 1 /\ Low' = Low
      /\ UNCHANGED <<cards, aliases, results, call, toClear, settled, began, overlapped>>
  BY DEF EditCards, Low
<1>2. Versions /\ Calls /\ Caches
  BY DEF CacheInvariant
<1>3. Low \in Nat /\ disk \in Nat /\ disk + 1 \in Nat /\ disk <= disk + 1 /\ Low <= Low
  BY <1>2, WindowIsTyped DEF Versions
<1>4. Versions'
  BY <1>1, <1>2 DEF Versions
<1>5. Calls'
  <2>1. \A g \in Hosts : CallFrom(call[g], Low, disk + 1)
    BY <1>2, <1>3, WiderWindow DEF Calls
  <2>. QED  BY <1>1, <1>2, <2>1 DEF Calls
<1>6. Caches'
  <2>1. Low..disk \subseteq Low..(disk + 1) /\ ResultsFrom(results, Low, disk + 1)
    BY <1>2, <1>3, WiderWindow DEF Caches
  <2>. QED  BY <1>1, <1>2, <2>1 DEF Caches
<1>7. Clearing'
  BY <1>1 DEF CacheInvariant, Clearing
<1>. QED  BY <1>4, <1>5, <1>6, <1>7 DEF CacheInvariant

\* While the window is as wide as can be, the rest of the state only has to be from some
\* version.
LEMMA AnyVersion ==
    ASSUME Versions, Calls, Caches
    PROVE  /\ \A g \in Hosts : CallFrom(call[g], 0, disk)
           /\ ResultsFrom(results, 0, disk)
           /\ cards \in {NotCached} \cup 0..disk /\ aliases \in {NotCached} \cup 0..disk
<1>1. Low \in Nat /\ disk \in Nat /\ 0 \in Nat /\ 0 <= Low /\ disk <= disk
  BY WindowIsTyped DEF Versions
<1>2. Low..disk \subseteq 0..disk
  BY <1>1
<1>. QED  BY <1>1, <1>2, WiderWindow DEF Calls, Caches

LEMMA BeginClearKeeps == CacheInvariant /\ BeginClear => CacheInvariant'
<1>. SUFFICES ASSUME CacheInvariant, BeginClear PROVE CacheInvariant'
  OBVIOUS
<1>1. /\ toClear' = <<"cards", "aliases", "results">> /\ began' = disk
      /\ overlapped' = (\E h \in Hosts : call[h] # Idle)
      /\ UNCHANGED <<disk, cards, aliases, results, call, settled>>
  BY DEF BeginClear, Clearers
<1>2. Versions /\ Calls /\ Caches
  BY DEF CacheInvariant
<1>3. Low' = 0
  BY <1>1 DEF Low
<1>4. Versions'
  <2>1. overlapped' \in BOOLEAN
    BY <1>1, Zenon
  <2>. QED  BY <1>1, <1>2, <2>1 DEF Versions
<1>5. Calls' /\ Caches'
  BY <1>1, <1>2, <1>3, AnyVersion DEF Calls, Caches
<1>6. Clearing'
  BY <1>1 DEF Clearing
<1>. QED  BY <1>4, <1>5, <1>6 DEF CacheInvariant

LEMMA ClearNextKeeps == CacheInvariant /\ ClearNext => CacheInvariant'
<1>. SUFFICES ASSUME CacheInvariant, ClearNext PROVE CacheInvariant'
  OBVIOUS
<1>1. /\ toClear # <<>> /\ toClear' = Tail(toClear)
      /\ cards' = IF Head(toClear) = "cards" THEN NotCached ELSE cards
      /\ aliases' = IF Head(toClear) = "aliases" THEN NotCached ELSE aliases
      /\ results' = IF Head(toClear) = "results" THEN <<>> ELSE results
      /\ settled' = IF toClear' = <<>> THEN began ELSE settled
      /\ UNCHANGED <<disk, call, began, overlapped>>
  BY DEF ClearNext
<1>2. Versions /\ Calls /\ Caches /\ Clearing
  BY DEF CacheInvariant
<1>3. \/ /\ toClear = <<"cards", "aliases", "results">> /\ Head(toClear) = "cards"
         /\ toClear' = <<"aliases", "results">>
      \/ /\ toClear = <<"aliases", "results">> /\ Head(toClear) = "aliases"
         /\ toClear' = <<"results">>
      \/ /\ toClear = <<"results">> /\ Head(toClear) = "results"
         /\ toClear' = <<>>
  <2>1. CASE toClear = <<"cards", "aliases", "results">>
    BY <1>1, <2>1
  <2>2. CASE toClear = <<"aliases", "results">>
    BY <1>1, <2>2
  <2>3. CASE toClear = <<"results">>
    BY <1>1, <2>3
  <2>. QED  BY <1>1, <1>2, <2>1, <2>2, <2>3 DEF Versions
<1>4. Versions' /\ settled <= settled'
  BY <1>1, <1>2, <1>3 DEF Versions
<1>5. ASSUME NEW lo PROVE ResultsFrom(<<>>, lo, disk)
  <2>. DEFINE S == {}
  <2>1. <<>> \in Seq(S) /\ \A e \in S : ResultFrom(e.result, lo, disk)
    OBVIOUS
  <2>. HIDE DEF S
  <2>. QED  BY <2>1, Zenon DEF ResultsFrom
<1>6. Clearing'
  BY <1>1, <1>2, <1>3 DEF Clearing
<1>7. CASE Low' = 0
  <2>1. Caches'
    BY <1>1, <1>2, <1>3, <1>5, <1>7, AnyVersion DEF Caches
  <2>2. Calls'
    <3>1. \A h \in Hosts : call[h] # Idle => call[h].after <= settled'
      <4>1. \A h \in Hosts : call[h] # Idle => call[h].after \in Nat
        BY <1>2 DEF Calls, CallFrom, OpenFrom, AnsweredFrom
      <4>. QED  BY <1>2, <1>4, <4>1 DEF Calls, Versions
    <3>. QED  BY <1>1, <1>2, <1>7, <3>1, AnyVersion DEF Calls
  <2>. QED  BY <1>4, <1>6, <2>1, <2>2 DEF CacheInvariant
\* The clear stayed quiet to its end: every call is idle and every cache is empty.
<1>8. CASE Low' # 0
  <2>1. toClear' = <<>> /\ ~overlapped /\ toClear = <<"results">>
    BY <1>1, <1>3, <1>8 DEF Low
  <2>2. (\A h \in Hosts : call[h] = Idle) /\ cards = NotCached /\ aliases = NotCached
    BY <1>2, <2>1 DEF Clearing
  <2>3. Caches'
    BY <1>1, <1>3, <1>5, <2>1, <2>2 DEF Caches
  <2>4. Calls'
    BY <1>1, <1>2, <2>2 DEF Calls, CallFrom
  <2>. QED  BY <1>4, <1>6, <2>3, <2>4 DEF CacheInvariant
<1>. QED  BY <1>7, <1>8

-----------------------------------------------------------------------------
\* Whatever a host does, to the caches it is one of the steps above or none.
LEMMA HostsKeep == CacheInvariant /\ [HostNext]_hostVars => CacheInvariant'
<1>. SUFFICES ASSUME CacheInvariant, [HostNext]_hostVars PROVE CacheInvariant'
  OBVIOUS
<1>1. ASSUME NEW h \in Hosts, Feeds(h) PROVE CacheInvariant'
  <2>1. ASSUME NEW ev, PushOther(h, ev) PROVE CacheInvariant'
    BY <2>1, CachesKept DEF PushOther
  <2>2. ASSUME NEW ev, NEW o, PushRun(h, ev, o) PROVE CacheInvariant'
    <3>1. PICK key, id : BeginCall(h, key, id)
      BY <2>2, Zenon DEF PushRun, Profile
    <3>. QED  BY <3>1, BeginCallKeeps
  <2>. QED  BY <1>1, <2>1, <2>2 DEF Feeds
<1>2. ASSUME NEW h \in Hosts, Learns(h) PROVE CacheInvariant'
  <2>1. ASSUME NEW index, OutcomeUnused(h, index) PROVE CacheInvariant'
    BY <2>1, CachesKept DEF OutcomeUnused
  <2>2. ASSUME NEW index, NEW o, AssociateOutcome(h, index, o) PROVE CacheInvariant'
    <3>1. PICK key, id : BeginCall(h, key, id)
      BY <2>2, Zenon DEF AssociateOutcome, Profile
    <3>. QED  BY <3>1, BeginCallKeeps
  <2>. QED  BY <1>2, <2>1, <2>2 DEF Learns
<1>3. ASSUME NEW h \in Hosts, Releases(h) PROVE CacheInvariant'
  BY <1>3, CachesKept DEF Releases, Release
<1>4. ASSUME NEW h \in Hosts, Return(h) \/ Raise(h) PROVE CacheInvariant'
  <2>1. /\ call[h] # Idle /\ call' = [call EXCEPT ![h] = Idle]
        /\ UNCHANGED <<disk, cards, aliases, results, toClear, settled, began, overlapped>>
    BY <1>4 DEF Return, Raise, Answered, At, Idle
  <2>. QED  BY <2>1, EndOfCallKeeps
<1>5. CASE Edits \/ Clears
  BY <1>5, EditKeeps, BeginClearKeeps, ClearNextKeeps DEF Edits, Clears
<1>6. CASE UNCHANGED hostVars
  BY <1>6, CachesKept DEF hostVars
<1>. QED  BY <1>1, <1>2, <1>3, <1>4, <1>5, <1>6, CallStepKeeps DEF HostNext, Works

\* "in-place card edits stay honest", for every number of hosts, every cache size and any
\* edits and outcomes: after a cache_clear() that met no call under way, no cache and no
\* answer holds anything older than the cards it began with.
THEOREM QuietClearHeals == HostSpec => []QuietClearIsHonest
<1>1. StreamInit => CacheInvariant
  BY CacheStarts DEF StreamInit
<1>2. CacheInvariant => QuietClearIsHonest
  <2>. SUFFICES ASSUME CacheInvariant, toClear = <<>>, ~overlapped
                PROVE  /\ {cards, aliases} \subseteq {NotCached} \cup settled..disk
                       /\ \A i \in DOMAIN results : results[i].result.used \subseteq settled..disk
                       /\ EditsStayHonest
    BY DEF QuietClearIsHonest
  <2>1. Low = settled /\ settled \in Nat /\ disk \in Nat
    BY DEF Low, CacheInvariant, Versions
  <2>2. \A i \in DOMAIN results : results[i].result.used \subseteq settled..disk
    <3>1. PICK S : results \in Seq(S) /\ \A e \in S : ResultFrom(e.result, settled, disk)
      BY <2>1 DEF CacheInvariant, Caches, ResultsFrom
    <3>2. \A i \in DOMAIN results : ResultFrom(results[i].result, settled, disk)
      BY <3>1
    <3>. QED  BY <3>2 DEF ResultFrom
  <2>3. ASSUME NEW h \in Hosts, Answered(h), NEW v \in call[h].result.used
        PROVE  v >= call[h].after
    <3>1. AnsweredFrom(call[h], settled, disk) /\ call[h].after <= settled
      BY <2>1, <2>3 DEF CacheInvariant, Calls, CallFrom, OpenFrom, Answered, At, Idle, Places
    <3>2. v \in settled..disk /\ call[h].after \in Nat
      BY <2>3, <3>1 DEF AnsweredFrom, ResultFrom
    <3>. QED  BY <2>1, <3>1, <3>2
  <2>. QED  BY <2>1, <2>2, <2>3 DEF CacheInvariant, Caches, EditsStayHonest
<1>. QED  BY <1>1, <1>2, HostsKeep, PTL DEF HostSpec

-----------------------------------------------------------------------------
(***************************************************************************)
(* The streams.  A run that was released has no record left, and a host    *)
(* that associates an outcome does so for a run that was not released; as  *)
(* each host does one thing at a time, nothing can release it meanwhile.   *)
(***************************************************************************)
Sequence(s) == \E S : s \in Seq(S)

\* The run that a host's associate_outcome is about.
Target(p) == p.index + 1
HasTarget(h) ==
    pending[h] # Idle /\ pending[h].what # "push" =>
        /\ Target(pending[h]) \in 1..Len(runs[h])
        /\ runs[h][Target(pending[h])] # Released
        /\ records[h][Target(pending[h])] # Released

StreamInvariant ==
    /\ workload \in Workloads
    /\ DOMAIN runs = Hosts /\ runs = [h \in Hosts |-> runs[h]]
    /\ DOMAIN records = Hosts /\ records = [h \in Hosts |-> records[h]]
    /\ DOMAIN pending = Hosts /\ pending = [h \in Hosts |-> pending[h]]
    /\ \A h \in Hosts :
        /\ Sequence(runs[h]) /\ Sequence(records[h]) /\ Len(runs[h]) = Len(records[h])
        /\ \A k \in 1..Len(runs[h]) : runs[h][k] = Released => records[h][k] = Released
        /\ HasTarget(h)

\* A host that is in a call is in a push or an associate_outcome.
CallsPending ==
    /\ DOMAIN call = Hosts /\ DOMAIN pending = Hosts
    /\ \A h \in Hosts : call[h] # Idle => pending[h] # Idle

\* What a step may do to the runs of a host.
KeepsReleased(h) ==
    \A k \in DOMAIN runs[h] :
        runs[h][k] = Released => runs'[h][k] = Released /\ records'[h][k] = Released

LEMMA StreamsStart == StreamInit => StreamInvariant
<1>. SUFFICES ASSUME StreamInit PROVE StreamInvariant
  OBVIOUS
<1>1. Sequence(<<>>)
  <2>1. <<>> \in Seq({})
    OBVIOUS
  <2>. QED  BY <2>1, Zenon DEF Sequence
<1>. QED  BY <1>1 DEF StreamInit, StreamInvariant, HasTarget

LEMMA SequenceFacts ==
    ASSUME NEW s, Sequence(s)
    PROVE  /\ Len(s) \in Nat /\ DOMAIN s = 1..Len(s)
           /\ \A e : /\ Sequence(Append(s, e)) /\ Len(Append(s, e)) = Len(s) + 1
                     /\ \A k \in 1..Len(s) : Append(s, e)[k] = s[k]
                     /\ Append(s, e)[Len(s) + 1] = e
           /\ \A e : \A i \in 1..Len(s) :
                     /\ Sequence([s EXCEPT ![i] = e]) /\ Len([s EXCEPT ![i] = e]) = Len(s)
                     /\ \A k \in 1..Len(s) : [s EXCEPT ![i] = e][k] = IF k = i THEN e ELSE s[k]
<1>1. PICK S : s \in Seq(S)
  BY DEF Sequence
<1>2. Len(s) \in Nat /\ DOMAIN s = 1..Len(s)
  BY <1>1
<1>3. ASSUME NEW e
      PROVE  /\ Sequence(Append(s, e)) /\ Len(Append(s, e)) = Len(s) + 1
             /\ \A k \in 1..Len(s) : Append(s, e)[k] = s[k]
             /\ Append(s, e)[Len(s) + 1] = e
  <2>. DEFINE T == S \cup {e}
  <2>1. s \in Seq(T) /\ e \in T
    BY <1>1, LargerSeq
  <2>. HIDE DEF T
  <2>. QED  BY <2>1, AppendProperties DEF Sequence
<1>4. ASSUME NEW e, NEW i \in 1..Len(s)
      PROVE  /\ Sequence([s EXCEPT ![i] = e]) /\ Len([s EXCEPT ![i] = e]) = Len(s)
             /\ \A k \in 1..Len(s) : [s EXCEPT ![i] = e][k] = IF k = i THEN e ELSE s[k]
  <2>. DEFINE T == S \cup {e}
  <2>1. s \in Seq(T) /\ e \in T
    BY <1>1, LargerSeq
  <2>. HIDE DEF T
  <2>2. [s EXCEPT ![i] = e] \in Seq(T) /\ Len([s EXCEPT ![i] = e]) = Len(s)
    BY <1>2, <2>1
  <2>. QED  BY <1>2, <2>2 DEF Sequence
<1>. QED  BY <1>2, <1>3, <1>4

\* Steps that leave the runs and the records alone.
LEMMA RunsLeftAlone ==
    ASSUME StreamInvariant, UNCHANGED <<workload, runs, records>>,
           DOMAIN pending' = Hosts, pending' = [h \in Hosts |-> pending'[h]],
           \A h \in Hosts : HasTarget(h)'
    PROVE  StreamInvariant' /\ \A h \in Hosts : KeepsReleased(h)
<1>1. StreamInvariant'
  BY DEF StreamInvariant
<1>2. ASSUME NEW h \in Hosts, NEW k \in DOMAIN runs[h], runs[h][k] = Released
      PROVE  runs'[h][k] = Released /\ records'[h][k] = Released
  <2>1. Sequence(runs[h])
    BY DEF StreamInvariant
  <2>2. k \in 1..Len(runs[h])
    BY <1>2, <2>1, SequenceFacts
  <2>. QED  BY <1>2, <2>2 DEF StreamInvariant
<1>. QED  BY <1>1, <1>2 DEF KeepsReleased

\* A host begins to profile, and what it is about is there.
LEMMA ProfileKeeps ==
    ASSUME StreamInvariant, NEW h \in Hosts, NEW record, NEW index, NEW outcome, NEW what,
           Profile(h, record, index, outcome, what), UNCHANGED <<workload, runs, records>>,
           what # "push" => index \in Nat /\ HasInputs(h, index)
    PROVE  StreamInvariant' /\ \A g \in Hosts : KeepsReleased(g)
<1>. DEFINE p == [what |-> what, record |-> record, index |-> index, outcome |-> outcome]
<1>1. pending' = [pending EXCEPT ![h] = p]
  BY DEF Profile
<1>2. p.what = what /\ Target(p) = index + 1
  BY DEF Target
<1>. HIDE DEF p
<1>3. /\ DOMAIN pending' = Hosts /\ pending' = [g \in Hosts |-> pending'[g]]
      /\ \A g \in Hosts : pending'[g] = IF g = h THEN p ELSE pending[g]
  BY <1>1 DEF StreamInvariant
<1>4. HasTarget(h)'
  <2>. SUFFICES ASSUME what # "push"
                PROVE  /\ index + 1 \in 1..Len(runs[h])
                       /\ runs[h][index + 1] # Released /\ records[h][index + 1] # Released
    BY <1>2, <1>3 DEF HasTarget
  <2>1. index \in Nat /\ index < Len(runs[h]) /\ records[h][index + 1] # Released
    BY DEF HasInputs
  <2>2. Len(runs[h]) \in Nat
    BY SequenceFacts DEF StreamInvariant
  <2>3. index + 1 \in 1..Len(runs[h])
    BY <2>1, <2>2
  <2>. QED  BY <2>1, <2>3 DEF StreamInvariant
<1>5. \A g \in Hosts : HasTarget(g)'
  BY <1>3, <1>4 DEF StreamInvariant, HasTarget
<1>. QED  BY <1>3, <1>5, RunsLeftAlone

\* One host's runs and records change, and it has nothing pending.
LEMMA OneStreamMoves ==
    ASSUME StreamInvariant, NEW h \in Hosts, workload' = workload,
           NEW rs, runs' = [runs EXCEPT ![h] = rs],
           NEW recs, records' = [records EXCEPT ![h] = recs],
           pending' = [pending EXCEPT ![h] = Idle],
           Sequence(rs), Sequence(recs), Len(rs) = Len(recs),
           \A k \in 1..Len(rs) : rs[k] = Released => recs[k] = Released,
           \A k \in 1..Len(runs[h]) : runs[h][k] = Released => rs[k] = Released /\ recs[k] = Released
    PROVE  StreamInvariant' /\ \A g \in Hosts : KeepsReleased(g)
<1>1. /\ DOMAIN runs' = Hosts /\ runs' = [g \in Hosts |-> runs'[g]]
      /\ \A g \in Hosts : runs'[g] = IF g = h THEN rs ELSE runs[g]
  BY DEF StreamInvariant
<1>2. /\ DOMAIN records' = Hosts /\ records' = [g \in Hosts |-> records'[g]]
      /\ \A g \in Hosts : records'[g] = IF g = h THEN recs ELSE records[g]
  BY DEF StreamInvariant
<1>3. /\ DOMAIN pending' = Hosts /\ pending' = [g \in Hosts |-> pending'[g]]
      /\ \A g \in Hosts : pending'[g] = IF g = h THEN Idle ELSE pending[g]
  BY DEF StreamInvariant
<1>4. \A g \in Hosts : HasTarget(g)'
  BY <1>1, <1>2, <1>3 DEF StreamInvariant, HasTarget
<1>5. StreamInvariant'
  <2>1. ASSUME NEW g \in Hosts
        PROVE  /\ Sequence(runs'[g]) /\ Sequence(records'[g]) /\ Len(runs'[g]) = Len(records'[g])
               /\ \A k \in 1..Len(runs'[g]) : runs'[g][k] = Released => records'[g][k] = Released
    <3>1. CASE g = h
      BY <1>1, <1>2, <3>1
    <3>2. CASE g # h
      BY <1>1, <1>2, <3>2 DEF StreamInvariant
    <3>. QED  BY <3>1, <3>2
  <2>2. (workload \in Workloads)'
    BY DEF StreamInvariant
  <2>. QED  BY <1>1, <1>2, <1>3, <1>4, <2>1, <2>2 DEF StreamInvariant
<1>6. ASSUME NEW g \in Hosts, NEW k \in DOMAIN runs[g], runs[g][k] = Released
      PROVE  runs'[g][k] = Released /\ records'[g][k] = Released
  <2>1. Sequence(runs[g])
    BY DEF StreamInvariant
  <2>2. k \in 1..Len(runs[g])
    BY <1>6, <2>1, SequenceFacts
  <2>. QED  BY <1>1, <1>2, <1>6, <2>2 DEF StreamInvariant
<1>. QED  BY <1>5, <1>6 DEF KeepsReleased

LEMMA ReturnKeeps ==
    ASSUME StreamInvariant, NEW h \in Hosts, pending[h] # Idle, Return(h), workload' = workload
    PROVE  StreamInvariant' /\ \A g \in Hosts : KeepsReleased(g)
<1>. DEFINE p == pending[h]
            run == RunOf(call[h].result, p.record, p.index)
            n == Len(runs[h])
<1>1. run # Released
  BY DEF RunOf, Released
<1>2. /\ Sequence(runs[h]) /\ Sequence(records[h]) /\ n \in Nat /\ Len(records[h]) = n
      /\ \A k \in 1..n : runs[h][k] = Released => records[h][k] = Released
      /\ HasTarget(h)
  BY SequenceFacts DEF StreamInvariant
<1>. HIDE DEF run, n, p
<1>3. CASE pending[h].what = "push"
  <2>. DEFINE rs == Append(runs[h], run)
              recs == Append(records[h], p.record)
  <2>1. /\ runs' = [runs EXCEPT ![h] = rs] /\ records' = [records EXCEPT ![h] = recs]
        /\ pending' = [pending EXCEPT ![h] = Idle]
    BY <1>3 DEF Return, FinishPush, StreamInvariant, run, p
  <2>2. /\ Sequence(rs) /\ Len(rs) = n + 1 /\ \A k \in 1..n : rs[k] = runs[h][k]
        /\ rs[n + 1] = run
    BY <1>2, SequenceFacts DEF n
  <2>3. /\ Sequence(recs) /\ Len(recs) = n + 1 /\ \A k \in 1..n : recs[k] = records[h][k]
    BY <1>2, SequenceFacts
  <2>. HIDE DEF rs, recs
  <2>4. \A k \in 1..(n + 1) : rs[k] = Released => recs[k] = Released
    <3>. SUFFICES ASSUME NEW k \in 1..(n + 1), rs[k] = Released PROVE recs[k] = Released
      OBVIOUS
    <3>1. k # n + 1
      BY <1>1, <2>2
    <3>2. k \in 1..n
      BY <1>2, <3>1
    <3>. QED  BY <1>2, <2>2, <2>3, <3>2
  <2>5. \A k \in 1..n : runs[h][k] = Released => rs[k] = Released /\ recs[k] = Released
    BY <1>2, <2>2, <2>3
  <2>. QED  BY <2>1, <2>2, <2>3, <2>4, <2>5, OneStreamMoves DEF n
<1>4. CASE pending[h].what # "push" /\ pending[h] # Idle
  <2>. DEFINE t == Target(p)
              rs == [runs[h] EXCEPT ![t] = run]
  <2>1. t \in 1..n /\ runs[h][t] # Released /\ records[h][t] # Released
    BY <1>2, <1>4 DEF HasTarget, n, p
  <2>2. /\ runs' = [runs EXCEPT ![h] = rs] /\ records' = records
        /\ pending' = [pending EXCEPT ![h] = Idle]
    BY <1>4 DEF Return, FinishAssociate, StreamInvariant, run, p, Target
  <2>3. records' = [records EXCEPT ![h] = records[h]]
    BY <2>2 DEF StreamInvariant
  <2>. HIDE DEF t
  <2>4. /\ Sequence(rs) /\ Len(rs) = n
        /\ \A k \in 1..n : rs[k] = IF k = t THEN run ELSE runs[h][k]
    BY <1>2, <2>1, SequenceFacts DEF n
  <2>. HIDE DEF rs
  <2>5. \A k \in 1..n : rs[k] = Released => records[h][k] = Released
    BY <1>1, <1>2, <2>4
  <2>6. \A k \in 1..n : runs[h][k] = Released => rs[k] = Released /\ records[h][k] = Released
    BY <1>2, <2>1, <2>4
  <2>. QED  BY <1>2, <2>2, <2>3, <2>4, <2>5, <2>6, OneStreamMoves DEF n
<1>. QED  BY <1>3, <1>4

LEMMA ReleaseKeeps ==
    ASSUME StreamInvariant, NEW h \in Hosts, NEW index \in Nat, Release(h, index),
           workload' = workload
    PROVE  StreamInvariant' /\ \A g \in Hosts : KeepsReleased(g)
<1>. DEFINE n == Len(runs[h])
            rs == [runs[h] EXCEPT ![index + 1] = Released]
            recs == [records[h] EXCEPT ![index + 1] = Released]
<1>1. /\ Sequence(runs[h]) /\ Sequence(records[h]) /\ n \in Nat /\ Len(records[h]) = n
      /\ \A k \in 1..n : runs[h][k] = Released => records[h][k] = Released
  BY SequenceFacts DEF StreamInvariant
<1>2. index + 1 \in 1..n
  BY <1>1 DEF Release
<1>3. /\ runs' = [runs EXCEPT ![h] = rs] /\ records' = [records EXCEPT ![h] = recs]
      /\ pending' = [pending EXCEPT ![h] = Idle]
  BY DEF Release, StreamInvariant
<1>4. /\ Sequence(rs) /\ Len(rs) = n
      /\ \A k \in 1..n : rs[k] = IF k = index + 1 THEN Released ELSE runs[h][k]
  BY <1>1, <1>2, SequenceFacts
<1>5. /\ Sequence(recs) /\ Len(recs) = n
      /\ \A k \in 1..n : recs[k] = IF k = index + 1 THEN Released ELSE records[h][k]
  <2>1. index + 1 \in 1..Len(records[h]) /\ Len(records[h]) = n
    BY <1>1, <1>2
  <2>. HIDE DEF n
  <2>. QED  BY <1>1, <2>1, SequenceFacts
<1>. HIDE DEF rs, recs
<1>. QED  BY <1>1, <1>3, <1>4, <1>5, OneStreamMoves

-----------------------------------------------------------------------------
LEMMA CallsStayPending == CallsPending /\ [HostNext]_hostVars => CallsPending'
<1>. SUFFICES ASSUME CallsPending, [HostNext]_hostVars PROVE CallsPending'
  OBVIOUS
<1>1. ASSUME NEW h \in Hosts, NEW c, NEW p, call' = [call EXCEPT ![h] = c],
             pending' = [pending EXCEPT ![h] = p], c # Idle => p # Idle
      PROVE  CallsPending'
  <2>1. /\ DOMAIN call' = Hosts /\ DOMAIN pending' = Hosts
        /\ \A g \in Hosts : call'[g] = IF g = h THEN c ELSE call[g]
        /\ \A g \in Hosts : pending'[g] = IF g = h THEN p ELSE pending[g]
    BY <1>1 DEF CallsPending
  <2>. QED  BY <1>1, <2>1 DEF CallsPending
<1>2. ASSUME NEW h \in Hosts, NEW c, call' = [call EXCEPT ![h] = c], pending' = pending,
             call[h] # Idle
      PROVE  CallsPending'
  <2>1. DOMAIN call' = Hosts /\ \A g \in Hosts : call'[g] = IF g = h THEN c ELSE call[g]
    BY <1>2 DEF CallsPending
  <2>. QED  BY <1>2, <2>1 DEF CallsPending
<1>3. ASSUME UNCHANGED <<call, pending>> PROVE CallsPending'
  BY <1>3 DEF CallsPending
<1>4. ASSUME NEW h \in Hosts, NEW record, NEW index, NEW outcome, NEW what,
             Profile(h, record, index, outcome, what)
      PROVE  CallsPending'
  <2>. DEFINE c == [at |-> "resolve", purpose |-> "params", key |-> ProfileKey(record, outcome),
                    id |-> ProgramId(h, index, outcome), used |-> {}, read |-> NotCached,
                    after |-> settled]
              p == [what |-> what, record |-> record, index |-> index, outcome |-> outcome]
  <2>1. call' = [call EXCEPT ![h] = c] /\ pending' = [pending EXCEPT ![h] = p]
    BY <1>4 DEF Profile, BeginCall
  <2>2. p # Idle
    BY DEF Idle
  <2>. HIDE DEF c, p
  <2>. QED  BY <1>1, <2>1, <2>2
<1>5. ASSUME NEW h \in Hosts, Feeds(h) PROVE CallsPending'
  BY <1>3, <1>4, <1>5 DEF Feeds, PushOther, PushRun, cacheVars
<1>6. ASSUME NEW h \in Hosts, Learns(h) PROVE CallsPending'
  BY <1>3, <1>4, <1>6 DEF Learns, OutcomeUnused, AssociateOutcome, cacheVars
<1>7. ASSUME NEW h \in Hosts, Releases(h) PROVE CallsPending'
  BY <1>3, <1>7 DEF Releases, Release, cacheVars
<1>8. ASSUME NEW h \in Hosts, CallStep(h), UNCHANGED streamVars PROVE CallsPending'
  <2>1. pending' = pending /\ call[h] # Idle
    BY <1>8 DEF CallStep, FindAliases, LoadCards, CardsCached, CardsFromDisk, CardsMalformed,
                KeepCards, UseCards, LoadAgain, LookUp, Store, At, Idle, streamVars
  <2>2. \E c : call' = [call EXCEPT ![h] = c]
    <3>1. FindAliases(h) => \E c : call' = [call EXCEPT ![h] = c]
      BY Zenon DEF FindAliases
    <3>2. LoadCards(h) => \E c : call' = [call EXCEPT ![h] = c]
      <4>1. CardsCached(h) => \A g \in Hosts : g # h => call'[g] = call[g]
        BY DEF CardsCached, CallsPending
      <4>. QED  BY DEF LoadCards, CardsCached, CardsFromDisk, CardsMalformed, CallsPending
    <3>3. KeepCards(h) => \E c : call' = [call EXCEPT ![h] = c]
      BY DEF KeepCards, CallsPending
    <3>4. UseCards(h) => \E c : call' = [call EXCEPT ![h] = c]
      BY Zenon DEF UseCards
    <3>5. LoadAgain(h) => \E c : call' = [call EXCEPT ![h] = c]
      BY DEF LoadAgain, CallsPending
    <3>6. LookUp(h) => \E c : call' = [call EXCEPT ![h] = c]
      BY DEF LookUp, CallsPending
    <3>7. Store(h) => \E c : call' = [call EXCEPT ![h] = c]
      BY Zenon DEF Store
    <3>. QED  BY <1>8, <3>1, <3>2, <3>3, <3>4, <3>5, <3>6, <3>7 DEF CallStep
  <2>. QED  BY <1>2, <2>1, <2>2
<1>9. ASSUME NEW h \in Hosts, Return(h) \/ Raise(h) PROVE CallsPending'
  BY <1>1, <1>9 DEF Return, Raise
<1>10. CASE Edits \/ Clears
  BY <1>3, <1>10 DEF Edits, EditCards, Clears, BeginClear, ClearNext, streamVars
<1>11. CASE UNCHANGED hostVars
  BY <1>3, <1>11 DEF hostVars, streamVars, cacheVars
<1>. QED  BY <1>5, <1>6, <1>7, <1>8, <1>9, <1>10, <1>11 DEF HostNext, Works

LEMMA StreamsKeep ==
    StreamInvariant /\ CallsPending /\ [HostNext]_hostVars
        => StreamInvariant' /\ \A g \in Hosts : KeepsReleased(g)
<1>. DEFINE Goal == StreamInvariant' /\ \A g \in Hosts : KeepsReleased(g)
<1>. SUFFICES ASSUME StreamInvariant, CallsPending, [HostNext]_hostVars PROVE Goal
  OBVIOUS
<1>1. ASSUME UNCHANGED <<workload, runs, records, pending>> PROVE Goal
  BY <1>1, RunsLeftAlone DEF StreamInvariant, HasTarget
<1>2. workload' = workload /\ workload.limit \in Nat
  BY WorkloadAssumption DEF StreamInvariant, HostNext, hostVars
<1>. HIDE DEF Goal
<1>3. ASSUME NEW h \in Hosts, Feeds(h) PROVE Goal
  <2>1. ASSUME NEW ev, PushOther(h, ev) PROVE Goal
    BY <1>1, <1>2, <2>1 DEF PushOther
  <2>2. ASSUME NEW ev, NEW o, PushRun(h, ev, o) PROVE Goal
    <3>1. PICK record : Profile(h, record, Len(runs[h]), o, "push")
      BY <2>2, Zenon DEF PushRun
    <3>2. UNCHANGED <<workload, runs, records>>
      BY <1>2, <2>2 DEF PushRun
    <3>. QED  BY <3>1, <3>2, ProfileKeeps DEF Goal
  <2>. QED  BY <1>3, <2>1, <2>2 DEF Feeds
<1>4. ASSUME NEW h \in Hosts, Learns(h) PROVE Goal
  <2>1. ASSUME NEW index, OutcomeUnused(h, index) PROVE Goal
    BY <1>1, <1>2, <2>1 DEF OutcomeUnused
  <2>2. ASSUME NEW index \in Nat, NEW o, AssociateOutcome(h, index, o) PROVE Goal
    <3>1. /\ Profile(h, records[h][index + 1], index, o, "associate")
          /\ HasInputs(h, index) /\ UNCHANGED <<workload, runs, records>>
      BY <1>2, <2>2 DEF AssociateOutcome
    <3>. QED  BY <3>1, ProfileKeeps DEF Goal
  <2>3. \A index \in 0..workload.limit : index \in Nat
    BY <1>2
  <2>. QED  BY <1>4, <2>1, <2>2, <2>3 DEF Learns
<1>5. ASSUME NEW h \in Hosts, Releases(h) PROVE Goal
  <2>1. PICK index \in 0..(workload.limit - 1) : Release(h, index)
    BY <1>5 DEF Releases
  <2>2. index \in Nat
    BY <1>2
  <2>. QED  BY <1>2, <2>1, <2>2, ReleaseKeeps DEF Goal
<1>6. ASSUME NEW h \in Hosts, Return(h) PROVE Goal
  <2>1. pending[h] # Idle
    BY <1>6 DEF Return, Answered, At, Idle, CallsPending
  <2>. QED  BY <1>2, <1>6, <2>1, ReturnKeeps DEF Goal
<1>7. ASSUME NEW h \in Hosts, Raise(h) PROVE Goal
  <2>1. UNCHANGED <<workload, runs, records>> /\ pending' = [pending EXCEPT ![h] = Idle]
    BY <1>2, <1>7 DEF Raise
  <2>2. /\ DOMAIN pending' = Hosts /\ pending' = [g \in Hosts |-> pending'[g]]
        /\ \A g \in Hosts : pending'[g] = IF g = h THEN Idle ELSE pending[g]
    BY <2>1 DEF StreamInvariant
  <2>3. \A g \in Hosts : HasTarget(g)'
    BY <2>1, <2>2 DEF StreamInvariant, HasTarget
  <2>. QED  BY <2>1, <2>2, <2>3, RunsLeftAlone DEF Goal
<1>8. CASE Edits \/ Clears
  BY <1>1, <1>2, <1>8 DEF Edits, Clears, streamVars
<1>9. ASSUME UNCHANGED streamVars PROVE Goal
  BY <1>1, <1>2, <1>9 DEF streamVars
<1>10. CASE UNCHANGED hostVars
  BY <1>9, <1>10 DEF hostVars
<1>. QED  BY <1>3, <1>4, <1>5, <1>6, <1>7, <1>8, <1>9, <1>10 DEF HostNext, Works

\* Once release() has dropped a run, nothing brings it or its record back: not an outcome
\* that comes later, and not one whose profile was under way.
THEOREM ReleasedStays == HostSpec => ReleasedForGood
<1>1. StreamInit => StreamInvariant /\ CallsPending
  BY StreamsStart DEF StreamInit, CacheInit, CallsPending
<1>2. StreamInvariant /\ CallsPending /\ [HostNext]_hostVars
        => StreamInvariant' /\ CallsPending'
           /\ [\A h \in Hosts : \A k \in DOMAIN runs[h] :
                  runs[h][k] = Released => runs'[h][k] = Released /\ records'[h][k] = Released]_hostVars
  BY StreamsKeep, CallsStayPending DEF KeepsReleased
<1>. QED  BY <1>1, <1>2, PTL DEF HostSpec, ReleasedForGood

-----------------------------------------------------------------------------
(***************************************************************************)
(* The k-th run of a host is the k-th event that became a run.             *)
(***************************************************************************)
Increasing(at, n) == /\ n \in Nat /\ at \in [1..n -> Nat]
                     /\ \A a, b \in 1..n : a < b => at[a] < at[b]
\* at[k] is where the k-th of n members of P is.
Lists(at, n, P) == Increasing(at, n) /\ P = {at[k] : k \in 1..n}

LEMMA CountedInOrder ==
    ASSUME NEW at, NEW n, NEW P, Lists(at, n, P)
    PROVE  /\ Cardinality(P) = n
           /\ \A k \in 1..n : Cardinality({i \in P : i <= at[k]}) = k
<1>1. ASSUME NEW m \in 0..n PROVE Cardinality({at[k] : k \in 1..m}) = m
  <2>. DEFINE f == [k \in 1..m |-> at[k]]
              S == {at[k] : k \in 1..m}
  <2>1. m \in Nat /\ n \in Nat /\ 1..m \subseteq 1..n
    BY <1>1 DEF Lists, Increasing
  <2>2. f \in [1..m -> S] /\ \A t \in S : \E k \in 1..m : f[k] = t
    OBVIOUS
  <2>3. ASSUME NEW a \in 1..m, NEW b \in 1..m, f[a] = f[b] PROVE a = b
    <3>1. a \in 1..n /\ b \in 1..n /\ at[a] = at[b] /\ at[a] \in Nat
      BY <2>1, <2>3 DEF Lists, Increasing
    <3>2. ~(a < b) /\ ~(b < a)
      BY <3>1 DEF Lists, Increasing
    <3>. QED  BY <3>1, <3>2
  <2>. HIDE DEF f, S
  <2>4. f \in Bijection(1..m, S)
    BY <2>2, <2>3 DEF Bijection, Injection, Surjection, IsInjective
  <2>5. ExistsBijection(1..m, S)
    BY <2>4 DEF ExistsBijection
  <2>. QED  BY <2>1, <2>5, FS_CountingElements DEF S
<1>2. ASSUME NEW k \in 1..n PROVE {i \in P : i <= at[k]} = {at[m] : m \in 1..k}
  <2>1. n \in Nat /\ k \in Nat /\ 1..k \subseteq 1..n
    BY DEF Lists, Increasing
  <2>2. ASSUME NEW m \in 1..n PROVE at[m] <= at[k] <=> m <= k
    BY <2>1 DEF Lists, Increasing
  <2>3. ASSUME NEW m \in 1..n PROVE at[m] <= at[k] <=> m \in 1..k
    BY <2>1, <2>2
  <2>. QED  BY <2>1, <2>3 DEF Lists
<1>3. n \in Nat
  BY DEF Lists, Increasing
<1>. QED  BY <1>1, <1>2, <1>3 DEF Lists

\* What Position finds.
LEMMA FoundInOrder ==
    ASSUME NEW h \in Hosts, NEW at, NEW n, Lists(at, n, RunsIn(arrived[h])), NEW k \in 1..n
    PROVE  Position(h, k) = at[k]
<1>. DEFINE P == RunsIn(arrived[h])
            Found(j) == Cardinality({i \in P : i <= j}) = k
<1>1. at[k] \in P /\ Found(at[k])
  BY CountedInOrder DEF Lists
<1>2. ASSUME NEW j \in P, Found(j) PROVE j = at[k]
  <2>1. PICK m \in 1..n : j = at[m]
    BY DEF Lists
  <2>2. Cardinality({i \in P : i <= at[m]}) = m
    BY CountedInOrder
  <2>. QED  BY <1>2, <2>1, <2>2
<1>3. Position(h, k) = CHOOSE j \in P : Found(j)
  BY DEF Position
<1>. HIDE DEF Found, P
<1>. QED  BY <1>1, <1>2, <1>3

Longer(at, n, j) == [k \in 1..(n + 1) |-> IF k = n + 1 THEN j ELSE at[k]]

\* An event that becomes a run after all the others.
LEMMA OneMoreInOrder ==
    ASSUME NEW at, NEW n, NEW P, Lists(at, n, P), NEW j \in Nat, \A i \in P : i < j
    PROVE  Lists(Longer(at, n, j), n + 1, P \cup {j})
<1>. DEFINE longer == Longer(at, n, j)
<1>1. n \in Nat /\ n + 1 \in 1..(n + 1) /\ \A k \in 1..n : at[k] \in P /\ at[k] \in Nat /\ k # n + 1
  BY DEF Lists, Increasing
<1>2. longer \in [1..(n + 1) -> Nat]
  <2>. SUFFICES ASSUME NEW k \in 1..(n + 1), k # n + 1 PROVE at[k] \in Nat
    BY DEF Longer
  <2>1. k \in 1..n
    BY <1>1
  <2>. QED  BY <1>1, <2>1
<1>3. longer[n + 1] = j /\ \A k \in 1..n : k \in 1..(n + 1) /\ longer[k] = at[k]
  BY <1>1 DEF Longer
<1>. HIDE DEF longer
<1>4. ASSUME NEW a \in 1..(n + 1), NEW b \in 1..(n + 1), a < b PROVE longer[a] < longer[b]
  <2>1. a \in 1..n
    BY <1>1, <1>4
  <2>2. CASE b = n + 1
    BY <1>1, <1>3, <2>1, <2>2
  <2>3. CASE b # n + 1
    <3>1. b \in 1..n
      BY <1>1, <2>3
    <3>. QED  BY <1>3, <1>4, <2>1, <3>1 DEF Lists, Increasing
  <2>. QED  BY <2>2, <2>3
<1>5. P \cup {j} = {longer[k] : k \in 1..(n + 1)}
  <2>1. ASSUME NEW k \in 1..(n + 1) PROVE longer[k] \in P \cup {j}
    <3>1. k \in 1..n \/ k = n + 1
      BY <1>1
    <3>. QED  BY <1>1, <1>3, <3>1
  <2>2. ASSUME NEW i \in P PROVE \E k \in 1..(n + 1) : i = longer[k]
    <3>1. PICK k \in 1..n : i = at[k]
      BY DEF Lists
    <3>. QED  BY <1>3, <3>1
  <2>. QED  BY <1>1, <1>3, <2>1, <2>2
<1>6. Increasing(longer, n + 1)
  BY <1>1, <1>2, <1>4 DEF Increasing
<1>. QED  BY <1>5, <1>6 DEF Lists, longer

-----------------------------------------------------------------------------
(***************************************************************************)
(* The playground that a run without one inherits.                         *)
(***************************************************************************)
LEMMA GreatestIsThere ==
    ASSUME NEW n \in Nat, NEW S, S \subseteq 1..n, S # {}
    PROVE  Max(S) \in S /\ \A i \in S : i <= Max(S)
<1>. DEFINE T == {n - i : i \in S}
<1>1. T \subseteq Nat /\ T # {}
  <2>1. \A i \in S : i \in 1..n /\ n - i \in Nat
    OBVIOUS
  <2>. QED  BY <2>1
<1>2. PICK x \in T : \A y \in T : ~(<<y, x>> \in OpToRel(<, Nat))
  BY <1>1, NatLessThanWellFounded, WFMin
<1>3. PICK m \in S : x = n - m
  OBVIOUS
<1>4. ASSUME NEW i \in S PROVE m >= i
  <2>1. n - i \in Nat /\ n - i \in T /\ x \in Nat
    BY <1>1
  <2>2. ~(n - i < x)
    BY <1>2, <2>1 DEF OpToRel
  <2>. QED  BY <1>3, <2>1, <2>2
<1>5. Max(S) \in S /\ \A i \in S : Max(S) >= i
  BY <1>4 DEF Max
<1>. QED  BY <1>5

\* It depends on what arrived up to there only, and not on the outcomes.
SameUpTo(s, t, n) ==
    \A i \in 1..n : /\ i \in DOMAIN s /\ i \in DOMAIN t
                    /\ s[i].ev = t[i].ev /\ s[i].ok = t[i].ok

LEMMA SamePlayground ==
    ASSUME NEW s, NEW t, NEW n \in Nat, Sequence(s), Sequence(t), SameUpTo(s, t, n)
    PROVE  PlaygroundAfter(s, n) = PlaygroundAfter(t, n)
<1>1. /\ Len(s) \in Nat /\ DOMAIN s = 1..Len(s)
      /\ Len(t) \in Nat /\ DOMAIN t = 1..Len(t)
  BY SequenceFacts
<1>2. NamedIn(s, n) = NamedIn(t, n) /\ NamedIn(s, n) \subseteq 1..n
  BY <1>1 DEF NamedIn, RunsIn, SameUpTo
<1>3. CASE NamedIn(s, n) = {}
  BY <1>2, <1>3 DEF PlaygroundAfter
<1>4. CASE NamedIn(s, n) # {}
  <2>1. Max(NamedIn(s, n)) \in 1..n
    BY <1>2, <1>4, GreatestIsThere
  <2>. QED  BY <1>2, <1>4, <2>1 DEF PlaygroundAfter, SameUpTo
<1>. QED  BY <1>3, <1>4

\* One more event.
LEMMA NextPlayground ==
    ASSUME NEW s, Sequence(s), NEW n \in Nat, n + 1 \in DOMAIN s
    PROVE  PlaygroundAfter(s, n + 1) =
               IF n + 1 \in RunsIn(s) /\ s[n + 1].ev.playground # None
               THEN s[n + 1].ev.playground ELSE PlaygroundAfter(s, n)
<1>1. Len(s) \in Nat /\ DOMAIN s = 1..Len(s)
  BY SequenceFacts
<1>2. CASE n + 1 \in RunsIn(s) /\ s[n + 1].ev.playground # None
  <2>1. n + 1 \in NamedIn(s, n + 1) /\ NamedIn(s, n + 1) \subseteq 1..(n + 1)
    BY <1>1, <1>2 DEF NamedIn, RunsIn
  <2>2. Max(NamedIn(s, n + 1)) \in 1..(n + 1) /\ n + 1 <= Max(NamedIn(s, n + 1))
    BY <2>1, GreatestIsThere
  <2>3. Max(NamedIn(s, n + 1)) = n + 1
    BY <2>2
  <2>. QED  BY <1>2, <2>1, <2>3 DEF PlaygroundAfter
<1>3. CASE ~(n + 1 \in RunsIn(s) /\ s[n + 1].ev.playground # None)
  <2>1. NamedIn(s, n + 1) = NamedIn(s, n)
    <3>1. \A i \in RunsIn(s) : i \in Nat
      BY <1>1 DEF RunsIn
    <3>2. \A i \in Nat : i <= n + 1 <=> i <= n \/ i = n + 1
      OBVIOUS
    <3>. QED  BY <1>3, <3>1, <3>2 DEF NamedIn
  <2>. QED  BY <1>3, <2>1 DEF PlaygroundAfter
<1>. QED  BY <1>2, <1>3
-----------------------------------------------------------------------------
(***************************************************************************)
(* What the stream of a host holds, and what it should: a record is that   *)
(* of the event it arrived with, and a run what the batch adapter makes of *)
(* it with the outcome that is known by now.                               *)
(***************************************************************************)
Arrival(a) == a = [ev |-> a.ev, ok |-> a.ok, outcome |-> a.outcome] /\ a.ok \in BOOLEAN
Arrivals(s) == Sequence(s) /\ \A j \in 1..Len(s) : Arrival(s[j])

RecordAt(s, j) ==
    LET ev == s[j].ev
    IN  [xml |-> ev.xml, event |-> j - 1, inherited |-> ev.playground = None,
         playground |-> IF ev.playground = None THEN PlaygroundAfter(s, j - 1)
                        ELSE ev.playground]
ShownFor(h, index, record, outcome) ==
    [index |-> index, event |-> record.event, inherited |-> record.inherited,
     key |-> ProfileKey(record, outcome), id |-> ProgramId(h, index, outcome),
     status |-> Status(ProfileKey(record, outcome))]

RunFits(h, s, run, k, j) ==
    run # Released => Shown(run) = ShownFor(h, k - 1, RecordAt(s, j), s[j].outcome)
RecordFits(s, record, j) == record # Released => record = RecordAt(s, j)

Listed(h, s, rs, recs, at) ==
    /\ Sequence(rs) /\ Sequence(recs) /\ Len(recs) = Len(rs)
    /\ Lists(at, Len(rs), RunsIn(s))
    /\ \A k \in 1..Len(rs) : RunFits(h, s, rs[k], k, at[k]) /\ RecordFits(s, recs[k], at[k])

LEMMA SameRecord ==
    ASSUME NEW s, NEW t, Sequence(s), Sequence(t), NEW j \in 1..Len(s), j \in 1..Len(t),
           SameUpTo(s, t, j - 1), s[j].ev = t[j].ev
    PROVE  RecordAt(s, j) = RecordAt(t, j)
<1>1. j - 1 \in Nat
  BY SequenceFacts
<1>2. PlaygroundAfter(s, j - 1) = PlaygroundAfter(t, j - 1)
  BY <1>1, SamePlayground
<1>. QED  BY <1>2 DEF RecordAt

LEMMA ListedInBounds ==
    ASSUME NEW h, NEW s, NEW rs, NEW recs, NEW at, Sequence(s), Listed(h, s, rs, recs, at),
           NEW k \in 1..Len(rs)
    PROVE  at[k] \in RunsIn(s) /\ at[k] \in 1..Len(s) /\ at[k] \in Nat
<1>1. DOMAIN s = 1..Len(s)
  BY SequenceFacts
<1>2. at[k] \in RunsIn(s) /\ at[k] \in Nat
  BY DEF Listed, Lists, Increasing
<1>. QED  BY <1>1, <1>2 DEF RunsIn

\* An event arrives that is no run, or not yet.
GrownBy(h, s, a, rs, recs, at, t) ==
    /\ Arrivals(t) /\ Len(t) = Len(s) + 1 /\ t[Len(t)] = a
    /\ Listed(h, t, rs, recs, at)
    /\ PlaygroundAfter(t, Len(t)) = PlaygroundAfter(s, Len(s))
    /\ PlaygroundAfter(t, Len(t) - 1) = PlaygroundAfter(s, Len(s))

LEMMA ArrivalFits ==
    ASSUME NEW h, NEW s, NEW rs, NEW recs, NEW at, Arrivals(s), Listed(h, s, rs, recs, at),
           NEW a, Arrival(a), a.ev.type # "runProject" \/ a.ok = FALSE
    PROVE  GrownBy(h, s, a, rs, recs, at, Append(s, a))
<1>. SUFFICES ASSUME NEW t, t = Append(s, a) PROVE GrownBy(h, s, a, rs, recs, at, t)
  OBVIOUS
<1>. DEFINE n == Len(s)
<1>1. /\ Sequence(s) /\ n \in Nat /\ DOMAIN s = 1..n
      /\ Sequence(t) /\ Len(t) = n + 1 /\ DOMAIN t = 1..(n + 1)
      /\ t[n + 1] = a /\ \A j \in 1..n : t[j] = s[j]
  <2>1. Sequence(s)
    BY DEF Arrivals
  <2>2. Sequence(t) /\ Len(t) = n + 1 /\ t[n + 1] = a /\ \A j \in 1..n : t[j] = s[j]
    BY <2>1, SequenceFacts
  <2>3. n \in Nat /\ DOMAIN s = 1..n /\ DOMAIN t = 1..Len(t)
    BY <2>1, <2>2, SequenceFacts
  <2>. QED  BY <2>1, <2>2, <2>3
<1>. HIDE DEF n
<1>2. \A j \in 1..(n + 1) : j \in 1..n \/ j = n + 1
  BY <1>1
<1>3. Arrivals(t)
  BY <1>1, <1>2 DEF Arrivals, n
<1>4. SameUpTo(s, t, n) /\ \A j \in 1..n : SameUpTo(s, t, j - 1)
  BY <1>1 DEF SameUpTo
<1>5. RunsIn(t) = RunsIn(s)
  BY <1>1, <1>2 DEF RunsIn
<1>6. PlaygroundAfter(t, n) = PlaygroundAfter(s, n)
  BY <1>1, <1>4, SamePlayground
<1>7. PlaygroundAfter(t, n + 1) = PlaygroundAfter(t, n)
  <2>1. n + 1 \notin RunsIn(t) /\ n + 1 \in DOMAIN t
    BY <1>1 DEF RunsIn
  <2>. QED  BY <1>1, <2>1, NextPlayground
<1>8. Listed(h, t, rs, recs, at)
  <2>1. ASSUME NEW k \in 1..Len(rs)
        PROVE  RunFits(h, t, rs[k], k, at[k]) /\ RecordFits(t, recs[k], at[k])
    <3>1. at[k] \in 1..n /\ at[k] \in 1..(n + 1)
      BY <1>1, ListedInBounds DEF n
    <3>2. RecordAt(s, at[k]) = RecordAt(t, at[k]) /\ s[at[k]] = t[at[k]]
      BY <1>1, <1>4, <3>1, SameRecord DEF n
    <3>. QED  BY <3>2 DEF Listed, RunFits, RecordFits
  <2>. QED  BY <1>5, <2>1 DEF Listed
<1>. QED  BY <1>1, <1>3, <1>6, <1>7, <1>8 DEF n, GrownBy

\* The push that was under way returns: the last event is a run.
PushedOn(h, s, rs, recs, run, record, t) ==
    /\ Arrivals(t) /\ Len(t) = Len(s)
    /\ \A i \in 1..(Len(s) - 1) : t[i] = s[i]
    /\ t[Len(s)].ok = TRUE
    /\ \E longer : Listed(h, t, Append(rs, run), Append(recs, record), longer)
    /\ PlaygroundAfter(t, Len(t)) = record.playground

LEMMA PushFits ==
    ASSUME NEW h, NEW s, NEW rs, NEW recs, NEW at, Arrivals(s), Listed(h, s, rs, recs, at),
           s # <<>>, s[Len(s)].ev.type = "runProject", s[Len(s)].ok = FALSE, NEW run,
           NEW record, record = RecordAt(s, Len(s)),
           Shown(run) = ShownFor(h, Len(rs), record, s[Len(s)].outcome)
    PROVE  PushedOn(h, s, rs, recs, run, record, [s EXCEPT ![Len(s)].ok = TRUE])
<1>. SUFFICES ASSUME NEW t, t = [s EXCEPT ![Len(s)].ok = TRUE]
              PROVE  PushedOn(h, s, rs, recs, run, record, t)
  OBVIOUS
<1>. DEFINE n == Len(s)
            a == s[n]
            yes == TRUE
            b == [a EXCEPT !.ok = yes]
            m == Len(rs)
<1>1. Sequence(s) /\ Sequence(rs) /\ Sequence(recs) /\ m \in Nat /\ Len(recs) = m
  BY SequenceFacts DEF Arrivals, Listed
<1>2. n \in Nat /\ n # 0 /\ n \in 1..n /\ DOMAIN s = 1..n
  <2>1. n \in Nat /\ DOMAIN s = 1..n
    BY <1>1, SequenceFacts
  <2>2. n # 0
    BY <1>1 DEF Sequence
  <2>. QED  BY <2>1, <2>2
<1>3. t = [s EXCEPT ![n] = b]
  OBVIOUS
<1>4. b = [ev |-> a.ev, ok |-> yes, outcome |-> a.outcome]
  <2>1. Arrival(a)
    BY <1>2 DEF Arrivals
  <2>. HIDE DEF a, yes
  <2>. QED  BY <2>1 DEF Arrival
<1>. HIDE DEF b
<1>5. /\ Sequence(t) /\ Len(t) = n /\ DOMAIN t = 1..n
      /\ \A j \in 1..n : t[j] = IF j = n THEN b ELSE s[j]
  <2>. DEFINE u == [s EXCEPT ![n] = b]
  <2>1. Sequence(u) /\ Len(u) = n /\ \A j \in 1..n : u[j] = IF j = n THEN b ELSE s[j]
    BY <1>1, <1>2, SequenceFacts
  <2>. HIDE DEF u
  <2>2. DOMAIN u = 1..Len(u)
    BY <2>1, SequenceFacts
  <2>. QED  BY <1>3, <2>1, <2>2 DEF u
<1>6. b.ev = a.ev /\ b.ok = TRUE /\ b.outcome = a.outcome /\ Arrival(b)
  BY <1>4 DEF Arrival
<1>7. Arrivals(t)
  BY <1>5, <1>6 DEF Arrivals
<1>8. /\ SameUpTo(s, t, n - 1) /\ \A j \in 1..n : SameUpTo(s, t, j - 1)
      /\ \A j \in 1..n : t[j].ev = s[j].ev /\ t[j].outcome = s[j].outcome
  <2>1. \A j \in 1..n : t[j].ev = s[j].ev /\ t[j].outcome = s[j].outcome
    BY <1>2, <1>5, <1>6
  <2>2. ASSUME NEW j \in 1..n PROVE SameUpTo(s, t, j - 1)
    <3>. SUFFICES ASSUME NEW i \in 1..(j - 1)
                  PROVE  i \in 1..n /\ t[i] = s[i]
      BY <1>2, <1>5 DEF SameUpTo
    <3>1. i \in 1..n /\ i # n
      BY <1>2
    <3>. QED  BY <1>5, <3>1
  <2>. QED  BY <1>2, <2>1, <2>2
<1>9. RunsIn(t) = RunsIn(s) \cup {n} /\ \A i \in RunsIn(s) : i < n
  <2>1. n \in RunsIn(t) /\ n \notin RunsIn(s)
    BY <1>2, <1>5, <1>6 DEF RunsIn
  <2>2. \A i \in 1..n : i # n => (i \in RunsIn(t) <=> i \in RunsIn(s))
    BY <1>2, <1>5 DEF RunsIn
  <2>3. RunsIn(s) \subseteq 1..n /\ RunsIn(t) \subseteq 1..n
    BY <1>2, <1>5 DEF RunsIn
  <2>4. \A i \in 1..n : i # n => i < n
    BY <1>2
  <2>. HIDE DEF n
  <2>. QED  BY <1>2, <2>1, <2>2, <2>3, <2>4
<1>10. ASSUME NEW j \in 1..n PROVE RecordAt(t, j) = RecordAt(s, j)
  <2>1. SameUpTo(s, t, j - 1) /\ t[j].ev = s[j].ev /\ j \in 1..Len(t)
    BY <1>5, <1>8
  <2>. QED  BY <1>1, <1>5, <2>1, SameRecord
<1>11. PlaygroundAfter(t, n) = record.playground
  <2>1. n - 1 \in Nat /\ n = (n - 1) + 1
    BY <1>2
  <2>2. PlaygroundAfter(t, (n - 1) + 1) =
            IF (n - 1) + 1 \in RunsIn(t) /\ t[(n - 1) + 1].ev.playground # None
            THEN t[(n - 1) + 1].ev.playground ELSE PlaygroundAfter(t, n - 1)
    BY <1>2, <1>5, <2>1, NextPlayground
  <2>3. PlaygroundAfter(t, n) = IF t[n].ev.playground # None
                                THEN t[n].ev.playground ELSE PlaygroundAfter(t, n - 1)
    BY <1>9, <2>1, <2>2
  <2>4. PlaygroundAfter(t, n - 1) = PlaygroundAfter(s, n - 1)
    BY <1>1, <1>5, <1>8, <2>1, SamePlayground
  <2>. QED  BY <1>2, <1>8, <2>3, <2>4 DEF RecordAt
<1>12. Listed(h, t, Append(rs, run), Append(recs, record), Longer(at, m, n))
  <2>. DEFINE rs2 == Append(rs, run)
              recs2 == Append(recs, record)
              longer == Longer(at, m, n)
  <2>1. /\ Sequence(rs2) /\ Len(rs2) = m + 1 /\ rs2[m + 1] = run
        /\ \A k \in 1..m : rs2[k] = rs[k]
    BY <1>1, SequenceFacts
  <2>2. /\ Sequence(recs2) /\ Len(recs2) = m + 1 /\ recs2[m + 1] = record
        /\ \A k \in 1..m : recs2[k] = recs[k]
    BY <1>1, SequenceFacts
  <2>3. Lists(longer, m + 1, RunsIn(t))
    <3>1. Lists(at, m, RunsIn(s)) /\ n \in Nat
      BY <1>2 DEF Listed
    <3>2. Lists(longer, m + 1, RunsIn(s) \cup {n})
      BY <1>9, <3>1, OneMoreInOrder
    <3>. QED  BY <1>9, <3>2
  <2>4. longer[m + 1] = n /\ \A k \in 1..m : longer[k] = at[k]
    BY <1>1 DEF Longer
  <2>. HIDE DEF rs2, recs2, longer
  <2>5. ASSUME NEW k \in 1..(m + 1)
        PROVE  RunFits(h, t, rs2[k], k, longer[k]) /\ RecordFits(t, recs2[k], longer[k])
    <3>1. CASE k = m + 1
      <4>1. RecordAt(t, n) = record /\ t[n].outcome = s[n].outcome
        BY <1>2, <1>8, <1>10
      <4>2. (m + 1) - 1 = m
        BY <1>1
      <4>. QED  BY <2>1, <2>2, <2>4, <3>1, <4>1, <4>2 DEF RunFits, RecordFits
    <3>2. CASE k # m + 1
      <4>1. k \in 1..m
        BY <1>1, <3>2
      <4>2. at[k] \in 1..n
        BY <1>1, <4>1, ListedInBounds
      <4>3. RecordAt(t, at[k]) = RecordAt(s, at[k]) /\ t[at[k]].outcome = s[at[k]].outcome
        BY <1>8, <1>10, <4>2
      <4>. QED  BY <2>1, <2>2, <2>4, <4>1, <4>3 DEF Listed, RunFits, RecordFits
    <3>. QED  BY <3>1, <3>2
  <2>. QED  BY <2>1, <2>2, <2>3, <2>5 DEF Listed, rs2, recs2, longer
<1>13. (\A i \in 1..(n - 1) : t[i] = s[i]) /\ t[n].ok = TRUE
  <2>1. \A i \in 1..(n - 1) : i \in 1..n /\ i # n
    BY <1>2
  <2>. QED  BY <1>2, <1>5, <1>6, <2>1
<1>. QED  BY <1>5, <1>7, <1>11, <1>12, <1>13, Zenon DEF PushedOn

\* The associate_outcome that was under way returns: a run has its outcome.
RunAgain(h, s, rs, recs, at, t) ==
    /\ Arrivals(t) /\ Len(t) = Len(s)
    /\ \A i \in 1..Len(s) : t[i].ev = s[i].ev /\ t[i].ok = s[i].ok
    /\ Listed(h, t, rs, recs, at)
    /\ PlaygroundAfter(t, Len(t)) = PlaygroundAfter(s, Len(s))

LEMMA AssociateFits ==
    ASSUME NEW h, NEW s, NEW rs, NEW recs, NEW at, Arrivals(s), Listed(h, s, rs, recs, at),
           NEW m \in 1..Len(rs), recs[m] # Released, NEW outcome, NEW run,
           Shown(run) = ShownFor(h, m - 1, recs[m], outcome)
    PROVE  RunAgain(h, s, [rs EXCEPT ![m] = run], recs, at, [s EXCEPT ![at[m]].outcome = outcome])
<1>. SUFFICES ASSUME NEW t, t = [s EXCEPT ![at[m]].outcome = outcome]
              PROVE  RunAgain(h, s, [rs EXCEPT ![m] = run], recs, at, t)
  OBVIOUS
<1>. DEFINE n == Len(s)
            x == at[m]
            a == s[x]
            b == [a EXCEPT !.outcome = outcome]
            rs2 == [rs EXCEPT ![m] = run]
<1>1. Sequence(s) /\ Sequence(rs) /\ n \in Nat /\ DOMAIN s = 1..n /\ Len(rs) \in Nat
  BY SequenceFacts DEF Arrivals, Listed
<1>2. x \in 1..n
  BY <1>1, ListedInBounds
<1>3. t = [s EXCEPT ![x] = b]
  OBVIOUS
<1>4. Arrival(a) /\ b = [ev |-> a.ev, ok |-> a.ok, outcome |-> outcome]
  <2>1. Arrival(a)
    BY <1>2 DEF Arrivals
  <2>. HIDE DEF a
  <2>. QED  BY <2>1 DEF Arrival
<1>5. b.ev = a.ev /\ b.ok = a.ok /\ b.outcome = outcome /\ Arrival(b)
  BY <1>4 DEF Arrival
<1>. HIDE DEF b, x
<1>6. /\ Sequence(t) /\ Len(t) = n /\ DOMAIN t = 1..n
      /\ \A j \in 1..n : t[j] = IF j = x THEN b ELSE s[j]
  <2>. DEFINE u == [s EXCEPT ![x] = b]
  <2>1. Sequence(u) /\ Len(u) = n /\ \A j \in 1..n : u[j] = IF j = x THEN b ELSE s[j]
    BY <1>1, <1>2, SequenceFacts
  <2>. HIDE DEF u
  <2>2. DOMAIN u = 1..Len(u)
    BY <2>1, SequenceFacts
  <2>. QED  BY <1>3, <2>1, <2>2 DEF u
<1>7. /\ Sequence(rs2) /\ Len(rs2) = Len(rs)
      /\ \A k \in 1..Len(rs) : rs2[k] = IF k = m THEN run ELSE rs[k]
  BY <1>1, SequenceFacts
<1>. HIDE DEF rs2
<1>8. Arrivals(t) /\ \A j \in 1..n : t[j].ev = s[j].ev /\ t[j].ok = s[j].ok
  BY <1>5, <1>6 DEF Arrivals
<1>9. RunsIn(t) = RunsIn(s)
  BY <1>1, <1>6, <1>8 DEF RunsIn
<1>10. SameUpTo(s, t, n) /\ \A j \in 1..n : SameUpTo(s, t, j - 1)
  BY <1>1, <1>6, <1>8 DEF SameUpTo
<1>11. PlaygroundAfter(t, n) = PlaygroundAfter(s, n)
  BY <1>1, <1>6, <1>10, SamePlayground
<1>12. ASSUME NEW j \in 1..n PROVE RecordAt(t, j) = RecordAt(s, j)
  <2>1. SameUpTo(s, t, j - 1) /\ s[j].ev = t[j].ev /\ j \in 1..Len(t) /\ j \in 1..Len(s)
    BY <1>6, <1>8, <1>10
  <2>2. Sequence(s) /\ Sequence(t)
    BY <1>1, <1>6
  <2>. QED  BY <2>1, <2>2, SameRecord
<1>13. ASSUME NEW k \in 1..Len(rs)
       PROVE  RunFits(h, t, rs2[k], k, at[k]) /\ RecordFits(t, recs[k], at[k])
  <2>1. at[k] \in 1..n /\ RecordAt(t, at[k]) = RecordAt(s, at[k])
    BY <1>1, <1>12, ListedInBounds
  <2>2. RecordFits(t, recs[k], at[k])
    BY <2>1 DEF RecordFits, Listed
  <2>3. CASE k = m
    <3>1. recs[m] = RecordAt(t, x) /\ t[x].outcome = outcome
      BY <1>2, <1>5, <1>6, <2>2, <2>3 DEF RecordFits, x
    <3>. QED  BY <1>7, <2>2, <2>3, <3>1 DEF RunFits, x
  <2>4. CASE k # m
    <3>1. at[k] # x
      BY <1>1, <2>4 DEF Listed, Lists, Increasing, x
    <3>. QED  BY <1>6, <1>7, <2>1, <2>2, <2>4, <3>1 DEF RunFits, Listed
  <2>. QED  BY <2>3, <2>4
<1>14. Listed(h, t, rs2, recs, at)
  BY <1>7, <1>9, <1>13 DEF Listed
<1>. QED  BY <1>6, <1>8, <1>11, <1>14 DEF rs2, RunAgain
-----------------------------------------------------------------------------
(***************************************************************************)
(* What a call computes: the result of the inputs of the push or           *)
(* associate_outcome that its host is in.  A result of the cache is known  *)
(* by its key, so that it does not matter who stored it, or when.          *)
(***************************************************************************)
KeyOf(p) == ProfileKey(p.record, p.outcome)
IdOf(h, p) == ProgramId(h, p.index, p.outcome)

CallIsAbout(c, key, id) ==
    \/ c.at \in Places /\ c.key = key /\ c.id = id
    \/ /\ c.at = "answered"
       /\ c.result.key = key /\ c.result.id = id /\ c.result.status = Status(key)

\* The cards have been malformed at some time.
MalformedBy(version) == \E v \in Malformed : v \in Nat /\ v <= version

CallFits(h, c, p, version) ==
    c # Idle => /\ p # Idle /\ CallIsAbout(c, KeyOf(p), IdOf(h, p))
                /\ c.at = "raised" => MalformedBy(version)
CallsFit == /\ DOMAIN call = Hosts /\ DOMAIN pending = Hosts
            /\ \A h \in Hosts : CallFits(h, call[h], pending[h], disk)

EntryFits(e) == e.result.key = e.key /\ e.result.status = Status(e.key)
CacheFits == \E S : results \in Seq(S) /\ \A e \in S : EntryFits(e)

\* A step of a call: what it is about stays the same.
LEMMA ReadAbout ==
    ASSUME NEW h \in Hosts, NEW lo \in Nat, NEW hi \in Nat, OpenFrom(call[h], lo, hi), NEW v
    PROVE  /\ Read(h, v).at \in Places \ {"raised"}
           /\ Read(h, v).key = call[h].key /\ Read(h, v).id = call[h].id
<1>. DEFINE c == call[h]
            at == CASE c.purpose = "params" -> "lookup"
                    [] c.purpose = "canonical" ->
                          IF c.key.playground \in Supported THEN "load" ELSE "store"
                    [] c.purpose = "cards" -> "computed"
            purpose == IF c.purpose = "canonical" THEN "cards" ELSE c.purpose
<1>1. c \in [at : Places, purpose : {"params", "canonical", "cards"}, key : {c.key},
              id : {c.id}, used : SUBSET (lo..hi), read : Nat, after : Nat]
  BY DEF OpenFrom
<1>2. Read(h, v) = [c EXCEPT !.used = c.used \cup {v}, !.at = at, !.purpose = purpose]
  BY DEF Read
<1>3. at \in Places \ {"raised"}
  BY <1>1 DEF Places
<1>. HIDE DEF at, purpose, c
<1>4. Read(h, v) = [at |-> at, purpose |-> purpose, key |-> c.key, id |-> c.id,
                    used |-> c.used \cup {v}, read |-> c.read, after |-> c.after]
  BY <1>1, <1>2
<1>. QED  BY <1>3, <1>4 DEF c

LEMMA CallStepFits ==
    ASSUME CacheInvariant, CacheFits, NEW h \in Hosts, CallStep(h),
           NEW key, NEW id, CallIsAbout(call[h], key, id)
    PROVE  /\ call' = [call EXCEPT ![h] = call'[h]] /\ CallIsAbout(call'[h], key, id)
           /\ call'[h].at = "raised" => MalformedBy(disk)
           /\ CacheFits' /\ call[h] # Idle /\ disk' = disk
<1>. DEFINE c == call[h]
<1>1. c.at \in Places \ {"raised"}
  BY DEF CallStep, FindAliases, LoadCards, CardsCached, CardsFromDisk, CardsMalformed,
         KeepCards, UseCards, LoadAgain, LookUp, Store, At, Places
<1>2. OpenFrom(c, Low, disk) /\ c # Idle
  BY <1>1, OpenIsTyped DEF CacheInvariant, Calls, Places
<1>3. c \in [at : Places, purpose : {"params", "canonical", "cards"}, key : {c.key},
             id : {c.id}, used : SUBSET (Low..disk), read : Nat, after : Nat]
  BY <1>2 DEF OpenFrom
<1>4. /\ c.key = key /\ c.id = id /\ DOMAIN call = Hosts /\ call = [g \in Hosts |-> call[g]]
      /\ Low \in Nat /\ disk \in Nat /\ disk' = disk
  <2>1. disk' = disk
    BY DEF CallStep, FindAliases, LoadCards, KeepCards, UseCards, LoadAgain, LookUp, Store
  <2>. QED  BY <1>1, <2>1, WindowIsTyped DEF CacheInvariant, Versions, Calls, CallIsAbout, Places
<1>. HIDE DEF c
\* It is enough to say what becomes of the call and of the results.
<1>5. ASSUME NEW d, call' = [call EXCEPT ![h] = d], CallIsAbout(d, key, id),
             d.at = "raised" => MalformedBy(disk), CacheFits'
      PROVE  /\ call' = [call EXCEPT ![h] = call'[h]] /\ CallIsAbout(call'[h], key, id)
             /\ call'[h].at = "raised" => MalformedBy(disk)
             /\ CacheFits' /\ call[h] # Idle /\ disk' = disk
  <2>1. call'[h] = d
    BY <1>4, <1>5
  <2>. QED  BY <1>2, <1>4, <1>5, <2>1 DEF c
<1>6. ASSUME results' = results PROVE CacheFits'
  BY <1>6 DEF CacheFits
<1>. DEFINE OpenAbout(d) == d.at \in Places \ {"raised"} /\ d.key = c.key /\ d.id = c.id
<1>7. ASSUME NEW d, OpenAbout(d) PROVE CallIsAbout(d, key, id) /\ d.at # "raised"
  BY <1>4, <1>7 DEF CallIsAbout
<1>8. \A v : OpenAbout(Read(h, v))
  BY <1>2, <1>4, ReadAbout DEF c
<1>9. ASSUME NEW place \in Places
      PROVE  [c EXCEPT !.at = place].at = place /\ [c EXCEPT !.at = place].key = c.key
             /\ [c EXCEPT !.at = place].id = c.id
  BY <1>3
<1>10. {"lookup", "load", "keep", "loaded", "resolve"} \subseteq Places \ {"raised"}
       /\ "raised" \in Places
  BY DEF Places
<1>. HIDE DEF OpenAbout
<1>11. CASE FindAliases(h)
  <2>1. OpenAbout([c EXCEPT !.at = "load"])
    BY <1>9, <1>10 DEF OpenAbout
  <2>2. PICK d : call' = [call EXCEPT ![h] = d] /\ OpenAbout(d)
    BY <1>8, <1>11, <2>1 DEF FindAliases, c
  <2>. QED  BY <1>5, <1>6, <1>7, <1>11, <2>2 DEF FindAliases
<1>12. CASE LoadCards(h)
  <2>1. ASSUME NEW v, NEW place \in Places
        PROVE  /\ [c EXCEPT !.read = v, !.at = place].at = place
               /\ [c EXCEPT !.read = v, !.at = place].key = c.key
               /\ [c EXCEPT !.read = v, !.at = place].id = c.id
    <3>. DEFINE b == [c EXCEPT !.read = v]
    <3>1. b = [at |-> c.at, purpose |-> c.purpose, key |-> c.key, id |-> c.id,
               used |-> c.used, read |-> v, after |-> c.after]
      BY <1>3
    <3>. HIDE DEF b
    <3>2. [b EXCEPT !.at = place] = [at |-> place, purpose |-> c.purpose, key |-> c.key,
               id |-> c.id, used |-> c.used, read |-> v, after |-> c.after]
      BY <3>1
    <3>. QED  BY <3>2 DEF b
  <2>2. CASE CardsCached(h)
    <3>1. call' = [call EXCEPT ![h] = [c EXCEPT !.read = cards, !.at = "loaded"]]
      BY <1>4, <2>2 DEF CardsCached, c
    <3>2. OpenAbout([c EXCEPT !.read = cards, !.at = "loaded"])
      BY <1>10, <2>1 DEF OpenAbout
    <3>. QED  BY <1>5, <1>6, <1>7, <1>12, <3>1, <3>2 DEF LoadCards
  <2>3. CASE CardsFromDisk(h)
    <3>1. call' = [call EXCEPT ![h] = [c EXCEPT !.read = disk, !.at = "keep"]]
      BY <1>4, <2>3 DEF CardsFromDisk, c
    <3>2. OpenAbout([c EXCEPT !.read = disk, !.at = "keep"])
      BY <1>10, <2>1 DEF OpenAbout
    <3>. QED  BY <1>5, <1>6, <1>7, <1>12, <3>1, <3>2 DEF LoadCards
  <2>4. CASE CardsMalformed(h)
    <3>1. call' = [call EXCEPT ![h] = [c EXCEPT !.at = "raised"]]
      BY <1>4, <2>4 DEF CardsMalformed, c
    <3>2. CallIsAbout([c EXCEPT !.at = "raised"], key, id)
      BY <1>4, <1>9, <1>10 DEF CallIsAbout
    <3>3. MalformedBy(disk)
      BY <1>4, <2>4 DEF CardsMalformed, MalformedBy
    <3>. QED  BY <1>5, <1>6, <1>12, <3>1, <3>2, <3>3 DEF LoadCards
  <2>. QED  BY <1>12, <2>2, <2>3, <2>4 DEF LoadCards
<1>13. CASE KeepCards(h) \/ LoadAgain(h)
  <2>1. PICK place \in {"loaded", "load"} : call' = [call EXCEPT ![h] = [c EXCEPT !.at = place]]
    BY <1>4, <1>13 DEF KeepCards, LoadAgain, c
  <2>2. OpenAbout([c EXCEPT !.at = place])
    BY <1>9, <1>10 DEF OpenAbout
  <2>. QED  BY <1>5, <1>6, <1>7, <1>13, <2>1, <2>2 DEF KeepCards, LoadAgain
<1>14. CASE UseCards(h)
  <2>1. call' = [call EXCEPT ![h] = Read(h, c.read)]
    BY <1>14 DEF UseCards, c
  <2>. QED  BY <1>5, <1>6, <1>7, <1>8, <1>14, <2>1 DEF UseCards
<1>15. CASE LookUp(h)
  <2>1. CASE Cached(h) = {}
    <3>. DEFINE d == [c EXCEPT !.at = "resolve", !.purpose = "canonical"]
    <3>1. OpenAbout(d)
      <4>. DEFINE b == [c EXCEPT !.at = "resolve"]
      <4>1. b = [at |-> "resolve", purpose |-> c.purpose, key |-> c.key, id |-> c.id,
                 used |-> c.used, read |-> c.read, after |-> c.after]
        BY <1>3
      <4>. HIDE DEF b
      <4>2. [b EXCEPT !.purpose = "canonical"] = [at |-> "resolve", purpose |-> "canonical",
                 key |-> c.key, id |-> c.id, used |-> c.used, read |-> c.read, after |-> c.after]
        BY <4>1
      <4>. QED  BY <1>10, <4>2 DEF b, OpenAbout
    <3>2. call' = [call EXCEPT ![h] = d]
      BY <1>4, <1>15, <2>1 DEF LookUp, c
    <3>. HIDE DEF d
    <3>. QED  BY <1>5, <1>6, <1>7, <1>15, <2>1, <3>1, <3>2 DEF LookUp
  <2>2. CASE Cached(h) # {}
    <3>1. PICK i \in Cached(h) :
            /\ results' = Append(RemoveAt(results, i), results[i])
            /\ call' = [call EXCEPT ![h] =
                 [at |-> "answered", after |-> c.after,
                  result |-> [Restamped(results[i].result, h) EXCEPT !.used = @ \cup c.used]]]
      BY <1>15, <2>2 DEF LookUp, c
    <3>. DEFINE r == results[i].result
                a == [Restamped(r, h) EXCEPT !.used = @ \cup c.used]
                d == [at |-> "answered", after |-> c.after, result |-> a]
    <3>2. i \in DOMAIN results /\ results[i].key = c.key
      BY DEF Cached, CacheKey, c
    <3>3. PICK S : results \in Seq(S) /\ \A e \in S : EntryFits(e)
      BY DEF CacheFits
    <3>4. results' \in Seq(S) /\ results[i] \in S
      BY <3>1, <3>2, <3>3, TouchedIn
    <3>5. CacheFits'
      BY <3>3, <3>4 DEF CacheFits
    <3>6. r.key = key /\ r.status = Status(key)
      BY <1>4, <3>2, <3>3, <3>4 DEF EntryFits
    <3>7. ResultFrom(r, Low, disk)
      BY <3>2, TouchedFrom DEF CacheInvariant, Caches
    <3>8. a.key = key /\ a.id = id /\ a.status = Status(key)
      <4>1. a = [key |-> r.key, id |-> call[h].id, status |-> r.status,
                 used |-> r.used \cup c.used]
        BY <3>7, HitAnswer
      <4>. HIDE DEF a, r
      <4>. QED  BY <1>4, <3>6, <4>1 DEF c
    <3>. HIDE DEF a
    <3>9. CallIsAbout(d, key, id) /\ d.at # "raised"
      BY <3>8 DEF CallIsAbout
    <3>. QED  BY <1>5, <3>1, <3>5, <3>9 DEF a
  <2>. QED  BY <2>1, <2>2
<1>16. CASE Store(h)
  <2>. DEFINE a == [key |-> c.key, id |-> c.id, status |-> Status(c.key), used |-> c.used]
              d == [at |-> "answered", after |-> c.after, result |-> a]
              entry == [key |-> CacheKey(h), result |-> a]
  <2>1. results' = Kept(a, h) /\ call' = [call EXCEPT ![h] = d]
    BY <1>16 DEF Store, c
  <2>2. EntryFits(entry)
    BY DEF EntryFits, CacheKey, c
  <2>3. CallIsAbout(d, key, id) /\ d.at # "raised"
    BY <1>4 DEF CallIsAbout
  <2>4. CacheFits'
    <3>1. PICK S : results \in Seq(S) /\ \A e \in S : EntryFits(e)
      BY DEF CacheFits
    <3>. DEFINE T == S \cup {entry}
    <3>2. results \in Seq(T) /\ (\A e \in T : EntryFits(e)) /\ entry \in T
      BY <2>2, <3>1, LargerSeq
    <3>. HIDE DEF T, a
    <3>3. Kept(a, h) \in Seq(T)
      BY <3>2, KeptIn
    <3>. QED  BY <2>1, <3>2, <3>3 DEF CacheFits
  <2>. QED  BY <1>5, <2>1, <2>3, <2>4
<1>. QED  BY <1>11, <1>12, <1>13, <1>14, <1>15, <1>16 DEF CallStep
-----------------------------------------------------------------------------
(***************************************************************************)
(* A host between its steps.                                               *)
(***************************************************************************)
PushUnderWay(s, rs, p) ==
    /\ p.what = "push" /\ s # <<>>
    /\ s[Len(s)].ev.type = "runProject" /\ s[Len(s)].ok = FALSE
    /\ p.record = RecordAt(s, Len(s)) /\ p.index = Len(rs) /\ p.outcome = s[Len(s)].outcome
AssociateUnderWay(rs, recs, p) ==
    /\ p.what = "associate" /\ p.index \in Nat /\ p.index + 1 \in 1..Len(rs)
    /\ p.record = recs[p.index + 1] /\ p.record # Released

\* An event that did not become its run is being pushed, or met malformed cards.
Excused(s, p, version, i) ==
    \/ i = Len(s) /\ p # Idle /\ p.what = "push"
    \/ MalformedBy(version)

StreamIs(h, s, rs, recs, playground, count, p, version) ==
    /\ Arrivals(s) /\ count = Len(s)
    /\ playground = PlaygroundAfter(s, Len(s))
    /\ \E at : Listed(h, s, rs, recs, at)
    /\ p # Idle => PushUnderWay(s, rs, p) \/ AssociateUnderWay(rs, recs, p)
    /\ \A i \in 1..Len(s) : s[i].ev.type = "runProject" /\ s[i].ok = FALSE
                              => Excused(s, p, version, i)

StreamFits(h) == StreamIs(h, arrived[h], runs[h], records[h], previous[h], consumed[h],
                          pending[h], disk)
StreamsFit ==
    /\ DOMAIN arrived = Hosts /\ DOMAIN runs = Hosts /\ DOMAIN records = Hosts
    /\ DOMAIN previous = Hosts /\ DOMAIN consumed = Hosts /\ DOMAIN pending = Hosts
    /\ \A h \in Hosts : StreamFits(h)

PrefixInvariant ==
    workload \in Workloads /\ CacheInvariant /\ CacheFits /\ CallsFit /\ StreamsFit

LEMMA MalformedStays ==
    ASSUME NEW v \in Nat, NEW w \in Nat, v <= w, MalformedBy(v)
    PROVE  MalformedBy(w)
<1>1. PICK x \in Malformed : x \in Nat /\ x <= v
  BY DEF MalformedBy
<1>2. x <= w
  BY <1>1
<1>. QED  BY <1>1, <1>2 DEF MalformedBy

\* What an answer makes of a run.
LEMMA AnsweredRunIsShown ==
    ASSUME NEW h, NEW p, NEW c, CallIsAbout(c, KeyOf(p), IdOf(h, p)), c.at = "answered"
    PROVE  /\ Shown(RunOf(c.result, p.record, p.index))
                 = ShownFor(h, p.index, p.record, p.outcome)
           /\ RunOf(c.result, p.record, p.index) # Released
<1>1. "answered" \notin Places
  BY DEF Places
<1>2. /\ c.result.key = ProfileKey(p.record, p.outcome)
      /\ c.result.id = ProgramId(h, p.index, p.outcome)
      /\ c.result.status = Status(ProfileKey(p.record, p.outcome))
  BY <1>1 DEF CallIsAbout, KeyOf, IdOf
<1>3. Shown(RunOf(c.result, p.record, p.index)) =
          [index |-> p.index, event |-> p.record.event, inherited |-> p.record.inherited,
           key |-> c.result.key, id |-> c.result.id, status |-> c.result.status]
  BY DEF Shown, RunOf
<1>4. RunOf(c.result, p.record, p.index) # Released
  BY DEF RunOf, Released
<1>. QED  BY <1>2, <1>3, <1>4 DEF ShownFor

-----------------------------------------------------------------------------
(***************************************************************************)
(* What each of the steps of a stream makes of it.                         *)
(***************************************************************************)
LEMMA EventArrives ==
    ASSUME NEW h, NEW s, NEW rs, NEW recs, NEW pg, NEW count, NEW version,
           StreamIs(h, s, rs, recs, pg, count, Idle, version),
           NEW a, Arrival(a), NEW t, t = Append(s, a), NEW p,
           \/ a.ev.type # "runProject" /\ p = Idle
           \/ /\ a.ev.type = "runProject" /\ a.ok = FALSE
              /\ p # Idle /\ p.what = "push" /\ p.index = Len(rs) /\ p.outcome = a.outcome
              /\ p.record = [xml |-> a.ev.xml, event |-> count,
                             inherited |-> a.ev.playground = None,
                             playground |-> IF a.ev.playground = None THEN pg
                                            ELSE a.ev.playground]
    PROVE  StreamIs(h, t, rs, recs, pg, count + 1, p, version)
<1>1. PICK at : Listed(h, s, rs, recs, at)
  BY DEF StreamIs
<1>2. Arrivals(s) /\ count = Len(s) /\ pg = PlaygroundAfter(s, Len(s)) /\ Len(s) \in Nat
  BY SequenceFacts DEF StreamIs, Arrivals
<1>3. /\ Arrivals(t) /\ Len(t) = Len(s) + 1 /\ t[Len(t)] = a
      /\ Listed(h, t, rs, recs, at)
      /\ PlaygroundAfter(t, Len(t)) = PlaygroundAfter(s, Len(s))
      /\ PlaygroundAfter(t, Len(t) - 1) = PlaygroundAfter(s, Len(s))
  <2>1. a.ev.type # "runProject" \/ a.ok = FALSE
    OBVIOUS
  <2>2. GrownBy(h, s, a, rs, recs, at, Append(s, a))
    BY <1>1, <1>2, <2>1, ArrivalFits
  <2>. QED  BY <2>2 DEF GrownBy
<1>4. p # Idle => PushUnderWay(t, rs, p)
  <2>. SUFFICES ASSUME p # Idle PROVE PushUnderWay(t, rs, p)
    OBVIOUS
  <2>1. t # <<>>
    <3>1. Len(<<>>) = 0
      OBVIOUS
    <3>. QED  BY <1>2, <1>3, <3>1
  <2>2. p.record = RecordAt(t, Len(t))
    <3>1. count = Len(t) - 1
      BY <1>2, <1>3
    <3>. QED  BY <1>2, <1>3, <3>1 DEF RecordAt
  <2>. QED  BY <1>3, <2>1, <2>2 DEF PushUnderWay
<1>5. ASSUME NEW i \in 1..Len(t), t[i].ev.type = "runProject", t[i].ok = FALSE
      PROVE  Excused(t, p, version, i)
  <2>1. CASE i = Len(t)
    BY <1>3, <1>5, <2>1 DEF Excused
  <2>2. CASE i # Len(t)
    <3>1. i \in 1..Len(s)
      BY <1>2, <1>3, <2>2
    <3>2. t[i] = s[i]
      BY <1>2, <3>1, SequenceFacts DEF Arrivals
    <3>3. Excused(s, Idle, version, i)
      BY <1>5, <3>1, <3>2 DEF StreamIs
    <3>. QED  BY <3>3 DEF Excused
  <2>. QED  BY <2>1, <2>2
<1>. QED  BY <1>2, <1>3, <1>4, <1>5 DEF StreamIs

LEMMA AssociateBegins ==
    ASSUME NEW h, NEW s, NEW rs, NEW recs, NEW pg, NEW count, NEW version,
           StreamIs(h, s, rs, recs, pg, count, Idle, version),
           NEW p, AssociateUnderWay(rs, recs, p), p # Idle
    PROVE  StreamIs(h, s, rs, recs, pg, count, p, version)
BY DEF StreamIs, Excused

\* The profiler raised, which it does on malformed cards only.
LEMMA CallRaised ==
    ASSUME NEW h, NEW s, NEW rs, NEW recs, NEW pg, NEW count, NEW version, NEW p,
           StreamIs(h, s, rs, recs, pg, count, p, version), MalformedBy(version)
    PROVE  StreamIs(h, s, rs, recs, pg, count, Idle, version)
BY DEF StreamIs, Excused

LEMMA CardsEdited ==
    ASSUME NEW h, NEW s, NEW rs, NEW recs, NEW pg, NEW count, NEW version \in Nat, NEW p,
           StreamIs(h, s, rs, recs, pg, count, p, version)
    PROVE  StreamIs(h, s, rs, recs, pg, count, p, version + 1)
<1>1. MalformedBy(version) => MalformedBy(version + 1)
  BY MalformedStays
<1>. QED  BY <1>1 DEF StreamIs, Excused

LEMMA PushReturns ==
    ASSUME NEW h, NEW s, NEW rs, NEW recs, NEW pg, NEW count, NEW version, NEW p,
           StreamIs(h, s, rs, recs, pg, count, p, version), PushUnderWay(s, rs, p),
           NEW run, Shown(run) = ShownFor(h, p.index, p.record, p.outcome),
           NEW t, t = [s EXCEPT ![Len(s)].ok = TRUE]
    PROVE  StreamIs(h, t, Append(rs, run), Append(recs, p.record), p.record.playground, count,
                    Idle, version)
<1>1. PICK at : Listed(h, s, rs, recs, at)
  BY DEF StreamIs
<1>2. Arrivals(s) /\ count = Len(s) /\ Len(s) \in Nat
  BY SequenceFacts DEF StreamIs, Arrivals
<1>3. /\ Arrivals(t) /\ Len(t) = Len(s)
      /\ \A i \in 1..(Len(s) - 1) : t[i] = s[i]
      /\ t[Len(s)].ok = TRUE
      /\ \E longer : Listed(h, t, Append(rs, run), Append(recs, p.record), longer)
      /\ PlaygroundAfter(t, Len(t)) = p.record.playground
  <2>1. /\ s # <<>> /\ s[Len(s)].ev.type = "runProject" /\ s[Len(s)].ok = FALSE
        /\ p.record = RecordAt(s, Len(s))
        /\ Shown(run) = ShownFor(h, Len(rs), p.record, s[Len(s)].outcome)
    BY DEF PushUnderWay
  <2>2. PushedOn(h, s, rs, recs, run, p.record, [s EXCEPT ![Len(s)].ok = TRUE])
    BY <1>1, <1>2, <2>1, PushFits
  <2>. QED  BY <2>2, Zenon DEF PushedOn
<1>4. ASSUME NEW i \in 1..Len(t), t[i].ev.type = "runProject", t[i].ok = FALSE
      PROVE  Excused(t, Idle, version, i)
  <2>1. i # Len(s)
    BY <1>3, <1>4
  <2>2. i \in 1..(Len(s) - 1) /\ i \in 1..Len(s)
    BY <1>2, <1>3, <2>1
  <2>3. Excused(s, p, version, i)
    BY <1>3, <1>4, <2>2 DEF StreamIs
  <2>. QED  BY <2>1, <2>3 DEF Excused
<1>. QED  BY <1>2, <1>3, <1>4 DEF StreamIs

LEMMA AssociateReturns ==
    ASSUME NEW h, NEW s, NEW rs, NEW recs, NEW pg, NEW count, NEW version, NEW p,
           StreamIs(h, s, rs, recs, pg, count, p, version), AssociateUnderWay(rs, recs, p),
           NEW run, Shown(run) = ShownFor(h, p.index, p.record, p.outcome),
           NEW at, Listed(h, s, rs, recs, at),
           NEW t, t = [s EXCEPT ![at[p.index + 1]].outcome = p.outcome]
    PROVE  StreamIs(h, t, [rs EXCEPT ![p.index + 1] = run], recs, pg, count, Idle, version)
<1>1. Arrivals(s) /\ count = Len(s) /\ pg = PlaygroundAfter(s, Len(s)) /\ Len(s) \in Nat
  BY SequenceFacts DEF StreamIs, Arrivals
<1>2. /\ p.index \in Nat /\ p.index + 1 \in 1..Len(rs) /\ recs[p.index + 1] # Released
      /\ Shown(run) = ShownFor(h, (p.index + 1) - 1, recs[p.index + 1], p.outcome)
  <2>1. p.index \in Nat /\ p.index + 1 \in 1..Len(rs) /\ p.record = recs[p.index + 1]
        /\ p.record # Released
    BY DEF AssociateUnderWay
  <2>2. (p.index + 1) - 1 = p.index
    BY <2>1
  <2>. QED  BY <2>1, <2>2
<1>3. /\ Arrivals(t) /\ Len(t) = Len(s)
      /\ \A i \in 1..Len(s) : t[i].ev = s[i].ev /\ t[i].ok = s[i].ok
      /\ Listed(h, t, [rs EXCEPT ![p.index + 1] = run], recs, at)
      /\ PlaygroundAfter(t, Len(t)) = PlaygroundAfter(s, Len(s))
  <2>1. RunAgain(h, s, [rs EXCEPT ![p.index + 1] = run], recs, at,
                 [s EXCEPT ![at[p.index + 1]].outcome = p.outcome])
    BY <1>1, <1>2, AssociateFits
  <2>. QED  BY <2>1 DEF RunAgain
<1>4. ASSUME NEW i \in 1..Len(t), t[i].ev.type = "runProject", t[i].ok = FALSE
      PROVE  Excused(t, Idle, version, i)
  <2>1. i \in 1..Len(s) /\ s[i].ev = t[i].ev /\ s[i].ok = t[i].ok
    BY <1>3
  <2>2. Excused(s, p, version, i)
    BY <1>4, <2>1 DEF StreamIs
  <2>3. p.what # "push"
    BY DEF AssociateUnderWay
  <2>. QED  BY <2>2, <2>3 DEF Excused
<1>. QED  BY <1>1, <1>3, <1>4 DEF StreamIs

LEMMA RunReleased ==
    ASSUME NEW h, NEW s, NEW rs, NEW recs, NEW pg, NEW count, NEW version,
           StreamIs(h, s, rs, recs, pg, count, Idle, version), NEW m \in 1..Len(rs)
    PROVE  StreamIs(h, s, [rs EXCEPT ![m] = Released], [recs EXCEPT ![m] = Released], pg, count,
                    Idle, version)
<1>1. PICK at : Listed(h, s, rs, recs, at)
  BY DEF StreamIs
<1>. DEFINE rs2 == [rs EXCEPT ![m] = Released]
            recs2 == [recs EXCEPT ![m] = Released]
<1>2. /\ Sequence(rs) /\ Sequence(recs) /\ Len(recs) = Len(rs) /\ m \in 1..Len(recs)
  BY <1>1 DEF Listed
<1>3. /\ Sequence(rs2) /\ Len(rs2) = Len(rs)
      /\ \A k \in 1..Len(rs) : rs2[k] = IF k = m THEN Released ELSE rs[k]
  BY <1>2, SequenceFacts
<1>4. /\ Sequence(recs2) /\ Len(recs2) = Len(recs)
      /\ \A k \in 1..Len(recs) : recs2[k] = IF k = m THEN Released ELSE recs[k]
  BY <1>2, SequenceFacts
<1>. HIDE DEF rs2, recs2
<1>5. Listed(h, s, rs2, recs2, at)
  BY <1>1, <1>2, <1>3, <1>4 DEF Listed, RunFits, RecordFits
<1>. QED  BY <1>5 DEF StreamIs, rs2, recs2
-----------------------------------------------------------------------------
(***************************************************************************)
(* One host moves, and the others keep what they have.                     *)
(***************************************************************************)
OnlyStream(h) ==
    /\ DOMAIN arrived' = Hosts /\ DOMAIN runs' = Hosts /\ DOMAIN records' = Hosts
    /\ DOMAIN previous' = Hosts /\ DOMAIN consumed' = Hosts /\ DOMAIN pending' = Hosts
    /\ disk' = disk
    /\ \A g \in Hosts \ {h} :
          /\ arrived'[g] = arrived[g] /\ runs'[g] = runs[g] /\ records'[g] = records[g]
          /\ previous'[g] = previous[g] /\ consumed'[g] = consumed[g]
          /\ pending'[g] = pending[g]

LEMMA OneStreamFits ==
    ASSUME StreamsFit, NEW h \in Hosts, OnlyStream(h), StreamFits(h)' PROVE StreamsFit'
<1>1. \A g \in Hosts \ {h} : StreamFits(g)'
  BY DEF StreamsFit, StreamFits, OnlyStream
<1>. QED  BY <1>1 DEF StreamsFit, OnlyStream

LEMMA StreamsLeftAlone ==
    ASSUME StreamsFit, UNCHANGED <<arrived, runs, records, previous, consumed, pending, disk>>
    PROVE  StreamsFit'
BY DEF StreamsFit, StreamFits

LEMMA OneCallFits ==
    ASSUME CallsFit, NEW h \in Hosts, disk' = disk,
           DOMAIN call' = Hosts, DOMAIN pending' = Hosts,
           \A g \in Hosts \ {h} : call'[g] = call[g] /\ pending'[g] = pending[g],
           CallFits(h, call'[h], pending'[h], disk)
    PROVE  CallsFit'
<1>1. ASSUME NEW g \in Hosts PROVE CallFits(g, call'[g], pending'[g], disk)
  BY DEF CallsFit
<1>. QED  BY <1>1 DEF CallsFit

\* A host begins to profile.
LEMMA ProfileFits ==
    ASSUME CallsFit, CacheFits, NEW h \in Hosts, NEW record, NEW index, NEW outcome, NEW what,
           Profile(h, record, index, outcome, what)
    PROVE  /\ CallsFit' /\ CacheFits' /\ disk' = disk
           /\ pending'[h] = [what |-> what, record |-> record, index |-> index,
                             outcome |-> outcome]
           /\ pending'[h] # Idle /\ DOMAIN pending' = Hosts
           /\ \A g \in Hosts \ {h} : pending'[g] = pending[g]
<1>. DEFINE c == [at |-> "resolve", purpose |-> "params", key |-> ProfileKey(record, outcome),
                  id |-> ProgramId(h, index, outcome), used |-> {}, read |-> NotCached,
                  after |-> settled]
            p == [what |-> what, record |-> record, index |-> index, outcome |-> outcome]
<1>1. /\ call' = [call EXCEPT ![h] = c] /\ pending' = [pending EXCEPT ![h] = p]
      /\ disk' = disk /\ results' = results
  BY DEF Profile, BeginCall
<1>2. CallFits(h, c, p, disk) /\ p # Idle
  <2>1. "resolve" \in Places
    BY DEF Places
  <2>2. p # Idle
    BY DEF Idle
  <2>. QED  BY <2>1, <2>2 DEF CallFits, CallIsAbout, KeyOf, IdOf
<1>. HIDE DEF c, p
<1>3. /\ DOMAIN call' = Hosts /\ DOMAIN pending' = Hosts /\ call'[h] = c /\ pending'[h] = p
      /\ \A g \in Hosts \ {h} : call'[g] = call[g] /\ pending'[g] = pending[g]
  BY <1>1 DEF CallsFit
<1>4. CallsFit' /\ CacheFits'
  BY <1>1, <1>2, <1>3, OneCallFits DEF CacheFits
<1>. QED  BY <1>1, <1>2, <1>3, <1>4 DEF p

LEMMA PushOtherFits ==
    ASSUME PrefixInvariant, NEW h \in Hosts, NEW ev, PushOther(h, ev)
    PROVE  CacheFits' /\ CallsFit' /\ StreamsFit'
<1>. DEFINE a == [ev |-> ev, ok |-> TRUE, outcome |-> NoOutcome]
            t == Append(arrived[h], a)
<1>1. /\ pending[h] = Idle /\ ev.type # "runProject" /\ StreamsFit
      /\ arrived' = [arrived EXCEPT ![h] = t]
      /\ consumed' = [consumed EXCEPT ![h] = consumed[h] + 1]
      /\ UNCHANGED <<runs, records, previous, pending, call, results, disk>>
  BY DEF PushOther, PrefixInvariant, cacheVars
<1>2. Arrival(a) /\ a.ev = ev
  BY Zenon DEF Arrival
<1>. HIDE DEF a
<1>3. StreamIs(h, t, runs[h], records[h], previous[h], consumed[h] + 1, Idle, disk)
  <2>1. StreamIs(h, arrived[h], runs[h], records[h], previous[h], consumed[h], Idle, disk)
    BY <1>1 DEF StreamsFit, StreamFits
  <2>. QED  BY <1>1, <1>2, <2>1, EventArrives
<1>. HIDE DEF t
<1>4. StreamFits(h)' /\ OnlyStream(h)
  BY <1>1, <1>3 DEF StreamsFit, StreamFits, OnlyStream
<1>. QED  BY <1>1, <1>4, OneStreamFits DEF PrefixInvariant, CacheFits, CallsFit

LEMMA PushRunFits ==
    ASSUME PrefixInvariant, NEW h \in Hosts, NEW ev, NEW outcome, PushRun(h, ev, outcome)
    PROVE  CacheFits' /\ CallsFit' /\ StreamsFit'
<1>. DEFINE a == [ev |-> ev, ok |-> FALSE, outcome |-> outcome]
            t == Append(arrived[h], a)
            record == [xml |-> ev.xml, event |-> consumed[h], inherited |-> ev.playground = None,
                       playground |-> IF ev.playground = None THEN previous[h]
                                      ELSE ev.playground]
<1>1. /\ pending[h] = Idle /\ ev.type = "runProject" /\ StreamsFit
      /\ CallsFit /\ CacheFits
      /\ arrived' = [arrived EXCEPT ![h] = t]
      /\ consumed' = [consumed EXCEPT ![h] = consumed[h] + 1]
      /\ UNCHANGED <<runs, records, previous>>
      /\ Profile(h, record, Len(runs[h]), outcome, "push")
  BY DEF PushRun, PrefixInvariant
<1>2. Arrival(a) /\ a.ev = ev /\ a.ok = FALSE /\ a.outcome = outcome
  BY Zenon DEF Arrival
<1>. HIDE DEF a
<1>. DEFINE p == pending'[h]
<1>3. /\ CallsFit' /\ CacheFits' /\ disk' = disk /\ p # Idle /\ DOMAIN pending' = Hosts
      /\ \A g \in Hosts \ {h} : pending'[g] = pending[g]
      /\ p = [what |-> "push", record |-> record, index |-> Len(runs[h]), outcome |-> outcome]
  BY <1>1, ProfileFits
<1>4. /\ p.what = "push" /\ p.record = record /\ p.index = Len(runs[h])
      /\ p.outcome = outcome
  BY <1>3
<1>. HIDE DEF p
<1>5. StreamIs(h, t, runs[h], records[h], previous[h], consumed[h] + 1, p, disk)
  <2>1. StreamIs(h, arrived[h], runs[h], records[h], previous[h], consumed[h], Idle, disk)
    BY <1>1 DEF StreamsFit, StreamFits
  <2>2. /\ a.ev.type = "runProject" /\ a.ok = FALSE
        /\ p # Idle /\ p.what = "push" /\ p.index = Len(runs[h]) /\ p.outcome = a.outcome
        /\ p.record = [xml |-> a.ev.xml, event |-> consumed[h],
                       inherited |-> a.ev.playground = None,
                       playground |-> IF a.ev.playground = None THEN previous[h]
                                      ELSE a.ev.playground]
    BY <1>1, <1>2, <1>3, <1>4, Zenon
  <2>. HIDE DEF record
  <2>3. Arrival(a)
    BY <1>2
  <2>. QED  BY <2>1, <2>2, <2>3, EventArrives
<1>. HIDE DEF t
<1>6. StreamFits(h)' /\ OnlyStream(h)
  BY <1>1, <1>3, <1>5 DEF StreamsFit, StreamFits, OnlyStream, p
<1>. QED  BY <1>1, <1>3, <1>6, OneStreamFits

LEMMA AssociateOutcomeFits ==
    ASSUME PrefixInvariant, NEW h \in Hosts, NEW index \in Nat, NEW outcome,
           AssociateOutcome(h, index, outcome)
    PROVE  CacheFits' /\ CallsFit' /\ StreamsFit'
<1>. DEFINE record == records[h][index + 1]
            p == pending'[h]
<1>1. /\ pending[h] = Idle /\ index < Len(runs[h]) /\ record # Released
      /\ StreamsFit /\ CallsFit /\ CacheFits
      /\ UNCHANGED <<runs, records, previous, consumed, arrived>>
      /\ Profile(h, record, index, outcome, "associate")
  BY DEF AssociateOutcome, HasInputs, PrefixInvariant
<1>2. /\ CallsFit' /\ CacheFits' /\ disk' = disk /\ p # Idle /\ DOMAIN pending' = Hosts
      /\ \A g \in Hosts \ {h} : pending'[g] = pending[g]
      /\ p = [what |-> "associate", record |-> record, index |-> index, outcome |-> outcome]
  BY <1>1, ProfileFits
<1>3. p.what = "associate" /\ p.record = record /\ p.index = index
  BY <1>2
<1>. HIDE DEF p
<1>4. StreamIs(h, arrived[h], runs[h], records[h], previous[h], consumed[h], Idle, disk)
  BY <1>1 DEF StreamsFit, StreamFits
<1>5. AssociateUnderWay(runs[h], records[h], p)
  <2>1. Len(runs[h]) \in Nat
    BY <1>4, SequenceFacts DEF StreamIs, Listed
  <2>2. index + 1 \in 1..Len(runs[h])
    BY <1>1, <2>1
  <2>. QED  BY <1>1, <1>3, <2>2 DEF AssociateUnderWay
<1>6. StreamIs(h, arrived[h], runs[h], records[h], previous[h], consumed[h], p, disk)
  BY <1>2, <1>4, <1>5, AssociateBegins
<1>7. StreamFits(h)' /\ OnlyStream(h)
  BY <1>1, <1>2, <1>6 DEF StreamsFit, StreamFits, OnlyStream, p
<1>. QED  BY <1>1, <1>2, <1>7, OneStreamFits

LEMMA ReleaseFits ==
    ASSUME PrefixInvariant, NEW h \in Hosts, NEW index \in Nat, Release(h, index)
    PROVE  CacheFits' /\ CallsFit' /\ StreamsFit'
<1>1. /\ pending[h] = Idle /\ index < Len(runs[h]) /\ StreamsFit
      /\ runs' = [runs EXCEPT ![h][index + 1] = Released]
      /\ records' = [records EXCEPT ![h][index + 1] = Released]
      /\ UNCHANGED <<previous, consumed, pending, arrived, call, results, disk>>
  BY DEF Release, PrefixInvariant, cacheVars
<1>2. StreamIs(h, arrived[h], runs[h], records[h], previous[h], consumed[h], Idle, disk)
  BY <1>1 DEF StreamsFit, StreamFits
<1>3. index + 1 \in 1..Len(runs[h])
  <2>1. Len(runs[h]) \in Nat
    BY <1>2, SequenceFacts DEF StreamIs, Listed
  <2>. QED  BY <1>1, <2>1
<1>. DEFINE rs == [runs[h] EXCEPT ![index + 1] = Released]
            recs == [records[h] EXCEPT ![index + 1] = Released]
<1>4. StreamIs(h, arrived[h], rs, recs, previous[h], consumed[h], Idle, disk)
  BY <1>2, <1>3, RunReleased
<1>5. runs' = [runs EXCEPT ![h] = rs] /\ records' = [records EXCEPT ![h] = recs]
  BY <1>1 DEF StreamsFit
<1>. HIDE DEF rs, recs
<1>6. StreamFits(h)' /\ OnlyStream(h)
  BY <1>1, <1>4, <1>5 DEF StreamsFit, StreamFits, OnlyStream
<1>. QED  BY <1>1, <1>6, OneStreamFits DEF PrefixInvariant, CacheFits, CallsFit

LEMMA RaiseFits ==
    ASSUME PrefixInvariant, NEW h \in Hosts, Raise(h)
    PROVE  CacheFits' /\ CallsFit' /\ StreamsFit'
<1>1. /\ call[h].at = "raised" /\ call[h] # Idle /\ StreamsFit /\ CallsFit
      /\ call' = [call EXCEPT ![h] = Idle] /\ pending' = [pending EXCEPT ![h] = Idle]
      /\ UNCHANGED <<runs, records, previous, consumed, arrived, disk, results>>
  BY DEF Raise, At, PrefixInvariant, Idle
<1>2. MalformedBy(disk)
  BY <1>1 DEF CallsFit, CallFits
<1>3. StreamIs(h, arrived[h], runs[h], records[h], previous[h], consumed[h], Idle, disk)
  BY <1>1, <1>2, CallRaised DEF StreamsFit, StreamFits
<1>4. StreamFits(h)' /\ OnlyStream(h)
  BY <1>1, <1>3 DEF StreamsFit, StreamFits, OnlyStream
<1>5. CallsFit'
  <2>1. CallFits(h, call'[h], pending'[h], disk)
    BY <1>1 DEF CallsFit, CallFits
  <2>. QED  BY <1>1, <2>1, OneCallFits DEF CallsFit
<1>. QED  BY <1>1, <1>4, <1>5, OneStreamFits DEF PrefixInvariant, CacheFits

LEMMA ReturnFits ==
    ASSUME PrefixInvariant, NEW h \in Hosts, Return(h)
    PROVE  CacheFits' /\ CallsFit' /\ StreamsFit'
<1>. DEFINE p == pending[h]
            c == call[h]
            s == arrived[h]
            run == RunOf(c.result, p.record, p.index)
<1>1. /\ c.at = "answered" /\ c # Idle /\ StreamsFit /\ CallsFit
      /\ call' = [call EXCEPT ![h] = Idle] /\ pending' = [pending EXCEPT ![h] = Idle]
      /\ UNCHANGED <<consumed, disk, results>>
  BY DEF Return, Answered, At, PrefixInvariant, Idle
<1>2. /\ p # Idle /\ CallIsAbout(c, KeyOf(p), IdOf(h, p))
  BY <1>1 DEF CallsFit, CallFits
<1>3. Shown(run) = ShownFor(h, p.index, p.record, p.outcome)
  BY <1>1, <1>2, AnsweredRunIsShown
<1>4. StreamIs(h, s, runs[h], records[h], previous[h], consumed[h], p, disk)
  BY <1>1 DEF StreamsFit, StreamFits
<1>5. CallsFit'
  <2>1. CallFits(h, call'[h], pending'[h], disk)
    BY <1>1 DEF CallsFit, CallFits
  <2>. QED  BY <1>1, <2>1, OneCallFits DEF CallsFit
<1>6. CASE p.what = "push"
  <2>. DEFINE rs == Append(runs[h], run)
              recs == Append(records[h], p.record)
              t == [s EXCEPT ![Len(s)].ok = TRUE]
  <2>1. PushUnderWay(s, runs[h], p)
    BY <1>2, <1>4, <1>6 DEF StreamIs, AssociateUnderWay
  <2>2. StreamIs(h, t, rs, recs, p.record.playground, consumed[h], Idle, disk)
    BY <1>3, <1>4, <2>1, PushReturns
  <2>3. /\ runs' = [runs EXCEPT ![h] = rs] /\ records' = [records EXCEPT ![h] = recs]
        /\ previous' = [previous EXCEPT ![h] = p.record.playground]
        /\ arrived' = [arrived EXCEPT ![h] = t]
    BY <1>1, <1>6 DEF Return, FinishPush, StreamsFit
  <2>. HIDE DEF rs, recs, t
  <2>4. StreamFits(h)' /\ OnlyStream(h)
    BY <1>1, <2>2, <2>3 DEF StreamsFit, StreamFits, OnlyStream
  <2>. QED  BY <1>1, <1>5, <2>4, OneStreamFits DEF PrefixInvariant, CacheFits
<1>7. CASE p.what # "push"
  <2>1. AssociateUnderWay(runs[h], records[h], p)
    BY <1>2, <1>4, <1>7 DEF StreamIs, PushUnderWay
  <2>2. PICK at : Listed(h, s, runs[h], records[h], at)
    BY <1>4 DEF StreamIs
  <2>3. Position(h, p.index + 1) = at[p.index + 1]
    BY ZenonT(40), <2>1, <2>2, FoundInOrder DEF Listed, AssociateUnderWay
  <2>. DEFINE rs == [runs[h] EXCEPT ![p.index + 1] = run]
              t == [s EXCEPT ![at[p.index + 1]].outcome = p.outcome]
  <2>4. StreamIs(h, t, rs, records[h], previous[h], consumed[h], Idle, disk)
    BY <1>3, <1>4, <2>1, <2>2, AssociateReturns
  <2>5. /\ runs' = [runs EXCEPT ![h] = rs] /\ UNCHANGED <<records, previous>>
        /\ arrived' = [arrived EXCEPT ![h] = t]
    BY <1>1, <1>7, <2>3 DEF Return, FinishAssociate, StreamsFit
  <2>. HIDE DEF rs, t
  <2>6. StreamFits(h)' /\ OnlyStream(h)
    BY <1>1, <2>4, <2>5 DEF StreamsFit, StreamFits, OnlyStream
  <2>. QED  BY <1>1, <1>5, <2>6, OneStreamFits DEF PrefixInvariant, CacheFits
<1>. QED  BY <1>6, <1>7

LEMMA CallStepsFit ==
    ASSUME PrefixInvariant, NEW h \in Hosts, CallStep(h), UNCHANGED streamVars
    PROVE  CacheFits' /\ CallsFit' /\ StreamsFit'
<1>. DEFINE key == KeyOf(pending[h])
            id == IdOf(h, pending[h])
<1>1. /\ CacheInvariant /\ CacheFits /\ CallsFit /\ StreamsFit
      /\ UNCHANGED <<arrived, runs, records, previous, consumed, pending>>
  BY DEF PrefixInvariant, streamVars
<1>2. call[h] # Idle
  BY DEF CallStep, FindAliases, LoadCards, CardsCached, CardsFromDisk, CardsMalformed,
         KeepCards, UseCards, LoadAgain, LookUp, Store, At, Idle
<1>3. pending[h] # Idle /\ CallIsAbout(call[h], key, id)
  BY <1>1, <1>2 DEF CallsFit, CallFits
<1>. HIDE DEF key, id
<1>4. /\ call' = [call EXCEPT ![h] = call'[h]] /\ CallIsAbout(call'[h], key, id)
      /\ call'[h].at = "raised" => MalformedBy(disk)
      /\ CacheFits' /\ disk' = disk
  BY <1>1, <1>3, CallStepFits
<1>5. DOMAIN call' = Hosts /\ \A g \in Hosts \ {h} : call'[g] = call[g]
  <2>. DEFINE d == call'[h]
  <2>1. call' = [call EXCEPT ![h] = d]
    BY <1>4
  <2>. HIDE DEF d
  <2>. QED  BY <1>1, <2>1 DEF CallsFit
<1>6. CallFits(h, call'[h], pending'[h], disk)
  BY <1>1, <1>3, <1>4 DEF CallFits, key, id
<1>7. CallsFit'
  BY <1>1, <1>4, <1>5, <1>6, OneCallFits DEF CallsFit
<1>. QED  BY <1>1, <1>4, <1>7, StreamsLeftAlone

LEMMA EditsAndClearsFit ==
    ASSUME PrefixInvariant, Edits \/ Clears
    PROVE  CacheFits' /\ CallsFit' /\ StreamsFit'
<1>1. /\ CacheInvariant /\ CacheFits /\ CallsFit /\ StreamsFit /\ disk \in Nat
      /\ UNCHANGED <<arrived, runs, records, previous, consumed, pending>>
  BY DEF PrefixInvariant, CacheInvariant, Versions, Edits, Clears, streamVars
<1>2. CASE EditCards
  <2>1. disk' = disk + 1 /\ call' = call /\ results' = results
    BY <1>2 DEF EditCards
  <2>2. MalformedBy(disk) => MalformedBy(disk + 1)
    BY <1>1, MalformedStays
  <2>3. CallsFit'
    BY <1>1, <2>1, <2>2 DEF CallsFit, CallFits
  <2>4. \A h \in Hosts : StreamIs(h, arrived[h], runs[h], records[h], previous[h], consumed[h],
                                  pending[h], disk + 1)
    BY <1>1, CardsEdited DEF StreamsFit, StreamFits
  <2>5. StreamsFit'
    BY <1>1, <2>1, <2>4 DEF StreamsFit, StreamFits
  <2>. QED  BY <1>1, <2>1, <2>3, <2>5 DEF CacheFits
<1>3. CASE BeginClear
  BY <1>1, <1>3, StreamsLeftAlone DEF BeginClear, CacheFits, CallsFit
<1>4. CASE ClearNext
  <2>1. disk' = disk /\ call' = call /\ (results' = <<>> \/ results' = results)
    BY <1>4 DEF ClearNext
  <2>2. CacheFits'
    <3>1. CASE results' = <<>>
      <4>. DEFINE S == {}
      <4>1. <<>> \in Seq(S) /\ \A e \in S : EntryFits(e)
        OBVIOUS
      <4>. HIDE DEF S
      <4>2. results' \in Seq(S)
        BY <3>1, <4>1
      <4>. QED  BY <4>1, <4>2 DEF CacheFits
    <3>2. CASE results' = results
      BY <1>1, <3>2 DEF CacheFits
    <3>. QED  BY <2>1, <3>1, <3>2
  <2>. QED  BY <1>1, <2>1, <2>2, StreamsLeftAlone DEF CallsFit
<1>. QED  BY <1>2, <1>3, <1>4 DEF Edits, Clears

LEMMA HostsFit == PrefixInvariant /\ [HostNext]_hostVars => PrefixInvariant'
<1>. DEFINE Goal == CacheFits' /\ CallsFit' /\ StreamsFit'
<1>. SUFFICES ASSUME PrefixInvariant, [HostNext]_hostVars PROVE PrefixInvariant'
  OBVIOUS
<1>1. CacheInvariant'
  BY HostsKeep DEF PrefixInvariant
<1>2. workload' = workload /\ workload \in Workloads /\ workload.limit \in Nat
  BY WorkloadAssumption DEF PrefixInvariant, HostNext, hostVars
<1>3. SUFFICES Goal
  BY <1>1, <1>2 DEF PrefixInvariant
<1>. HIDE DEF Goal
<1>4. ASSUME UNCHANGED <<arrived, runs, records, previous, consumed, pending, disk, call, results>>
      PROVE  Goal
  BY <1>4, StreamsLeftAlone DEF PrefixInvariant, CacheFits, CallsFit, Goal
<1>5. ASSUME NEW h \in Hosts, Feeds(h) PROVE Goal
  <2>1. \E ev : PushOther(h, ev) \/ \E o : PushRun(h, ev, o)
    BY <1>5, Zenon DEF Feeds
  <2>. QED  BY <2>1, PushOtherFits, PushRunFits DEF Goal
<1>6. ASSUME NEW h \in Hosts, Learns(h) PROVE Goal
  <2>1. PICK index \in 0..workload.limit, o \in workload.outcomes :
            AssociateOutcome(h, index, o) \/ OutcomeUnused(h, index)
    BY <1>6 DEF Learns
  <2>2. index \in Nat
    BY <1>2
  <2>3. CASE AssociateOutcome(h, index, o)
    BY <2>2, <2>3, AssociateOutcomeFits DEF Goal
  <2>4. CASE OutcomeUnused(h, index)
    BY <1>4, <2>4 DEF OutcomeUnused, cacheVars
  <2>. QED  BY <2>1, <2>3, <2>4
<1>7. ASSUME NEW h \in Hosts, Releases(h) PROVE Goal
  <2>1. PICK index \in 0..(workload.limit - 1) : Release(h, index)
    BY <1>7 DEF Releases
  <2>2. index \in Nat
    BY <1>2
  <2>. QED  BY <2>1, <2>2, ReleaseFits DEF Goal
<1>8. ASSUME NEW h \in Hosts, CallStep(h), UNCHANGED streamVars PROVE Goal
  BY <1>8, CallStepsFit DEF Goal
<1>9. ASSUME NEW h \in Hosts, Return(h) \/ Raise(h) PROVE Goal
  BY <1>9, ReturnFits, RaiseFits DEF Goal
<1>10. CASE Edits \/ Clears
  BY <1>10, EditsAndClearsFit DEF Goal
<1>11. CASE UNCHANGED hostVars
  BY <1>4, <1>11 DEF hostVars, streamVars, cacheVars
<1>. QED  BY <1>5, <1>6, <1>7, <1>8, <1>9, <1>10, <1>11 DEF HostNext, Works

LEMMA HostsStartFit == StreamInit => PrefixInvariant
<1>. SUFFICES ASSUME StreamInit PROVE PrefixInvariant
  OBVIOUS
<1>1. CacheInvariant /\ workload \in Workloads
  BY CacheStarts DEF StreamInit
<1>2. CallsFit
  BY DEF StreamInit, CacheInit, CallsFit, CallFits
<1>3. CacheFits
  <2>. DEFINE S == {}
  <2>1. <<>> \in Seq(S) /\ \A e \in S : EntryFits(e)
    OBVIOUS
  <2>. HIDE DEF S
  <2>2. results \in Seq(S)
    BY <2>1 DEF StreamInit, CacheInit
  <2>. QED  BY <2>1, <2>2 DEF CacheFits
<1>4. ASSUME NEW h PROVE StreamIs(h, <<>>, <<>>, <<>>, None, 0, Idle, disk)
  <2>1. Sequence(<<>>) /\ Len(<<>>) = 0 /\ DOMAIN <<>> = 1..0
    <3>1. <<>> \in Seq({})
      OBVIOUS
    <3>2. Len(<<>>) = 0 /\ DOMAIN <<>> = 1..0
      OBVIOUS
    <3>3. Sequence(<<>>)
      BY <3>1, Zenon DEF Sequence
    <3>. QED  BY <3>2, <3>3
  <2>2. RunsIn(<<>>) = {} /\ 1..0 = {}
    BY <2>1 DEF RunsIn
  <2>3. PlaygroundAfter(<<>>, 0) = None
    BY <2>2 DEF PlaygroundAfter, NamedIn
  <2>4. Lists([k \in {} |-> 0], 0, {})
    BY <2>2 DEF Lists, Increasing
  <2>5. Listed(h, <<>>, <<>>, <<>>, [k \in {} |-> 0])
    BY <2>1, <2>2, <2>4 DEF Listed
  <2>. QED  BY <2>1, <2>2, <2>3, <2>5 DEF StreamIs, Arrivals
<1>5. StreamsFit
  BY <1>4 DEF StreamInit, StreamsFit, StreamFits
<1>. QED  BY <1>1, <1>2, <1>3, <1>5 DEF PrefixInvariant

\* "the runs a stream has emitted after k events are identical to
\* goal_profiles_from_events over those same k events", whatever the other hosts, the
\* caches, the editors of the cards and late outcomes do, for any number of each.
THEOREM PrefixesAgree == HostSpec => []PrefixIdentity
<1>1. PrefixInvariant => PrefixIdentity
  <2>. SUFFICES ASSUME PrefixInvariant, NEW h \in Hosts
                PROVE  /\ Len(runs[h]) = Cardinality(RunsIn(arrived[h]))
                       /\ \A k \in DOMAIN runs[h] :
                             runs[h][k] # Released => Shown(runs[h][k]) = BatchRun(h, k)
                       /\ \A i \in DOMAIN arrived[h] :
                             arrived[h][i].ev.type = "runProject" /\ ~arrived[h][i].ok
                                 => \/ i = Len(arrived[h]) /\ pending[h] # Idle
                                    \/ \E v \in Malformed : v <= disk
    BY DEF PrefixIdentity
  <2>. DEFINE s == arrived[h]
  <2>1. StreamIs(h, s, runs[h], records[h], previous[h], consumed[h], pending[h], disk)
    BY DEF PrefixInvariant, StreamsFit, StreamFits
  <2>2. PICK at : Listed(h, s, runs[h], records[h], at)
    BY <2>1 DEF StreamIs
  <2>3. Arrivals(s) /\ Sequence(s) /\ DOMAIN s = 1..Len(s) /\ DOMAIN runs[h] = 1..Len(runs[h])
    BY <2>1, <2>2, SequenceFacts DEF StreamIs, Arrivals, Listed
  <2>4. Len(runs[h]) = Cardinality(RunsIn(s))
    BY <2>2, CountedInOrder DEF Listed
  <2>5. ASSUME NEW k \in 1..Len(runs[h]), runs[h][k] # Released
        PROVE  Shown(runs[h][k]) = BatchRun(h, k)
    <3>. DEFINE j == at[k]
                a == s[j]
                record == RecordAt(s, j)
    <3>1. Position(h, k) = j
      BY <2>2, FoundInOrder DEF Listed
    <3>2. j \in RunsIn(s) /\ j \in 1..Len(s) /\ j \in Nat
      BY <2>2, <2>3, ListedInBounds
    <3>3. record.playground = PlaygroundAfter(s, j)
      <4>1. j - 1 \in Nat /\ (j - 1) + 1 = j
        BY <2>3, <3>2, SequenceFacts
      <4>2. PlaygroundAfter(s, (j - 1) + 1) =
                IF (j - 1) + 1 \in RunsIn(s) /\ s[(j - 1) + 1].ev.playground # None
                THEN s[(j - 1) + 1].ev.playground ELSE PlaygroundAfter(s, j - 1)
        BY <2>3, <3>2, <4>1, NextPlayground
      <4>. QED  BY <3>2, <4>1, <4>2 DEF RecordAt
    <3>4. record.xml = a.ev.xml /\ record.event = j - 1
          /\ record.inherited = (a.ev.playground = None)
      BY DEF RecordAt
    <3>5. Shown(runs[h][k]) = ShownFor(h, k - 1, record, a.outcome)
      BY <2>2, <2>5 DEF Listed, RunFits
    <3>6. ProfileKey(record, a.outcome) =
              [xml |-> a.ev.xml, params |-> a.outcome.params,
               playground |-> PlaygroundAfter(s, j)]
      BY <3>3, <3>4 DEF ProfileKey
    <3>. HIDE DEF record, a, j
    <3>. QED  BY <3>1, <3>4, <3>5, <3>6 DEF ShownFor, BatchRun, a
  <2>6. ASSUME NEW i \in 1..Len(s), s[i].ev.type = "runProject", ~s[i].ok
        PROVE  \/ i = Len(s) /\ pending[h] # Idle
               \/ \E v \in Malformed : v <= disk
    <3>1. s[i].ok = FALSE
      BY <2>3, <2>6, Zenon DEF Arrivals, Arrival
    <3>2. Excused(s, pending[h], disk, i)
      BY <2>1, <2>6, <3>1 DEF StreamIs
    <3>. QED  BY <3>2, Zenon DEF Excused, MalformedBy
  <2>. QED  BY <2>3, <2>4, <2>5, <2>6
<1>. QED  BY <1>1, HostsStartFit, HostsFit, PTL DEF HostSpec
=============================================================================
