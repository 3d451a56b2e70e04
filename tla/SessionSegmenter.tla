--------------------------- MODULE SessionSegmenter ---------------------------
(***************************************************************************)
(* learner_models/episodes.py: a session cut into CODE, RUN and RESET      *)
(* episodes and the pauses between them, twice: segment_session over the   *)
(* whole session, and SessionSegmenter over one event at a time.           *)
(*                                                                         *)
(* An event is [type, ts]; one type stands for each class of event types   *)
(* the code tells apart.  Positions count from 1, an episode is the events *)
(* start .. end - 1.                                                       *)
(***************************************************************************)
EXTENDS Integers, SequencesExt

\* The members of s that are in S, in their order.
Only(s, S) ==
    LET From[i \in 0..Len(s)] ==
            IF i = 0 THEN <<>>
            ELSE IF s[i] \in S THEN Append(From[i - 1], s[i]) ELSE From[i - 1]
    IN  From[Len(s)]

\* Sorted by `after`, equal ones as they came (sort is stable): pause i goes to the place
\* that counts the pauses not behind it.
Place(s, i) ==
    Cardinality({j \in DOMAIN s : \/ s[j].after < s[i].after
                                  \/ s[j].after = s[i].after /\ j <= i})
Ordered(s) == [k \in DOMAIN s |-> s[CHOOSE i \in DOMAIN s : Place(s, i) = k]]

CONSTANTS ShortPauseMin, PauseThreshold, PauseMax   \* seconds

ASSUME PauseAssumption ==
    /\ ShortPauseMin \in Nat /\ PauseThreshold \in Nat /\ PauseMax \in Nat
    /\ ShortPauseMin < PauseThreshold /\ PauseThreshold <= PauseMax

VARIABLES
    events,     \* what was pushed, in order
    closed,     \* finished episodes
    open,       \* the CODE or RUN episode still absorbing events
    inactive, postRun,  \* the pauses found
    awaiting,   \* RUNs that ended on projectEnd, waiting for a real event
    window      \* the greatest index forget_before was called with

segmenterVars == <<events, closed, open, inactive, postRun, awaiting, window>>

NoTs == -1
EventTypes == {"code", "runProject", "projectEnd", "load", "menu", "playground", "other"}
Soft == {"menu", "playground"}
Transparent == {"playground"}

\* _classify_event
Kind(type) == CASE type = "code"       -> "CODE"
                [] type = "runProject" -> "RUN"
                [] type = "load"       -> "RESET"
                [] OTHER               -> "none"

\* A gap between two timestamps can be measured, and lies within low .. high.
GapWithin(a, b, low, high) ==
    a # NoTs /\ b # NoTs /\ b - a > ShortPauseMin /\ b - a >= low /\ b - a <= high
IsInactive(a, b) == GapWithin(a, b, PauseThreshold, PauseMax)

IsPostRun(a, b)  == GapWithin(a, b, 0, PauseThreshold - 1)

Pause(type, after, duration) == [type |-> type, after |-> after, duration |-> duration]

\* Mutant: a RUN goes on through further runs.
RunsMerge(kind, type) ==
    type \in Soft \/ (kind = "CODE" /\ type = "code") \/ (kind = "RUN" /\ type = "runProject")

\* An open episode of this kind goes on through the event.
Absorbs(kind, type) == type \in Soft \/ (kind = "CODE" /\ type = "code")

-----------------------------------------------------------------------------
(***************************************************************************)
(* segment_session: three passes over the whole session.                   *)
(***************************************************************************)
InactivePauses(es) ==
    {Pause("INACTIVE_PAUSE", i, es[i + 1].ts - es[i].ts) :
        i \in {j \in 1..(Len(es) - 1) : IsInactive(es[j].ts, es[j + 1].ts)}}

\* Where the episode that starts at i stops absorbing: at the end, after a long gap, or
\* at an event that it does not absorb.
Stop(es, i) ==
    Min({Len(es) + 1} \cup
        {j \in (i + 1)..Len(es) : \/ IsInactive(es[j - 1].ts, es[j].ts)
                                  \/ ~Absorbs(Kind(es[i].type), es[j].type)})

EpisodeAt(es, i) ==
    LET kind == Kind(es[i].type)
        stop == Stop(es, i)
        end  == CASE kind = "RESET" -> i + 1
                  [] kind = "RUN" /\ stop <= Len(es) /\ es[stop].type = "projectEnd"
                       /\ ~IsInactive(es[stop - 1].ts, es[stop].ts) -> stop + 1
                  [] OTHER -> stop
    IN  [kind |-> kind, start |-> i, end |-> end, startTs |-> es[i].ts,
         endTs |-> es[end - 1].ts,
         soft |-> {j \in (i + 1)..(end - 1) : es[j].type \in Soft}]

SegmentEpisodes(es) ==
    LET From[i \in 1..(Len(es) + 1)] ==
            IF i > Len(es) THEN <<>>
            ELSE IF Kind(es[i].type) = "none" THEN From[i + 1]
            ELSE LET ep == EpisodeAt(es, i) IN <<ep>> \o From[ep.end]
    IN  From[1]

\* The event that ends the wait after a RUN: the first one that is not transparent.
NextReal(es, i) ==
    Min({Len(es) + 1} \cup {j \in (i + 1)..Len(es) : es[j].type \notin Transparent})

PostRunPauses(es) ==
    LET ended == {ep.end - 1 : ep \in {e \in ToSet(SegmentEpisodes(es)) : e.kind = "RUN"}}
        clean == {i \in ended : es[i].type = "projectEnd" /\ NextReal(es, i) <= Len(es)}
    IN  {Pause("POST_RUN_PAUSE", i, es[NextReal(es, i)].ts - es[i].ts) :
            i \in {j \in clean : IsPostRun(es[j].ts, es[NextReal(es, j)].ts)}}

InOrder(pauses) == Ordered(SetToSeq(pauses))

SegmentSession(es) ==
    [episodes |-> SegmentEpisodes(es),
     pauses   |-> InOrder(InactivePauses(es) \cup PostRunPauses(es))]

-----------------------------------------------------------------------------
(***************************************************************************)
(* SessionSegmenter.                                                       *)
(***************************************************************************)
NoEpisode == [kind |-> "none"]
Count == Len(events)

SegmenterInit ==
    /\ events = <<>>
    /\ closed = <<>>
    /\ open = NoEpisode
    /\ inactive = <<>>
    /\ postRun = <<>>
    /\ awaiting = <<>>
    /\ window = 0

PrevTs == IF Count = 0 THEN NoTs ELSE Last(events).ts
Hard(ts) == IsInactive(PrevTs, ts)

\* Mutant: any event decides the pause after a RUN.
NoneTransparent(type) == <<>>

\* Pass 3: a RUN that ended waits through transparent events; the first other event
\* decides whether there was a pause.
StillAwaiting(type) == IF type \in Transparent THEN awaiting ELSE <<>>
Decided(type, ts) ==
    IF StillAwaiting(type) # <<>> THEN <<>>
    ELSE LET due == Only(awaiting, {a \in ToSet(awaiting) : IsPostRun(a.ts, ts)})
         IN  [i \in DOMAIN due |-> Pause("POST_RUN_PAUSE", due[i].last, ts - due[i].ts)]

\* _extend
Extended(type, ts) ==
    [open EXCEPT !.end = Count + 2, !.endTs = ts,
                 !.soft = IF type \in Soft THEN @ \cup {Count + 1} ELSE @]

\* Pass 2: the open episode absorbs the event, ...
GoesOn(type, ts) == open # NoEpisode /\ ~Hard(ts) /\ Absorbs(open.kind, type)
Absorb(type, ts) ==
    /\ GoesOn(type, ts)
    /\ open' = Extended(type, ts)
    /\ closed' = closed
    /\ awaiting' = StillAwaiting(type)

\* ... or it is a RUN that ends with the event, ...
EndsRun(type, ts) == open # NoEpisode /\ ~Hard(ts) /\ open.kind = "RUN" /\ type = "projectEnd"
EndRunEpisode(type, ts) ==
    /\ EndsRun(type, ts)
    /\ closed' = Append(closed, Extended(type, ts))
    /\ open' = NoEpisode
    /\ awaiting' = Append(StillAwaiting(type), [last |-> Count + 1, ts |-> ts])

\* ... or it closes, and the event opens an episode of its own if it is of a kind.
CloseAndOpen(type, ts) ==
    LET new == [kind |-> Kind(type), start |-> Count + 1, end |-> Count + 2,
                startTs |-> ts, endTs |-> ts, soft |-> {}]
        before == IF open = NoEpisode THEN closed ELSE Append(closed, open)
    IN  /\ ~GoesOn(type, ts) /\ ~EndsRun(type, ts)
        /\ closed' = IF new.kind = "RESET" THEN Append(before, new) ELSE before
        /\ open' = IF new.kind \in {"CODE", "RUN"} THEN new ELSE NoEpisode
        /\ awaiting' = StillAwaiting(type)

SegmenterPush(type, ts) ==
    /\ events' = Append(events, [type |-> type, ts |-> ts])
    /\ inactive' = IF Hard(ts) THEN Append(inactive, Pause("INACTIVE_PAUSE", Count, ts - PrevTs))
                   ELSE inactive
    /\ postRun' = postRun \o Decided(type, ts)
    /\ Absorb(type, ts) \/ EndRunEpisode(type, ts) \/ CloseAndOpen(type, ts)
    /\ UNCHANGED window

ForgetBefore(index) ==
    /\ closed' = Only(closed, {ep \in ToSet(closed) : ep.start >= index})
    /\ inactive' = Only(inactive, {p \in ToSet(inactive) : p.after >= index})
    /\ postRun' = Only(postRun, {p \in ToSet(postRun) : p.after >= index})
    /\ window' = Max({window, index})
    /\ UNCHANGED <<events, open, awaiting>>

\* result()
Result ==
    [episodes |-> IF open = NoEpisode THEN closed ELSE Append(closed, open),
     pauses   |-> Ordered(inactive \o postRun)]

-----------------------------------------------------------------------------
(***************************************************************************)
(* Properties.                                                             *)
(***************************************************************************)
\* What the window of `all` keeps: the items from position `window` on, and of the
\* older ones only some; all in order, none changed or repeated.
Window(kept, all, At(_)) ==
    /\ kept = Only(all, ToSet(kept))
    /\ \A x \in ToSet(all) : At(x) >= window => x \in ToSet(kept)

\* "result() returns the (episodes, pauses) that segment_session would return for every
\* event pushed so far" (SessionSegmenter): after each push, and for what lies in the
\* window also after forget_before.
IncrementalAgreesWithBatch ==
    LET batch == SegmentSession(events)
    IN  /\ window = 0 => Result = batch
        /\ Window(Result.episodes, batch.episodes, LAMBDA ep : ep.start)
        /\ Window(Result.pauses, batch.pauses, LAMBDA p : p.after)

=============================================================================
