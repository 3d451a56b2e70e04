---------------------------- MODULE LearnerSession ----------------------------
(***************************************************************************)
(* One student's live session as the README of learner_models shows it     *)
(* ("Live hosts: the incremental forms"): every event is pushed into a     *)
(* SessionSegmenter and a RunDistanceStream, and the host polls for        *)
(* inactivity; a host that tracks also folds it into a smart_delta_engine. *)
(* A workload is what a kind of session is made of: the events that can    *)
(* come, how many, and what the host does besides.                         *)
(***************************************************************************)
EXTENDS SessionSegmenter, RunTriggers, InactiveAlert, Workspace

CONSTANTS
    Workloads,   \* [events, limit, hostCalls, until]
    NoProject    \* the xml of an event that has no project

\* Events come in the order of their timestamps, and a run has a workspace.
ASSUME WorkloadAssumption ==
    \A w \in Workloads : \A ev \in w.events :
        /\ ev.gap \in Nat /\ ev.type \in EventTypes
        /\ ev.type = "runProject" => /\ ev.xml \in Xmls
                                     /\ ev.playground \in Playgrounds \cup {NoPlayground}

VARIABLE workload

sessionVars == <<workload, segmenterVars, runVars, alertVars, trackerVars>>

SessionInit ==
    /\ workload \in Workloads
    /\ SegmenterInit /\ RunsInit /\ AlertInit /\ TrackerInit

\* An event arrives, `gap` after the one before it; `timed` if it has a timestamp.
Push(ev) ==
    /\ Count < workload.limit /\ phase = "idle"
    /\ now' = now + ev.gap
    /\ Act(ev.timed)
    /\ SegmenterPush(ev.type, IF ev.timed THEN now' ELSE NoTs)
    /\ IF ev.type = "runProject" THEN PushRun(ev.xml, ev.playground) ELSE UNCHANGED runVars
    /\ IF "track" \in workload.hostCalls /\ ev.xml # NoProject
       THEN ProcessLog(ev.xml) ELSE UNCHANGED trackerVars
    /\ UNCHANGED workload

HostPolls == /\ "poll" \in workload.hostCalls
             /\ Poll
             /\ UNCHANGED <<workload, segmenterVars, runVars, trackerVars>>
TimePasses == /\ "poll" \in workload.hostCalls /\ now < workload.until
              /\ Tick
              /\ UNCHANGED <<workload, segmenterVars, runVars, trackerVars>>
HostForgets == /\ "forget" \in workload.hostCalls /\ window = 0
               /\ \E i \in 2..Count : ForgetBefore(i)
               /\ UNCHANGED <<workload, runVars, alertVars, trackerVars>>
HostClears == /\ "clear" \in workload.hostCalls
              /\ ClearCache
              /\ UNCHANGED <<workload, segmenterVars, alertVars, trackerVars>>
HostTracks == TrackerSteps /\ UNCHANGED <<workload, segmenterVars, runVars, alertVars>>

SessionNext ==
    \/ \E ev \in workload.events : Push(ev)
    \/ HostTracks
    \/ HostPolls \/ TimePasses \/ HostForgets \/ HostClears

SessionSpec == SessionInit /\ [][SessionNext]_sessionVars

-----------------------------------------------------------------------------
\* compute_run_edit_distances and the segmenter count the runs of a session each for
\* itself, and "The index matches": the k-th run of the distances is the k-th RUN episode,
\* whatever events, pauses and playground switches come between them.
RunsJoinEpisodes ==
    window = 0 =>
      LET projectRuns == Only(events, {ev \in ToSet(events) : ev.type = "runProject"})
          episodeRuns == Only(Result.episodes, {ep \in ToSet(Result.episodes) : ep.kind = "RUN"})
      IN  /\ Len(projectRuns) = Len(runs)
          /\ Len(episodeRuns) = Len(runs)
          /\ \A k \in DOMAIN runs : episodeRuns[k].startTs = projectRuns[k].ts
=============================================================================
