-------------------------- MODULE SequencerHistory --------------------------
(***************************************************************************)
(* Sequencer with history variables, for the properties that relate a step *)
(* to what happened several steps before: when a sleeper was due, how long *)
(* a runnable thread has been passed over.                                 *)
(***************************************************************************)
EXTENDS Sequencer

VARIABLES
    due,     \* per thread: when the time it sleeps for will have passed
    passed   \* per thread: resumptions of others since it became runnable

historyVars == <<due, passed>>

HistoryInit ==
    /\ Init
    /\ due = [t \in Threads |-> 0]
    /\ passed = [t \in Threads |-> 0]

Slept ==
    due' = [t \in Threads |->
              IF status'[t] # "parked_time" THEN 0
              ELSE IF status[t] = "parked_time" THEN due[t] ELSE now' + wake'[t]]

PassedOver ==
    passed' = [t \in Threads |->
                 IF status'[t] # "runnable" \/ running' = t THEN 0
                 ELSE IF running = 0 /\ running' # 0 THEN passed[t] + 1 ELSE passed[t]]

HistoryNext == Next /\ Slept /\ PassedOver

HistorySpec == HistoryInit /\ [][HistoryNext]_<<vars, historyVars>>

-----------------------------------------------------------------------------
\* The type of the history; together with the round-robin bound: a runnable thread
\* is passed over at most once by each of the others before its generator is
\* resumed, whoever parks, wakes or is superseded meanwhile.
NoThreadPassedOver == \A t \in Threads : passed[t] \in 0..(N - 1)

\* However other threads cut its sleep into slices, a sleeper is woken exactly when it
\* is due, where no takeover frame is charged outside the slices (gate G3: the wake time must not drift from the legacy wait's).
WokenOnTime ==
    [][\A t \in Threads :
         status[t] = "parked_time" /\ status'[t] = "runnable" => now' = due[t]]_<<vars, historyVars>>
=============================================================================
