---------------------------- MODULE SessionManager ----------------------------
(***************************************************************************)
(* The in-memory session registry under every order of its own calls:      *)
(* start_session may be repeated for an identifier, cancel_session may     *)
(* come at any time, and each finished task runs its done-callback as a    *)
(* task of its own, some time later.                                       *)
(*                                                                         *)
(* No method awaits while it holds the asyncio lock, so each is one step;  *)
(* shutdown releases the lock before it cancels and before it waits.       *)
(***************************************************************************)
EXTENDS Naturals

CONSTANTS Inv,       \* investigation identifiers
          MaxTasks   \* tasks ever created

ASSUME TasksAssumption == MaxTasks \in Nat \ {0}

Tasks == 1..MaxTasks
NoTask == 0
NoOne == "no one"    \* works for: a task not created yet

VARIABLES sessions,    \* registry: identifier -> record, task = NoTask if absent
          owner,       \* identifier a created task works for
          state,       \* state of each asyncio task
          requested,   \* cancel() was called on the task while it was live
          called,      \* the done-callback of the task has run
          created,     \* number of tasks created
          answer,      \* last result of cancel_session and the task it was about
          stage,       \* progress of shutdown()
          awaited      \* tasks shutdown cancels and waits for

vars == <<sessions, owner, state, requested, called, created, answer, stage, awaited>>

Outcomes == {"returned", "raised", "cancelled"}
TaskStates == {"none", "live"} \cup Outcomes
RecordStatuses == {"RUNNING", "COMPLETE", "FAILED", "CANCELLED"}

\* Mutant of StatusOf: a misspelt status.
StatusOfMisspelt(outcome) ==
  IF outcome = "cancelled" THEN "CANCELED" ELSE IF outcome = "raised" THEN "FAILED" ELSE "COMPLETE"

\* The status _on_task_done gives to a record.
StatusOf(outcome) ==
  CASE outcome = "cancelled" -> "CANCELLED"
    [] outcome = "raised" -> "FAILED"
    [] outcome = "returned" -> "COMPLETE"

TypeOK ==
  /\ sessions \in [Inv -> [task : Tasks \cup {NoTask}, status : RecordStatuses]]
  /\ owner \in [Tasks -> Inv \cup {NoOne}]
  /\ state \in [Tasks -> TaskStates]
  /\ requested \in [Tasks -> BOOLEAN]
  /\ called \in [Tasks -> BOOLEAN]
  /\ created \in 0..MaxTasks
  /\ answer \in [task : Tasks \cup {NoTask}, result : BOOLEAN]
  /\ stage \in {"serving", "collected", "waiting", "closed"}
  /\ awaited \in SUBSET Tasks

Init ==
  /\ sessions = [i \in Inv |-> [task |-> NoTask, status |-> "RUNNING"]]
  /\ owner = [t \in Tasks |-> NoOne]
  /\ state = [t \in Tasks |-> "none"]
  /\ requested = [t \in Tasks |-> FALSE]
  /\ called = [t \in Tasks |-> FALSE]
  /\ created = 0
  /\ answer = [task |-> NoTask, result |-> FALSE]
  /\ stage = "serving"
  /\ awaited = {}

Registered(i) == sessions[i].task # NoTask

is_running(i) == Registered(i) /\ sessions[i].status = "RUNNING"

active_count == {i \in Inv : is_running(i)}

-------------------------------------------------------------------------------
\* Mutants of StartSession: no duplicate check; a check of the task itself.
StartSessionUnchecked(i) ==
  /\ stage = "serving"
  /\ created < MaxTasks
  /\ created' = created + 1
  /\ owner' = [owner EXCEPT ![created'] = i]
  /\ state' = [state EXCEPT ![created'] = "live"]
  /\ sessions' = [sessions EXCEPT ![i] = [task |-> created', status |-> "RUNNING"]]
  /\ UNCHANGED <<requested, called, answer, stage, awaited>>
StartSessionWhenDone(i) ==
  /\ Registered(i) => state[sessions[i].task] # "live"
  /\ StartSessionUnchecked(i)

\* start_session(i): refused while the record of i says RUNNING.
StartSession(i) ==
  /\ stage = "serving"
  /\ created < MaxTasks
  /\ ~is_running(i)
  /\ created' = created + 1
  /\ owner' = [owner EXCEPT ![created'] = i]
  /\ state' = [state EXCEPT ![created'] = "live"]
  /\ sessions' = [sessions EXCEPT ![i] = [task |-> created', status |-> "RUNNING"]]
  /\ UNCHANGED <<requested, called, answer, stage, awaited>>

\* The coroutine ends; a requested cancellation is delivered first.
Finish(t) ==
  /\ state[t] = "live"
  /\ \E outcome \in Outcomes :
       /\ (outcome = "cancelled") <=> requested[t]
       /\ state' = [state EXCEPT ![t] = outcome]
  /\ UNCHANGED <<sessions, owner, requested, called, created, answer, stage, awaited>>

\* _on_task_done(owner[t], t): it looks the record up by identifier.
OnTaskDone(t) ==
  /\ state[t] \in Outcomes
  /\ ~called[t]
  /\ called' = [called EXCEPT ![t] = TRUE]
  /\ sessions' = IF Registered(owner[t])
                   THEN [sessions EXCEPT ![owner[t]].status = StatusOf(state[t])]
                   ELSE sessions
  /\ UNCHANGED <<owner, state, requested, created, answer, stage, awaited>>

\* task.cancel() is ignored by a task that is done.
CancelTasks(ts) ==
  requested' = [t \in Tasks |-> requested[t] \/ (t \in ts /\ state[t] = "live")]

CancelSession(i) ==
  /\ stage = "serving"
  /\ answer' = [task |-> sessions[i].task, result |-> is_running(i)]
  /\ CancelTasks(IF is_running(i) THEN {sessions[i].task} ELSE {})
  /\ UNCHANGED <<sessions, owner, state, called, created, stage, awaited>>

\* shutdown(): collect under the lock, then cancel, then wait.
Collect ==
  /\ stage = "serving"
  /\ awaited' = {sessions[i].task : i \in active_count}
  /\ stage' = IF active_count = {} THEN "closed" ELSE "collected"
  /\ UNCHANGED <<sessions, owner, state, requested, called, created, answer>>

\* Mutant of CancelCollected: shutdown only waits.
CancelCollectedForgets ==
  /\ stage = "collected"
  /\ stage' = "waiting"
  /\ UNCHANGED <<sessions, owner, state, requested, called, created, answer, awaited>>

CancelCollected ==
  /\ stage = "collected"
  /\ CancelTasks(awaited)
  /\ stage' = "waiting"
  /\ UNCHANGED <<sessions, owner, state, called, created, answer, awaited>>

\* asyncio.wait(tasks, timeout=30.0) returns when every awaited task is done ...
WaitReturns ==
  /\ stage = "waiting"
  /\ \A t \in awaited : state[t] \in Outcomes
  /\ stage' = "closed"
  /\ UNCHANGED <<sessions, owner, state, requested, called, created, answer, awaited>>

\* ... or after 30 seconds, with some of them still on their way out.
WaitTimesOut ==
  /\ stage = "waiting"
  /\ \E t \in awaited : state[t] = "live"
  /\ stage' = "closed"
  /\ UNCHANGED <<sessions, owner, state, requested, called, created, answer, awaited>>

Next ==
  \/ \E i \in Inv : StartSession(i) \/ CancelSession(i)
  \/ \E t \in Tasks : Finish(t) \/ OnTaskDone(t)
  \/ Collect \/ CancelCollected \/ WaitReturns \/ WaitTimesOut

Spec == Init /\ [][Next]_vars

\* The event loop runs every callback, and a cancelled task ends, if not within
\* the 30 seconds; a task that is not cancelled may work as long as it likes.
Fairness ==
  /\ \A t \in Tasks : WF_vars(requested[t] /\ Finish(t)) /\ WF_vars(OnTaskDone(t))
  /\ WF_vars(CancelCollected) /\ WF_vars(WaitReturns \/ WaitTimesOut)

FairSpec == Spec /\ Fairness

-------------------------------------------------------------------------------
(* Properties *)

\* Duplicate prevention: an identifier never has two live tasks, and its live
\* task is the registered one, so cancel and shutdown reach it.
OneLiveTask ==
  \A t \in Tasks : state[t] = "live" => sessions[owner[t]].task = t /\ is_running(owner[t])

\* A record reports the outcome of its own task: a callback of an earlier
\* session of the same identifier never overwrites the record of a later one.
RecordTellsItsTask ==
  \A i \in Inv : Registered(i) =>
    LET t == sessions[i].task
    IN  IF called[t] THEN sessions[i].status = StatusOf(state[t])
                     ELSE sessions[i].status = "RUNNING"

\* No task escapes shutdown: from the moment it waits, and when it has given up
\* waiting, a task that still runs is one it waited for and has cancelled.  (So
\* none runs when it returns before its timeout.)
ShutdownReachesAll ==
  stage \in {"waiting", "closed"} =>
    \A t \in Tasks : state[t] = "live" => t \in awaited /\ requested[t]

\* Shutdown returns, and in the end no task runs: one that outlasts the timeout
\* still has its cancellation.
ShutdownEndsAll == stage = "collected" ~> stage = "closed" /\ \A t \in Tasks : state[t] # "live"

\* No cancellation is lost: after cancel_session of a known identifier its task
\* is being cancelled or has ended.  (True may also be answered when the task
\* ended by itself and its callback has not run yet.)
NoCancelIsLost ==
  answer.task # NoTask => requested[answer.task] \/ state[answer.task] # "live"
===============================================================================
