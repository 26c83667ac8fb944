------------------------ MODULE SessionManagerProofs ------------------------
(***************************************************************************)
(* The registry keeps its promises for every set of identifiers and every  *)
(* number of tasks.                                                        *)
(***************************************************************************)
EXTENDS SessionManager, TLAPS

\* Tasks are created in order, and only a created task has an owner, an
\* outcome or a callback that ran.
TasksInOrder ==
  \A t \in Tasks : /\ t <= created => owner[t] \in Inv /\ state[t] # "none"
                   /\ t > created => state[t] = "none"
                   /\ called[t] => state[t] \in Outcomes

\* Records point to created tasks of their own identifier.
RecordsOwnTasks ==
  \A i \in Inv : Registered(i) =>
    sessions[i].task <= created /\ owner[sessions[i].task] = i

\* The strengthening of OneLiveTask: not only a live task but every task whose
\* callback is still to come is the registered one, and its record is RUNNING.
PendingIsRegistered ==
  \A t \in Tasks : t <= created /\ ~called[t] =>
    sessions[owner[t]].task = t /\ sessions[owner[t]].status = "RUNNING"

CalledIsRecorded ==
  \A i \in Inv : Registered(i) /\ called[sessions[i].task] =>
    sessions[i].status = StatusOf(state[sessions[i].task])

\* Shutdown has every live task on its list before it cancels.
ShutdownKnowsAll ==
  /\ stage = "collected" => \A t \in Tasks : state[t] = "live" => t \in awaited
  /\ ShutdownReachesAll

RegistryInv == TasksInOrder /\ RecordsOwnTasks /\ PendingIsRegistered /\ CalledIsRecorded

LEMMA TasksAreNat == Tasks \subseteq Nat /\ NoTask \notin Tasks /\ MaxTasks \in Nat
  BY TasksAssumption DEF Tasks, NoTask

LEMMA StatusOfType == \A outcome \in Outcomes : StatusOf(outcome) \in RecordStatuses
  BY DEF Outcomes, StatusOf, RecordStatuses

-----------------------------------------------------------------------------
\* The variables of the registry stay in their types.
LEMMA TypeStep == TypeOK /\ [Next]_vars => TypeOK'
<1> SUFFICES ASSUME TypeOK, [Next]_vars PROVE TypeOK'
  OBVIOUS
<1> USE TasksAreNat, StatusOfType DEF TypeOK
<1>1. ASSUME NEW i \in Inv, StartSession(i) PROVE TypeOK'
  <2>1. created + 1 \in Tasks
    BY <1>1, TasksAssumption DEF StartSession, Tasks
  <2>2. QED
    BY <1>1, <2>1 DEF StartSession, Tasks, TaskStates, RecordStatuses
<1>2. ASSUME NEW i \in Inv, CancelSession(i) PROVE TypeOK'
  BY <1>2 DEF CancelSession, CancelTasks, is_running
<1>3. ASSUME NEW t \in Tasks, Finish(t) PROVE TypeOK'
  BY <1>3 DEF Finish, TaskStates
<1>4. ASSUME NEW t \in Tasks, OnTaskDone(t) PROVE TypeOK'
  BY <1>4 DEF OnTaskDone
<1>5. ASSUME Collect PROVE TypeOK'
  <2>1. {sessions[i].task : i \in active_count} \subseteq Tasks
    BY DEF active_count, is_running, Registered
  <2>2. QED
    BY <1>5, <2>1 DEF Collect
<1>6. CASE CancelCollected
  BY <1>6 DEF CancelCollected, CancelTasks
<1>7. CASE WaitReturns \/ WaitTimesOut
  BY <1>7 DEF WaitReturns, WaitTimesOut
<1>8. CASE UNCHANGED vars
  BY <1>8 DEF vars
<1>9. QED
  BY <1>1, <1>2, <1>3, <1>4, <1>5, <1>6, <1>7, <1>8 DEF Next

LEMMA TypeInit == Init => TypeOK
  BY TasksAssumption
  DEF Init, TypeOK, Tasks, NoTask, TaskStates, RecordStatuses

\* TypeOK is an invariant.
THEOREM SessionTypes == Spec => []TypeOK
  BY TypeInit, TypeStep, PTL DEF Spec

-----------------------------------------------------------------------------
LEMMA RegistryInit == Init => RegistryInv
<1> SUFFICES ASSUME Init PROVE RegistryInv
  OBVIOUS
<1> USE TasksAreNat DEF Init
<1>1. \A i \in Inv : ~Registered(i)
  BY DEF Registered
<1>2. TasksInOrder
  BY TasksAssumption DEF TasksInOrder, Tasks
<1>3. PendingIsRegistered
  BY TasksAssumption DEF PendingIsRegistered, Tasks
<1>4. QED
  BY <1>1, <1>2, <1>3 DEF RegistryInv, RecordsOwnTasks, CalledIsRecorded

\* The registry's invariant is inductive.  The interesting step is a repeated
\* start_session: the record it replaces is not RUNNING, so the callback of the
\* task it forgets has run and cannot come back to the new record.
LEMMA RegistryStep == TypeOK /\ RegistryInv /\ [Next]_vars => RegistryInv'
<1> SUFFICES ASSUME TypeOK, RegistryInv, [Next]_vars PROVE RegistryInv'
  OBVIOUS
<1> USE TasksAreNat DEF TypeOK
<1> USE DEF RegistryInv, TasksInOrder, RecordsOwnTasks, PendingIsRegistered,
            CalledIsRecorded, Registered
<1>1. ASSUME NEW i \in Inv, StartSession(i) PROVE RegistryInv'
  <2>1. created + 1 \in Tasks /\ created' = created + 1
    BY <1>1, TasksAssumption DEF StartSession, Tasks
  <2>2. ~is_running(i)
    BY <1>1 DEF StartSession
  <2>3. \A t \in Tasks : t <= created /\ ~called[t] => owner[t] # i
    BY <2>2 DEF is_running
  <2>4. TasksInOrder'
    BY <1>1, <2>1 DEF StartSession, Outcomes, Tasks
  <2>5. RecordsOwnTasks'
    BY <1>1, <2>1 DEF StartSession, Tasks
  <2>6. PendingIsRegistered'
    BY <1>1, <2>1, <2>3 DEF StartSession, Tasks
  <2>7. ~called[created + 1]
    BY <2>1, TasksAssumption DEF Outcomes, Tasks
  <2>8. CalledIsRecorded'
    <3> SUFFICES ASSUME NEW j \in Inv, Registered(j)', called'[sessions'[j].task]
                 PROVE  sessions'[j].status = StatusOf(state'[sessions'[j].task])
      OBVIOUS
    <3>1. j # i
      BY <1>1, <2>1, <2>7 DEF StartSession
    <3>2. sessions'[j] = sessions[j] /\ called' = called
      BY <1>1, <3>1 DEF StartSession
    <3>3. sessions[j].task <= created
      BY <3>2
    <3>4. state'[sessions[j].task] = state[sessions[j].task]
      BY <1>1, <2>1, <3>2, <3>3 DEF StartSession
    <3>5. QED
      BY <3>2, <3>4
  <2>9. QED
    BY <2>4, <2>5, <2>6, <2>8
<1>2. ASSUME NEW i \in Inv, CancelSession(i) PROVE RegistryInv'
  BY <1>2 DEF CancelSession
<1>3. ASSUME NEW t \in Tasks, Finish(t) PROVE RegistryInv'
  <2>1. state[t] = "live" /\ ~called[t]
    BY <1>3 DEF Finish, Outcomes
  <2>2. TasksInOrder'
    BY <1>3 DEF Finish, Outcomes
  <2>3. CalledIsRecorded'
    BY <1>3, <2>1 DEF Finish
  <2>4. QED
    BY <1>3, <2>2, <2>3 DEF Finish
<1>4. ASSUME NEW t \in Tasks, OnTaskDone(t) PROVE RegistryInv'
  <2>1. t <= created /\ owner[t] \in Inv /\ sessions[owner[t]].task = t
    BY <1>4 DEF OnTaskDone, Outcomes
  <2>2. sessions' = [sessions EXCEPT ![owner[t]].status = StatusOf(state[t])]
    BY <1>4, <2>1 DEF OnTaskDone
  <2>3. \A j \in Inv : sessions'[j].task = sessions[j].task
    BY <2>1, <2>2
  <2>4. TasksInOrder'
    BY <1>4 DEF OnTaskDone
  <2>5. RecordsOwnTasks'
    BY <1>4, <2>3 DEF OnTaskDone
  <2>6. PendingIsRegistered'
    <3> SUFFICES ASSUME NEW u \in Tasks, u <= created, ~called'[u]
                 PROVE  sessions'[owner[u]].task = u /\ sessions'[owner[u]].status = "RUNNING"
      BY <1>4 DEF OnTaskDone
    <3>1. u # t /\ ~called[u] /\ owner[u] \in Inv
      BY <1>4 DEF OnTaskDone
    <3>2. owner[u] # owner[t]
      BY <2>1, <3>1
    <3>3. QED
      BY <2>1, <2>2, <3>1, <3>2
  <2>7. CalledIsRecorded'
    <3> SUFFICES ASSUME NEW j \in Inv, Registered(j), called'[sessions[j].task]
                 PROVE  sessions'[j].status = StatusOf(state[sessions[j].task])
      BY <1>4, <2>3 DEF OnTaskDone
    <3>1. CASE j = owner[t]
      BY <2>1, <2>2, <3>1
    <3>2. CASE j # owner[t]
      <4>1. sessions'[j] = sessions[j]
        BY <2>1, <2>2, <3>2
      <4>2. sessions[j].task # t
        BY <2>1, <3>2
      <4>3. called[sessions[j].task]
        BY <1>4, <4>2 DEF OnTaskDone
      <4>4. QED
        BY <4>1, <4>3
    <3>3. QED
      BY <3>1, <3>2
  <2>8. QED
    BY <2>4, <2>5, <2>6, <2>7
<1>5. CASE Collect
  BY <1>5 DEF Collect
<1>6. CASE CancelCollected
  BY <1>6 DEF CancelCollected
<1>7. CASE WaitReturns \/ WaitTimesOut
  BY <1>7 DEF WaitReturns, WaitTimesOut
<1>8. CASE UNCHANGED vars
  BY <1>8 DEF vars
<1>9. QED
  BY <1>1, <1>2, <1>3, <1>4, <1>5, <1>6, <1>7, <1>8 DEF Next

\* What the invariant says of the two properties of the registry.
LEMMA RegistryImplies == TypeOK /\ RegistryInv => OneLiveTask /\ RecordTellsItsTask
<1> SUFFICES ASSUME TypeOK, RegistryInv PROVE OneLiveTask /\ RecordTellsItsTask
  OBVIOUS
<1> USE TasksAreNat DEF TypeOK, RegistryInv, TasksInOrder
<1>1. \A t \in Tasks : state[t] = "live" => t <= created /\ ~called[t] /\ owner[t] \in Inv
  BY DEF Outcomes, Tasks
<1>2. OneLiveTask
  BY <1>1 DEF OneLiveTask, PendingIsRegistered, is_running, Registered
<1>3. RecordTellsItsTask
  <2> SUFFICES ASSUME NEW i \in Inv, Registered(i)
               PROVE  IF called[sessions[i].task]
                        THEN sessions[i].status = StatusOf(state[sessions[i].task])
                        ELSE sessions[i].status = "RUNNING"
    BY DEF RecordTellsItsTask
  <2>1. sessions[i].task \in Tasks
    BY DEF Registered
  <2>2. sessions[i].task <= created /\ owner[sessions[i].task] = i
    BY DEF RecordsOwnTasks
  <2>3. CASE called[sessions[i].task]
    BY <2>3 DEF CalledIsRecorded
  <2>4. CASE ~called[sessions[i].task]
    <3>1. sessions[owner[sessions[i].task]].status = "RUNNING"
      BY <2>1, <2>2, <2>4 DEF PendingIsRegistered
    <3>2. QED
      BY <2>2, <2>4, <3>1
  <2>5. QED
    BY <2>3, <2>4
<1>4. QED
  BY <1>2, <1>3

\* An identifier never has two live tasks, and its live task is the one the
\* registry would cancel.
THEOREM NoDuplicateSessions == Spec => []OneLiveTask
  BY TypeInit, TypeStep, RegistryInit, RegistryStep, RegistryImplies, PTL DEF Spec

\* A record carries the outcome of its own task, never that of an earlier one.
THEOREM RecordsAreTheirTasks == Spec => []RecordTellsItsTask
  BY TypeInit, TypeStep, RegistryInit, RegistryStep, RegistryImplies, PTL DEF Spec

-----------------------------------------------------------------------------
\* Once shutdown has begun, no task starts, and every live task is on the list
\* it cancels and waits for: the registry knew each of them as RUNNING.
LEMMA ShutdownStep ==
  TypeOK /\ RegistryInv /\ ShutdownKnowsAll /\ [Next]_vars => ShutdownKnowsAll'
<1> SUFFICES ASSUME TypeOK, RegistryInv, ShutdownKnowsAll, [Next]_vars
             PROVE  ShutdownKnowsAll'
  OBVIOUS
<1> USE TasksAreNat DEF TypeOK, ShutdownKnowsAll, ShutdownReachesAll
<1>1. ASSUME NEW i \in Inv, StartSession(i) PROVE ShutdownKnowsAll'
  BY <1>1 DEF StartSession
<1>2. ASSUME NEW i \in Inv, CancelSession(i) PROVE ShutdownKnowsAll'
  BY <1>2 DEF CancelSession
<1>3. ASSUME NEW t \in Tasks, Finish(t) PROVE ShutdownKnowsAll'
  BY <1>3 DEF Finish, Outcomes
<1>4. ASSUME NEW t \in Tasks, OnTaskDone(t) PROVE ShutdownKnowsAll'
  BY <1>4 DEF OnTaskDone
<1>5. CASE Collect
  <2>1. \A t \in Tasks : state[t] = "live" =>
           owner[t] \in active_count /\ sessions[owner[t]].task = t
    <3>1. OneLiveTask
      BY RegistryImplies
    <3>2. \A t \in Tasks : state[t] = "live" => owner[t] \in Inv
      BY DEF RegistryInv, TasksInOrder, Tasks
    <3>3. QED
      BY <3>1, <3>2 DEF OneLiveTask, active_count
  <2>2. QED
    BY <1>5, <2>1 DEF Collect
<1>6. CASE CancelCollected
  BY <1>6 DEF CancelCollected, CancelTasks
<1>7. CASE WaitReturns \/ WaitTimesOut
  BY <1>7 DEF WaitReturns, WaitTimesOut
<1>8. CASE UNCHANGED vars
  BY <1>8 DEF vars
<1>9. QED
  BY <1>1, <1>2, <1>3, <1>4, <1>5, <1>6, <1>7, <1>8 DEF Next

LEMMA ShutdownInit == Init => ShutdownKnowsAll
  BY DEF Init, ShutdownKnowsAll, ShutdownReachesAll

\* No task escapes shutdown, whether it returns in time or gives up after 30
\* seconds: whatever still runs is on its list and has been cancelled.
THEOREM ShutdownReachesEveryone == Spec => []ShutdownReachesAll
<1>1. ShutdownKnowsAll => ShutdownReachesAll
  BY DEF ShutdownKnowsAll
<1>2. QED
  BY <1>1, TypeInit, TypeStep, RegistryInit, RegistryStep, ShutdownInit, ShutdownStep, PTL
  DEF Spec

-----------------------------------------------------------------------------
\* The task an answer was about exists, and has its cancellation or has ended.
AnswerInv == answer.task # NoTask => answer.task <= created /\ NoCancelIsLost

\* A record that is not RUNNING belongs to a task that has ended, so a refusal
\* to cancel it loses nothing.
LEMMA RefusalIsSafe ==
  ASSUME TypeOK, RegistryInv, NEW i \in Inv, Registered(i), ~is_running(i)
  PROVE  state[sessions[i].task] # "live"
<1> USE TasksAreNat DEF TypeOK
<1>1. sessions[i].task \in Tasks /\ sessions[i].task <= created /\ owner[sessions[i].task] = i
  BY DEF RegistryInv, RecordsOwnTasks, Registered
<1>2. called[sessions[i].task]
  <2>1. ~called[sessions[i].task] => sessions[i].status = "RUNNING"
    BY <1>1 DEF RegistryInv, RecordTellsItsTask, PendingIsRegistered
  <2>2. QED
    BY <2>1 DEF is_running
<1>3. state[sessions[i].task] \in Outcomes
  BY <1>1, <1>2 DEF RegistryInv, TasksInOrder
<1>4. QED
  BY <1>3 DEF Outcomes

LEMMA AnswerStep == TypeOK /\ RegistryInv /\ AnswerInv /\ [Next]_vars => AnswerInv'
<1> SUFFICES ASSUME TypeOK, RegistryInv, AnswerInv, [Next]_vars PROVE AnswerInv'
  OBVIOUS
<1> USE TasksAreNat DEF AnswerInv, NoCancelIsLost
<1>1. /\ answer.task \in Tasks \cup {NoTask} /\ created \in Nat
      /\ requested \in [Tasks -> BOOLEAN] /\ state \in [Tasks -> TaskStates]
  BY TasksAssumption DEF TypeOK
<1>2. ASSUME NEW i \in Inv, StartSession(i) PROVE AnswerInv'
  <2>1. created' = created + 1 /\ state' = [state EXCEPT ![created + 1] = "live"]
        /\ answer' = answer /\ requested' = requested
    BY <1>2 DEF StartSession
  <2>2. CASE answer.task = NoTask
    BY <2>1, <2>2
  <2>3. CASE answer.task # NoTask
    <3>1. answer.task \in Tasks /\ answer.task <= created /\ answer.task # created + 1
      BY <1>1, <2>3
    <3>2. state'[answer.task] = state[answer.task]
      BY <1>1, <2>1, <3>1
    <3>3. answer'.task <= created'
      <4>1. answer'.task = answer.task /\ created' = created + 1
        BY <2>1
      <4>2. answer.task \in Nat
        BY <3>1
      <4>3. QED
        BY <1>1, <3>1, <4>1, <4>2
    <3>4. requested'[answer'.task] \/ state'[answer'.task] # "live"
      BY <2>1, <2>3, <3>2 DEF AnswerInv, NoCancelIsLost
    <3>5. QED
      BY <3>3, <3>4
  <2>4. QED
    BY <2>2, <2>3
<1>3. ASSUME NEW i \in Inv, CancelSession(i) PROVE AnswerInv'
  <2>1. /\ answer'.task = sessions[i].task /\ created' = created /\ state' = state
        /\ CancelTasks(IF is_running(i) THEN {sessions[i].task} ELSE {})
    BY <1>3 DEF CancelSession
  <2>2. CASE sessions[i].task = NoTask
    BY <2>1, <2>2
  <2>3. CASE sessions[i].task # NoTask
    <3>1. Registered(i) /\ sessions[i].task \in Tasks /\ sessions[i].task <= created
      BY <2>3 DEF Registered, TypeOK, RegistryInv, RecordsOwnTasks
    <3>2. CASE is_running(i)
      <4>1. state[sessions[i].task] = "live" => requested'[sessions[i].task]
        BY <2>1, <3>1, <3>2 DEF CancelTasks
      <4>2. QED
        BY <2>1, <3>1, <4>1
    <3>3. CASE ~is_running(i)
      BY <2>1, <3>1, <3>3, RefusalIsSafe
    <3>4. QED
      BY <3>2, <3>3
  <2>4. QED
    BY <2>2, <2>3
<1>4. ASSUME NEW t \in Tasks, Finish(t) PROVE AnswerInv'
  <2>1. /\ \E outcome \in Outcomes : state' = [state EXCEPT ![t] = outcome]
        /\ created' = created /\ answer' = answer /\ requested' = requested
    BY <1>4 DEF Finish
  <2>2. QED
    BY <1>1, <2>1 DEF Outcomes
<1>5. CASE CancelCollected
  <2>1. /\ \A t \in Tasks : requested[t] => requested'[t]
        /\ created' = created /\ answer' = answer /\ state' = state
    BY <1>5 DEF CancelCollected, CancelTasks
  <2>2. QED
    BY <1>1, <2>1
<1>6. ASSUME UNCHANGED <<state, requested, created, answer>> PROVE AnswerInv'
  BY <1>6
<1>7. ASSUME NEW t \in Tasks, OnTaskDone(t) PROVE AnswerInv'
  BY <1>6, <1>7 DEF OnTaskDone
<1>8. CASE Collect \/ WaitReturns \/ WaitTimesOut \/ UNCHANGED vars
  BY <1>6, <1>8 DEF Collect, WaitReturns, WaitTimesOut, vars
<1>9. QED
  BY <1>2, <1>3, <1>4, <1>5, <1>7, <1>8 DEF Next

\* cancel_session never answers for a task that works on without knowing: it
\* was live and is being cancelled, or it has ended, its callback run or not.
THEOREM CancelsArrive == Spec => []NoCancelIsLost
<1>1. Init => AnswerInv
  BY DEF Init, AnswerInv
<1>2. AnswerInv => NoCancelIsLost
  BY DEF AnswerInv, NoCancelIsLost
<1>3. QED
  BY <1>1, <1>2, TypeInit, TypeStep, RegistryInit, RegistryStep, AnswerStep, PTL DEF Spec

=============================================================================
