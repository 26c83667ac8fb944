------------------------- MODULE InvestigationService -------------------------
(***************************************************************************)
(* The life of investigations inside one server process: the POST handler, *)
(* the agent task it starts, the memory node that persists the results     *)
(* over the shared connection, the session registry, clients that poll,    *)
(* graceful shutdown, crashes and restarts.                                *)
(*                                                                         *)
(* Every repository method is "await execute; await commit; await get", so *)
(* a call is two steps here: the statement, then the commit together with  *)
(* the read-back, which changes nothing.  All other coroutines may run     *)
(* between the two.                                                        *)
(***************************************************************************)
EXTENDS SqliteStore

CONSTANTS MaxFindings,   \* most findings the analysis of a wallet returns
          MaxFaults,     \* statements and commits that may raise for I/O reasons
          MaxStops,      \* times the process may end
          StopKinds,     \* how it may end
          Watched        \* investigations a client polls

ASSUME ServiceAssumption == /\ MaxFindings \in Nat
                            /\ MaxFaults \in Nat
                            /\ MaxStops \in Nat
                            /\ StopKinds \subseteq {"shutdown", "crash"}
                            /\ Watched \subseteq Inv

VARIABLES pc,         \* where the coroutine serving an investigation is
          sent,       \* its statement has run and its commit has not
          findings,   \* number of findings of the analysis
          inserted,   \* findings create_batch has inserted so far
          counted,    \* create_batch returned, so total_evidence = findings
          sess,       \* SessionRecord.status, or "none"
          cancel,     \* task.cancel() was called
          app,        \* stage of the lifespan
          faults, stops,
          seen,       \* last status GET /investigate/{id} returned
          fetched     \* answer to GET /report/{id}, or how far it is

taskVars   == <<pc, sent>>
resultVars == <<findings, inserted, counted>>
clientVars == <<seen, fetched>>
vars == <<storeVars, taskVars, resultVars, sess, cancel, app, faults, stops, clientVars>>

HandlerAt == {"insert", "start"}
TaskAt == {"open", "running", "init", "graph", "evidence", "lookup", "report",
           "reasoning", "saved", "savedPhase", "complete", "donePhase", "failing"}
ClosingAt == {"closeOk", "closeRaised", "closeCancelled"}
Ended == {"ok", "raised", "cancelled"}
Labels == {"idle", "rejected", "lost"} \cup HandlerAt \cup TaskAt \cup ClosingAt \cup Ended

SessionStatuses == {"none", "RUNNING", "COMPLETE", "FAILED", "CANCELLED"}
AppStages == {"up", "closing", "dbClosed", "cancelling", "down"}

TypeOK ==
  /\ StoreTypeOK
  /\ pc \in [Inv -> Labels]
  /\ sent \in [Inv -> BOOLEAN]
  /\ findings \in [Inv -> 0..MaxFindings]
  /\ inserted \in [Inv -> 0..MaxFindings]
  /\ counted \in [Inv -> BOOLEAN]
  /\ sess \in [Inv -> SessionStatuses]
  /\ cancel \in [Inv -> BOOLEAN]
  /\ app \in AppStages
  /\ faults \in 0..MaxFaults
  /\ stops \in 0..MaxStops
  /\ seen \in [Inv -> Statuses \cup {"none"}]
  /\ fetched \in [Inv -> {"none", "reading", "report", "stub", "early", "failed"}]

Init ==
  /\ StoreInit
  /\ pc = [i \in Inv |-> "idle"]
  /\ sent = [i \in Inv |-> FALSE]
  /\ findings = [i \in Inv |-> 0]
  /\ inserted = [i \in Inv |-> 0]
  /\ counted = [i \in Inv |-> FALSE]
  /\ sess = [i \in Inv |-> "none"]
  /\ cancel = [i \in Inv |-> FALSE]
  /\ app = "up"
  /\ faults = 0
  /\ stops = 0
  /\ seen = [i \in Inv |-> "none"]
  /\ fetched = [i \in Inv |-> "none"]

-------------------------------------------------------------------------------
(* Steps of a coroutine *)

Goto(i, label) == pc' = [pc EXCEPT ![i] = label]

\* The coroutine of i is scheduled at this point of its program.  A task that
\* was cancelled takes no further step of its program.
Runs(i, label) == pc[i] = label /\ ~cancel[i] /\ app # "down"

Fault == faults < MaxFaults /\ faults' = faults + 1

\* await conn.execute(DML), with new its effect on what c sees.
Execute(i, c, new, handler) ==
  /\ ~sent[i]
  /\ \/ /\ Write(c, new)
        /\ sent' = [sent EXCEPT ![i] = TRUE]
        /\ UNCHANGED <<pc, faults>>
     \/ /\ WriteRefused(c)
        /\ Goto(i, handler)
        /\ UNCHANGED <<sent, faults>>
     \/ /\ Fault
        /\ WriteBreaks(c)
        /\ Goto(i, handler)
        /\ UNCHANGED sent

\* await conn.commit(); await self.get(id).
CommitAndGet(i, c, next, handler) ==
  /\ sent[i]
  /\ sent' = [sent EXCEPT ![i] = FALSE]
  /\ \/ /\ Commit(c)
        /\ Goto(i, next)
        /\ UNCHANGED faults
     \/ /\ CommitRefused(c)
        /\ Goto(i, handler)
        /\ UNCHANGED faults
     \/ /\ Fault
        /\ CommitBreaks(c) \/ Commit(c)
        /\ Goto(i, handler)

\* One repository method called at label by the coroutine of i.
Call(i, c, label, new, next, handler) ==
  /\ Runs(i, label)
  /\ Execute(i, c, new, handler) \/ CommitAndGet(i, c, next, handler)
  /\ UNCHANGED <<resultVars, sess, cancel, app, stops, clientVars>>

-------------------------------------------------------------------------------
(* POST /investigate *)

Receive(i) ==
  /\ app = "up"
  /\ pc[i] = "idle"
  /\ Goto(i, "insert")
  /\ UNCHANGED <<storeVars, sent, resultVars, sess, cancel, app, faults, stops, clientVars>>

\* Mutant of CreateRow: the handler goes on after an exception.
CreateRowSwallows(i) ==
  Call(i, Shared, "insert", InsertInvestigation(View(Shared), i), "start", "start")

\* The assertion on the row read back notices when another coroutine's
\* failure rolled the shared transaction back before the commit.
CreateRow(i) ==
  Call(i, Shared, "insert", InsertInvestigation(View(Shared), i),
       IF Exists(Committed(Shared), i) THEN "start" ELSE "rejected", "rejected")

\* session_manager.start_session, then the 202 response.
StartSession(i) ==
  /\ Runs(i, "start")
  /\ sess[i] # "RUNNING"
  /\ sess' = [sess EXCEPT ![i] = "RUNNING"]
  /\ Goto(i, "open")
  /\ UNCHANGED <<storeVars, sent, resultVars, cancel, app, faults, stops, clientVars>>

-------------------------------------------------------------------------------
(* _run_agent *)

\* get_db_direct; when it raises, the handlers find db = None and the
\* exception ends there.
OpenConnection(i) ==
  /\ Runs(i, "open")
  /\ \/ Open(i) /\ Goto(i, "running") /\ UNCHANGED faults
     \/ Fault /\ Goto(i, "ok") /\ UNCHANGED storeVars
  /\ UNCHANGED <<sent, resultVars, sess, cancel, app, stops, clientVars>>

\* Mutant of MarkRunning: the status stays what create() wrote.
MarkRunningAsPending(i) ==
  Call(i, i, "running", SetStatus(View(i), i, "PENDING"), "init", "failing")

MarkRunning(i) ==
  Call(i, i, "running", SetStatus(View(i), i, "RUNNING"), "init", "failing")

MarkInit(i) ==
  Call(i, i, "init", SetPhase(View(i), i, "INIT"), "graph", "failing")

\* ainvoke up to memory_node's get_db_conn(): any node may raise, and
\* get_db_conn() raises once close_db has cleared the singleton.
Analyse(i) ==
  /\ Runs(i, "graph")
  /\ \/ /\ app \in {"up", "closing"}
        /\ \E n \in 0..MaxFindings :
             /\ findings' = [findings EXCEPT ![i] = n]
             /\ Goto(i, IF n = 0 THEN "lookup" ELSE "evidence")
     \/ Goto(i, "failing") /\ UNCHANGED findings
  /\ UNCHANGED <<storeVars, sent, inserted, counted, sess, cancel, app, faults, stops, clientVars>>

MarkComplete(i) ==
  Call(i, i, "complete", SetStatusAndRisk(View(i), i, "COMPLETE"), "donePhase", "failing")

MarkDone(i) ==
  Call(i, i, "donePhase", SetPhase(View(i), i, "DONE"), "closeOk", "failing")

\* Mutants of RecordFailure: the exception is only logged; the coroutine goes
\* on after the handler; the handler tries again.
RecordFailureForgotten(i) ==
  /\ Runs(i, "failing")
  /\ Goto(i, "closeOk")
  /\ UNCHANGED <<storeVars, sent, faults, resultVars, sess, cancel, app, stops, clientVars>>
RecordFailureContinues(i) ==
  Call(i, i, "failing", MarkFailed(View(i), i), "complete", "closeRaised")
RecordFailureRetries(i) ==
  Call(i, i, "failing", MarkFailed(View(i), i), "running", "closeRaised")

\* Both except clauses; an exception of mark_failed itself leaves the task.
RecordFailure(i) ==
  Call(i, i, "failing", MarkFailed(View(i), i), "closeOk", "closeRaised")

\* Mutant of CloseConnection: no finally clause.
CloseConnectionLeaks(i) ==
  /\ pc[i] \in ClosingAt
  /\ app # "down"
  /\ Goto(i, IF pc[i] = "closeCancelled" THEN "cancelled" ELSE "ok")
  /\ UNCHANGED <<storeVars, sent, resultVars, sess, cancel, app, faults, stops, clientVars>>

\* The finally clause.
CloseConnection(i) ==
  /\ pc[i] \in ClosingAt
  /\ app # "down"
  /\ Close(i)
  /\ Goto(i, CASE pc[i] = "closeOk" -> "ok"
               [] pc[i] = "closeRaised" -> "raised"
               [] pc[i] = "closeCancelled" -> "cancelled")
  /\ UNCHANGED <<sent, resultVars, sess, cancel, app, faults, stops, clientVars>>

\* CancelledError is not an Exception: no handler records anything.
DeliverCancel(i) ==
  /\ app # "down"
  /\ cancel[i]
  /\ pc[i] \in TaskAt \cup {"closeOk", "closeRaised"}
  /\ Goto(i, IF pc[i] = "open" THEN "cancelled" ELSE "closeCancelled")
  /\ sent' = [sent EXCEPT ![i] = FALSE]
  /\ UNCHANGED <<storeVars, resultVars, sess, cancel, app, faults, stops, clientVars>>

-------------------------------------------------------------------------------
(* memory_node, over the shared connection; each try block swallows *)

\* Mutant of InsertFinding: one turn of the loop too many.
InsertFindingOnceMore(i) ==
  /\ Runs(i, "evidence") /\ ~sent[i]
  /\ Write(Shared, InsertEvidence(View(Shared), i))
  /\ inserted' = [inserted EXCEPT ![i] = @ + 1]
  /\ sent' = [sent EXCEPT ![i] = inserted[i] = findings[i]]
  /\ UNCHANGED <<pc, faults, findings, counted, sess, cancel, app, stops, clientVars>>

\* create_batch awaits one INSERT per finding and commits after the last.
InsertFinding(i) ==
  /\ Runs(i, "evidence")
  /\ ~sent[i]
  /\ \/ /\ Write(Shared, InsertEvidence(View(Shared), i))
        /\ inserted' = [inserted EXCEPT ![i] = @ + 1]
        /\ sent' = [sent EXCEPT ![i] = inserted[i] + 1 = findings[i]]
        /\ UNCHANGED <<pc, faults>>
     \/ /\ WriteRefused(Shared)
        /\ Goto(i, "lookup")
        /\ UNCHANGED <<inserted, sent, faults>>
     \/ /\ Fault
        /\ WriteBreaks(Shared)
        /\ Goto(i, "lookup")
        /\ UNCHANGED <<inserted, sent>>
  /\ UNCHANGED <<findings, counted, sess, cancel, app, stops, clientVars>>

CommitEvidence(i) ==
  /\ Runs(i, "evidence")
  /\ CommitAndGet(i, Shared, "lookup", "lookup")
  /\ counted' = [counted EXCEPT ![i] = faults' = faults /\ mode[Shared] # "closed"]
  /\ UNCHANGED <<findings, inserted, sess, cancel, app, stops, clientVars>>

\* Mutant of LookupReport: a report is created only where one exists.
LookupReportInverted(i) ==
  /\ Runs(i, "lookup")
  /\ ReadShared
  /\ Goto(i, IF ReportExists(View(Shared), i) THEN "report" ELSE "reasoning")
  /\ UNCHANGED <<sent, faults, resultVars, sess, cancel, app, stops, clientVars>>

\* get_by_investigation and exists_for_investigation.
LookupReport(i) ==
  /\ Runs(i, "lookup")
  /\ \/ /\ ReadShared
        /\ Goto(i, IF ReportExists(View(Shared), i) THEN "reasoning" ELSE "report")
        /\ UNCHANGED faults
     \/ /\ mode[Shared] = "closed"
        /\ Goto(i, "reasoning")
        /\ UNCHANGED <<storeVars, faults>>
     \/ /\ Fault
        /\ Goto(i, "reasoning")
        /\ UNCHANGED storeVars
  /\ UNCHANGED <<sent, resultVars, sess, cancel, app, stops, clientVars>>

\* Mutant of CreateReport: the count does not depend on the batch.
CreateReportUncounted(i) ==
  Call(i, Shared, "report", InsertReport(View(Shared), i, findings[i]), "reasoning", "reasoning")

CreateReport(i) ==
  Call(i, Shared, "report",
       InsertReport(View(Shared), i, IF counted[i] THEN findings[i] ELSE 0),
       "reasoning", "reasoning")

SaveReasoningLog(i) ==
  Call(i, Shared, "reasoning", SaveReasoning(View(Shared), i), "saved", "complete")

SaveComplete(i) ==
  Call(i, Shared, "saved", SetStatusAndRisk(View(Shared), i, "COMPLETE"), "savedPhase", "complete")

\* Mutant of SaveDone: the try block is gone.
SaveDoneRaises(i) ==
  Call(i, Shared, "savedPhase", SetPhase(View(Shared), i, "DONE"), "complete", "failing")

SaveDone(i) ==
  Call(i, Shared, "savedPhase", SetPhase(View(Shared), i, "DONE"), "complete", "complete")

-------------------------------------------------------------------------------
(* SessionManager._on_task_done *)

OnTaskDone(i) ==
  /\ app # "down"
  /\ pc[i] \in Ended
  /\ sess[i] = "RUNNING"
  /\ sess' = [sess EXCEPT ![i] = CASE pc[i] = "cancelled" -> "CANCELLED"
                                   [] pc[i] = "raised" -> "FAILED"
                                   [] pc[i] = "ok" -> "COMPLETE"]
  /\ UNCHANGED <<storeVars, taskVars, resultVars, cancel, app, faults, stops, clientVars>>

-------------------------------------------------------------------------------
(* Clients *)

\* GET /investigate/{id}: a client polls until it sees a terminal status.
Poll(i) ==
  /\ app = "up"
  /\ i \in Watched
  /\ pc[i] \notin HandlerAt \cup {"idle", "rejected"}
  /\ seen[i] \notin Terminal
  /\ Exists(View(Shared), i)
  /\ ReadShared
  /\ seen' = [seen EXCEPT ![i] = View(Shared).investigations[i].status]
  /\ UNCHANGED <<taskVars, resultVars, sess, cancel, app, faults, stops, fetched>>

\* GET /report/{id}, asked for once the status was COMPLETE, reads the row
\* and then, after another await, the report.
GetReport(i) ==
  /\ app = "up"
  /\ seen[i] = "COMPLETE"
  /\ fetched[i] = "none"
  /\ ReadShared
  /\ LET status == View(Shared).investigations[i].status
     IN  fetched' = [fetched EXCEPT ![i] =
           CASE status \in {"PENDING", "RUNNING"} -> "early"
             [] status = "FAILED" -> "failed"
             [] OTHER -> "reading"]
  /\ UNCHANGED <<taskVars, resultVars, sess, cancel, app, faults, stops, seen>>

ReadReport(i) ==
  /\ app = "up"
  /\ fetched[i] = "reading"
  /\ ReadShared
  /\ fetched' = [fetched EXCEPT ![i] = IF ReportExists(View(Shared), i) THEN "report" ELSE "stub"]
  /\ UNCHANGED <<taskVars, resultVars, sess, cancel, app, faults, stops, seen>>

-------------------------------------------------------------------------------
(* Lifespan *)

\* Shutdown begins once no request is being served.
CloseDb ==
  /\ app = "up"
  /\ "shutdown" \in StopKinds
  /\ stops < MaxStops
  /\ \A i \in Inv : pc[i] \notin HandlerAt /\ fetched[i] # "reading"
  /\ app' = "closing"
  /\ Close(Shared)
  /\ UNCHANGED <<taskVars, resultVars, sess, cancel, faults, stops, clientVars>>

ClearDb ==
  /\ app = "closing"
  /\ app' = "dbClosed"
  /\ UNCHANGED <<storeVars, taskVars, resultVars, sess, cancel, faults, stops, clientVars>>

\* SessionManager.shutdown; cancel() has no effect on a finished task.
CancelSessions ==
  /\ app = "dbClosed"
  /\ app' = "cancelling"
  /\ cancel' = [i \in Inv |-> sess[i] = "RUNNING" /\ pc[i] \notin Ended]
  /\ UNCHANGED <<storeVars, taskVars, resultVars, sess, faults, stops, clientVars>>

\* What the death of the process leaves: the committed tables.
Die ==
  /\ stops < MaxStops
  /\ app' = "down"
  /\ stops' = stops + 1
  /\ work' = EmptyTables
  /\ snap' = EmptyTables
  /\ mode' = [c \in Conn |-> "closed"]
  /\ pc' = [i \in Inv |-> IF pc[i] \in HandlerAt \cup TaskAt \cup ClosingAt
                          THEN "lost" ELSE pc[i]]
  /\ sent' = [i \in Inv |-> FALSE]
  /\ sess' = [i \in Inv |-> "none"]
  /\ cancel' = [i \in Inv |-> FALSE]
  /\ fetched' = [i \in Inv |-> IF fetched[i] = "reading" THEN "none" ELSE fetched[i]]
  /\ UNCHANGED <<db, resultVars, seen>>

\* asyncio.wait over the cancelled tasks, or its timeout, which takes a fault.
Exit ==
  /\ app = "cancelling"
  /\ \/ (\A i \in Inv : cancel[i] => pc[i] \in Ended) /\ UNCHANGED faults
     \/ (\E i \in Inv : cancel[i] /\ pc[i] \notin Ended) /\ Fault
  /\ Die

Crash ==
  /\ app # "down"
  /\ "crash" \in StopKinds
  /\ Die
  /\ UNCHANGED faults

Restart ==
  /\ app = "down"
  /\ app' = "up"
  /\ mode' = [mode EXCEPT ![Shared] = "auto"]
  /\ UNCHANGED <<db, work, snap, taskVars, resultVars, sess, cancel, faults, stops, clientVars>>

-------------------------------------------------------------------------------
Handler(i) == CreateRow(i) \/ StartSession(i)

MemoryNode(i) ==
  InsertFinding(i) \/ CommitEvidence(i) \/ LookupReport(i) \/ CreateReport(i)
    \/ SaveReasoningLog(i) \/ SaveComplete(i) \/ SaveDone(i)

Task(i) ==
  \/ OpenConnection(i) \/ MarkRunning(i) \/ MarkInit(i) \/ Analyse(i) \/ MemoryNode(i)
  \/ MarkComplete(i) \/ MarkDone(i) \/ RecordFailure(i) \/ CloseConnection(i)
  \/ DeliverCancel(i)

Client(i) == Receive(i) \/ Poll(i) \/ GetReport(i) \/ ReadReport(i)

Lifespan == CloseDb \/ ClearDb \/ CancelSessions \/ Exit \/ Crash \/ Restart

Next ==
  \/ \E i \in Inv : Handler(i) \/ Task(i) \/ OnTaskDone(i) \/ Client(i)
  \/ Lifespan

Spec == Init /\ [][Next]_vars

\* The event loop runs every ready coroutine, and shutdown runs to its end.
\* Nobody is obliged to send requests, to crash or to restart the process.
Fairness ==
  /\ \A i \in Inv : WF_vars(Handler(i)) /\ WF_vars(Task(i)) /\ WF_vars(OnTaskDone(i))
  /\ WF_vars(ClearDb \/ CancelSessions \/ Exit)

FairSpec == Spec /\ Fairness
-------------------------------------------------------------------------------
(* Properties *)

\* A task never works for a row that a crash or another connection could
\* find missing: start_investigation commits the row before it hands the
\* coroutine to the session manager, and no update of it hits zero rows.
TaskHasCommittedRow ==
  \A i \in Inv : pc[i] \in TaskAt \cup ClosingAt \cup Ended => Exists(db, i)

\* The timestamps tell the status apart in every committed row, whichever
\* of mark_failed and the two update_status calls came last: completed_at is
\* set exactly in a terminal row, and a COMPLETE row was RUNNING and scored.
LifecycleTimestamps ==
  \A i \in Inv : LET r == db.investigations[i]
                IN  /\ r.completed <=> r.status \in Terminal
                    /\ r.status = "COMPLETE" => r.started /\ r.risk
                    /\ r.error <=> r.status = "FAILED"

\* A report that claims evidence finds exactly that many evidence rows
\* committed, although both are written on a connection whose transaction
\* any other coroutine may commit half-way.
EvidenceBehindReport ==
  \A i \in Inv : db.reports[i] > 0 => db.evidence[i] = db.reports[i]

\* A committed COMPLETE row has its report: memory_node writes the report
\* before the status, and the task writes COMPLETE after memory_node.
CompleteHasReport ==
  \A i \in Inv : db.investigations[i].status = "COMPLETE" => ReportExists(db, i)

\* A session that the registry calls COMPLETE left a terminal row behind.
SessionAgreesWithRow ==
  \A i \in Inv : sess[i] = "COMPLETE" => db.investigations[i].status \in Terminal

\* i is between a statement on connection c and its commit.
InTransaction(i, c) ==
  \/ c = Shared /\ pc[i] = "insert" /\ sent[i]
  \/ c = Shared /\ pc[i] \in {"report", "reasoning", "saved", "savedPhase"} /\ sent[i]
  \/ c = Shared /\ pc[i] = "evidence" /\ inserted[i] > 0
  \/ c = i /\ pc[i] \in {"running", "init", "complete", "donePhase", "failing"} /\ sent[i]
  \/ c = i /\ pc[i] \in ClosingAt

\* The write lock is never left behind: whoever holds it has a coroutine
\* that is about to commit, so that every other connection's wait ends.
LockHasOwner ==
  \A c \in Conn : mode[c] = "write" => \E i \in Inv : InTransaction(i, c)

\* A client that was told COMPLETE gets the report, never a refusal or a
\* stub.  Only after a crash it may be told to come back: the status it was
\* shown was read on the shared connection before its commit, and is lost.
ReportServed ==
  \A i \in Inv :
    /\ fetched[i] \notin {"failed", "stub"}
    /\ fetched[i] = "early" => stops > 0

\* FAILED is final: no write still pending on either connection reopens it.
FailedIsFinal ==
  [][\A i \in Inv : db.investigations[i].status = "FAILED"
                   => db'.investigations[i].status = "FAILED"]_vars

\* A terminal status never changes while no statement fails: the task's own
\* COMPLETE repeats memory_node's, and no cancelled task writes.
TerminalIsFinal ==
  [][\A i \in Inv : LET s == db.investigations[i].status
                   IN  s \in Terminal => db'.investigations[i].status = s]_vars

\* Nothing takes a finished investigation back to PENDING or RUNNING.
TerminalNeverReopens ==
  [][\A i \in Inv : db.investigations[i].status \in Terminal
                   => db'.investigations[i].status \in Terminal]_vars

\* Without faults every started investigation ends with a terminal row and a
\* session that says so, unless its process dies first.
StartedFinishes ==
  \A i \in Inv : pc[i] = "open" ~>
    \/ db.investigations[i].status \in Terminal /\ sess[i] = "COMPLETE"
    \/ app = "down"

\* Whatever fails, no task hangs: it returns, raises, is cancelled or dies
\* with its process, even when nobody is left to release the write lock.
TaskEnds == \A i \in Inv : pc[i] = "open" ~> pc[i] \in Ended \cup {"lost"}
-------------------------------------------------------------------------------
(* Refinement *)

\* The committed tables implement the lifecycle.
Lifecycle == INSTANCE InvestigationLifecycle
  WITH status   <- [i \in Inv |-> db.investigations[i].status],
       reported <- [i \in Inv |-> ReportExists(db, i)]

\* Every commit, whoever makes it, is a step of the lifecycle: a reader of
\* the database never sees an investigation skip a status, leave a terminal
\* one, or become COMPLETE without its report.
ImplementsLifecycle == Lifecycle!LifecycleSpec

-------------------------------------------------------------------------------
(* What comments and docstrings say *)

\* SessionManager: a cancelled investigation writes a FAILED status.
CancelledIsFailed ==
  \A i \in Inv : pc[i] = "cancelled" => db.investigations[i].status = "FAILED"
===============================================================================
