---------------------------- MODULE Repositories ----------------------------
(***************************************************************************)
(* The three tables of the SQLite schema and the SQL statements that the   *)
(* repositories issue against them, as operators from tables to tables.    *)
(*                                                                         *)
(* A row keeps what the lifecycle depends on: the status, the phase, and   *)
(* whether started_at, completed_at, risk_score, reasoning_log and         *)
(* error_message are non-NULL.  Evidence rows are counted, and a report is *)
(* represented by the evidence_count it was written with.                  *)
(***************************************************************************)
EXTENDS Integers

CONSTANT Inv                    \* identifiers handed out by uuid4

Statuses == {"PENDING", "RUNNING", "COMPLETE", "FAILED"}
Terminal == {"COMPLETE", "FAILED"}
NoReport == -1

Row == [status    : Statuses \cup {"ABSENT"},
        phase     : {"NULL", "INIT", "DONE"},
        started   : BOOLEAN,
        completed : BOOLEAN,
        risk      : BOOLEAN,
        reasoning : BOOLEAN,
        error     : BOOLEAN]

NoRow == [status    |-> "ABSENT",
          phase     |-> "NULL",
          started   |-> FALSE,
          completed |-> FALSE,
          risk      |-> FALSE,
          reasoning |-> FALSE,
          error     |-> FALSE]

Tables == [investigations : [Inv -> Row],
           evidence       : [Inv -> Nat],
           reports        : [Inv -> Nat \cup {NoReport}]]

EmptyTables == [investigations |-> [i \in Inv |-> NoRow],
                evidence       |-> [i \in Inv |-> 0],
                reports        |-> [i \in Inv |-> NoReport]]

Exists(t, i) == t.investigations[i].status # "ABSENT"

\* UPDATE investigations SET ... WHERE id = ?: no matching row, no effect.
UpdateRow(t, i, row) ==
  IF Exists(t, i) THEN [t EXCEPT !.investigations[i] = row] ELSE t

\* InvestigationRepository.create: INSERT ... 'PENDING'.
InsertInvestigation(t, i) ==
  [t EXCEPT !.investigations[i] = [NoRow EXCEPT !.status = "PENDING"]]

\* The CASE expressions of update_status set each timestamp at most once a
\* condition holds and never clear one.
SetStatus(t, i, s) ==
  LET r == t.investigations[i]
  IN  UpdateRow(t, i,
        [r EXCEPT !.status    = s,
                  !.started   = r.started \/ (r.status # "RUNNING" /\ s = "RUNNING"),
                  !.completed = r.completed \/ s \in Terminal])

\* update_status with risk_score and risk_level.
SetStatusAndRisk(t, i, s) ==
  LET u == SetStatus(t, i, s)
  IN  UpdateRow(u, i, [u.investigations[i] EXCEPT !.risk = TRUE])

SetPhase(t, i, p) ==
  UpdateRow(t, i, [t.investigations[i] EXCEPT !.phase = p])

SaveReasoning(t, i) ==
  UpdateRow(t, i, [t.investigations[i] EXCEPT !.reasoning = TRUE])

\* Mutant of MarkFailed: completed_at is left to update_status.
MarkFailedLeavesOpen(t, i) ==
  UpdateRow(t, i, [t.investigations[i] EXCEPT !.status = "FAILED", !.error = TRUE])

\* mark_failed without a phase: COALESCE keeps the old one.
MarkFailed(t, i) ==
  UpdateRow(t, i, [t.investigations[i] EXCEPT !.status    = "FAILED",
                                              !.completed = TRUE,
                                              !.error     = TRUE])

\* One INSERT of create_batch.
InsertEvidence(t, i) == [t EXCEPT !.evidence[i] = @ + 1]

ReportExists(t, i) == t.reports[i] # NoReport

InsertReport(t, i, count) == [t EXCEPT !.reports[i] = count]
=============================================================================
