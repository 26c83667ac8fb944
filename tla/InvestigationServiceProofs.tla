---------------------- MODULE InvestigationServiceProofs ----------------------
(***************************************************************************)
(* What the database shows of an investigation, and what the clients and   *)
(* the session registry are told, for every set of investigations and      *)
(* every bound.                                                            *)
(*                                                                         *)
(* ServiceInv is inductive whatever fails: it relates the committed tables *)
(* and the draft a commit would publish to the place of each coroutine.    *)
(* Further invariants, each built on it, need what their sections assume:  *)
(* AppInv and LockHasOwner that no statement fails half-way, EvidenceInv   *)
(* that a failing statement undoes nothing else, CalmInv that in addition  *)
(* no wait for the lock times out, and UpInv, PublishInv and ServedInv     *)
(* that the process is not shut down while tasks run.                      *)
(***************************************************************************)
EXTENDS InvestigationService, SqliteStoreProofs

(* The program of a coroutine *)

\* The repository calls on the shared and on the task's own connection.
SharedCalls == {"insert", "report", "reasoning", "saved", "savedPhase"}
OwnCalls == {"running", "init", "complete", "donePhase", "failing"}

ConnOf(i, label) == IF label \in SharedCalls THEN Shared ELSE i

\* Each call, the label after it, and the label after an exception.
Program == {<<"insert", "start", "rejected">>,     <<"insert", "rejected", "rejected">>,
            <<"running", "init", "failing">>,      <<"init", "graph", "failing">>,
            <<"report", "reasoning", "reasoning">>, <<"reasoning", "saved", "complete">>,
            <<"saved", "savedPhase", "complete">>, <<"savedPhase", "complete", "complete">>,
            <<"complete", "donePhase", "failing">>, <<"donePhase", "closeOk", "failing">>,
            <<"failing", "closeOk", "closeRaised">>}

RepoCall(i) ==
  \/ CreateRow(i) \/ MarkRunning(i) \/ MarkInit(i) \/ CreateReport(i) \/ SaveReasoningLog(i)
  \/ SaveComplete(i) \/ SaveDone(i) \/ MarkComplete(i) \/ MarkDone(i) \/ RecordFailure(i)

\* The status a call leaves in the row of its investigation.
StatusAfter(label, s) ==
  CASE label = "insert" -> "PENDING"
    [] label = "running" -> "RUNNING"
    [] label \in {"saved", "complete"} -> "COMPLETE"
    [] label = "failing" -> "FAILED"
    [] OTHER -> s

\* Where a coroutine stands before it has findings to insert.
BeforeFindings == {"idle", "insert", "start", "open", "running", "init", "graph"}

\* The statuses an investigation may have while its coroutine is at a label.
MayBe(label) ==
  CASE label = "idle" -> {"ABSENT"}
    [] label \in {"insert", "rejected"} -> {"ABSENT", "PENDING"}
    [] label \in {"start", "open"} -> {"PENDING"}
    [] label = "running" -> {"PENDING", "RUNNING"}
    [] label \in {"init", "graph", "evidence", "lookup", "report", "reasoning"} -> {"RUNNING"}
    [] label \in {"saved", "savedPhase", "complete"} -> {"RUNNING", "COMPLETE"}
    [] label = "donePhase" -> {"COMPLETE"}
    [] label = "closeOk" -> Terminal
    [] label = "lost" -> Statuses \cup {"ABSENT"}
    [] OTHER -> Statuses

-------------------------------------------------------------------------------
(* The invariant *)

\* The committed tables, and those that a commit could make so.
Live == {db} \cup {work : c \in {d \in Conn : mode[d] = "write"}}

\* Every row that is or may be committed agrees with itself and with the
\* place of its coroutine.
RowsFit ==
  \A t \in Live, i \in Inv :
    Sound(t.investigations[i]) /\ t.investigations[i].status \in MayBe(pc[i])

\* What a later row may not take back from an earlier one.
Kept(r, s) ==
  /\ r.status # "ABSENT" => s.status # "ABSENT"
  /\ r.status \in Terminal => s.status \in Terminal
  /\ r.status = "FAILED" => s.status = "FAILED"

\* No pending write takes anything back.
DraftKeeps ==
  (\E c \in Conn : mode[c] = "write") =>
    \A i \in Inv : Kept(db.investigations[i], work.investigations[i])

\* On its own connection a task finds what it wrote still pending.
OwnDraft ==
  \A i \in Inv : sent[i] /\ pc[i] \in {"running", "complete", "failing"} =>
    mode[i] = "write" /\ work.investigations[i].status = StatusAfter(pc[i], "ABSENT")

\* A task that returned left a terminal row, unless something had failed.
Returned ==
  \A i \in Inv : pc[i] = "ok" \/ sess[i] = "COMPLETE" =>
    db.investigations[i].status \in Terminal \/ faults > 0

\* Only a repository call waits for a commit.
SentInv == \A i \in Inv : sent[i] => pc[i] \in SharedCalls \cup OwnCalls \cup {"evidence"}

\* create_batch has something left to insert until it waits for its commit.
FindingsInv ==
  \A i \in Inv : /\ pc[i] \in BeforeFindings => inserted[i] = 0
                 /\ pc[i] = "evidence" /\ ~sent[i] => inserted[i] < findings[i]

StageInv == RowsFit /\ DraftKeeps /\ OwnDraft /\ Returned

ServiceInv == TypeOK /\ StoreInv /\ SentInv /\ FindingsInv /\ StageInv

-------------------------------------------------------------------------------
LEMMA InitInv == Init => ServiceInv
<1> SUFFICES ASSUME Init PROVE ServiceInv
  OBVIOUS
<1> USE ServiceAssumption, EmptyTablesType, SharedIsConn DEF Init, StoreInit
<1>1. TypeOK
  BY DEF TypeOK, StoreTypeOK, Modes, Labels, SessionStatuses, AppStages
<1>2. StoreInv /\ SentInv /\ FindingsInv
  BY DEF StoreInv, SentInv, FindingsInv
<1>3. RowsFit
  <2>1. Live = {EmptyTables}
    BY DEF Live
  <2>2. \A i \in Inv : EmptyTables.investigations[i] = NoRow
    BY DEF EmptyTables
  <2>3. Sound(NoRow) /\ NoRow.status \in MayBe("idle")
    BY DEF Sound, NoRow, MayBe, Terminal
  <2>4. QED
    BY <2>1, <2>2, <2>3 DEF RowsFit
<1>4. DraftKeeps /\ OwnDraft /\ Returned
  BY DEF DraftKeeps, OwnDraft, Returned, Kept
<1>5. QED
  BY <1>1, <1>2, <1>3, <1>4 DEF ServiceInv, StageInv

-------------------------------------------------------------------------------
(* Repository calls *)

\* What the statement of a call does to the tables t that it sees.
Works(i, label, t, new) ==
  /\ new \in Tables
  /\ new.evidence = t.evidence
  /\ \A j \in Inv \ {i} : new.investigations[j] = t.investigations[j]
  /\ label # "report" => new.reports = t.reports
  /\ label = "report" => new.reports = [t.reports EXCEPT ![i] = IF counted[i] THEN findings[i] ELSE 0]
  /\ LET r == t.investigations[i]
         n == new.investigations[i]
     IN  r.status # "ABSENT" \/ label = "insert" =>
           /\ n.status = StatusAfter(label, r.status)
           /\ Sound(r) /\ r.status \in MayBe(label) => Sound(n)

\* A statement that leaves the status and its witnesses alone.
LEMMA SameStatusWorks ==
  ASSUME NEW t \in Tables, NEW new \in Tables, NEW i \in Inv,
         NEW label \in {"init", "donePhase", "reasoning", "savedPhase"},
         OneRow(t, new, i),
         Exists(t, i) => SameStatus(t.investigations[i], new.investigations[i])
  PROVE  Works(i, label, t, new)
<1>1. StatusAfter(label, t.investigations[i].status) = t.investigations[i].status
  BY DEF StatusAfter
<1>2. QED
  BY <1>1 DEF Works, OneRow, Exists, SameStatus, Sound

LEMMA InsertWorks ==
  ASSUME NEW t \in Tables, NEW i \in Inv
  PROVE  Works(i, "insert", t, InsertInvestigation(t, i))
<1>1. StatusAfter("insert", t.investigations[i].status) = "PENDING"
  BY DEF StatusAfter
<1>2. QED
  BY <1>1, InsertInvestigationEffect DEF Works, OneRow

LEMMA SetRunningWorks ==
  ASSUME NEW t \in Tables, NEW i \in Inv
  PROVE  Works(i, "running", t, SetStatus(t, i, "RUNNING"))
<1>1. /\ StatusAfter("running", t.investigations[i].status) = "RUNNING"
      /\ MayBe("running") = {"PENDING", "RUNNING"}
  BY DEF StatusAfter, MayBe
<1> DEFINE new == SetStatus(t, i, "RUNNING")
<1>2. /\ new \in Tables
      /\ OneRow(t, new, i)
      /\ Exists(t, i) =>
           /\ new.investigations[i].status = "RUNNING"
           /\ t.investigations[i].status \in {"PENDING", "RUNNING"} /\ Sound(t.investigations[i])
                => Sound(new.investigations[i])
  BY SetStatusEffect
<1> HIDE DEF new
<1>3. Works(i, "running", t, new)
  BY <1>1, <1>2 DEF Works, OneRow, Exists
<1>4. QED
  BY <1>3 DEF new

LEMMA SetCompleteWorks ==
  ASSUME NEW t \in Tables, NEW i \in Inv, NEW label \in {"saved", "complete"}
  PROVE  Works(i, label, t, SetStatusAndRisk(t, i, "COMPLETE"))
<1>1. /\ StatusAfter(label, t.investigations[i].status) = "COMPLETE"
      /\ MayBe(label) = {"RUNNING", "COMPLETE"}
  BY DEF StatusAfter, MayBe
<1>2. QED
  BY <1>1, SetStatusAndRiskEffect DEF Works, OneRow, Exists

LEMMA MarkFailedWorks ==
  ASSUME NEW t \in Tables, NEW i \in Inv
  PROVE  Works(i, "failing", t, MarkFailed(t, i))
<1>1. StatusAfter("failing", t.investigations[i].status) = "FAILED"
  BY DEF StatusAfter
<1>2. QED
  BY <1>1, MarkFailedEffect DEF Works, OneRow, Exists

LEMMA InsertReportWorks ==
  ASSUME TypeOK, NEW t \in Tables, NEW i \in Inv, NEW n, n = IF counted[i] THEN findings[i] ELSE 0
  PROVE  LET new == InsertReport(t, i, n)
         IN  Works(i, "report", t, new) /\ new.investigations = t.investigations
<1>1. n \in Nat
  BY ServiceAssumption DEF TypeOK
<1> DEFINE new == InsertReport(t, i, n)
<1>2. /\ new \in Tables
      /\ new.investigations = t.investigations
      /\ new.evidence = t.evidence
      /\ new.reports = [t.reports EXCEPT ![i] = n]
  BY <1>1, InsertReportEffect
<1>3. StatusAfter("report", t.investigations[i].status) = t.investigations[i].status
  BY DEF StatusAfter
<1> HIDE DEF new
<1>4. Works(i, "report", t, new)
  BY <1>2, <1>3 DEF Works
<1>5. QED
  BY <1>2, <1>4 DEF new

\* Each of the ten calls is a Call of the program, with a statement that works.
RunsProgram(i, p, new) ==
  LET c == ConnOf(i, p[1])
  IN  /\ Call(i, c, p[1], new, p[2], p[3])
      /\ Works(i, p[1], View(c), new)
      /\ p[1] = "report" => new.investigations = View(c).investigations
      /\ p[1] = "insert" => (p[2] = "start" <=> Exists(Committed(Shared), i))

LEMMA RepoCallForm ==
  ASSUME TypeOK, NEW i \in Inv, RepoCall(i)
  PROVE  \E p \in Program, new \in Tables : RunsProgram(i, p, new)
<1> DEFINE s == View(Shared)
           o == View(i)
<1>1. s \in Tables /\ o \in Tables
  BY SharedIsConn, ViewType DEF TypeOK
<1>2. /\ \A label \in SharedCalls : ConnOf(i, label) = Shared
      /\ \A label \in OwnCalls : ConnOf(i, label) = i
  BY DEF ConnOf, SharedCalls, OwnCalls
<1> USE DEF RunsProgram, SharedCalls, OwnCalls
<1> HIDE DEF s, o
<1>3. CASE CreateRow(i)
  <2> DEFINE p   == IF Exists(Committed(Shared), i) THEN <<"insert", "start", "rejected">>
                    ELSE <<"insert", "rejected", "rejected">>
             new == InsertInvestigation(s, i)
  <2>1. p \in Program /\ p[1] = "insert" /\ p[3] = "rejected"
        /\ p[2] = IF Exists(Committed(Shared), i) THEN "start" ELSE "rejected"
    BY DEF Program
  <2>2. new \in Tables /\ Works(i, "insert", s, new)
    BY <1>1, InsertWorks DEF Works
  <2>3. Call(i, Shared, "insert", new, p[2], "rejected")
    BY <1>3, <2>1 DEF CreateRow, s
  <2> HIDE DEF p, new
  <2>4. RunsProgram(i, p, new)
    BY <1>2, <2>1, <2>2, <2>3 DEF s
  <2>5. QED
    BY <2>1, <2>2, <2>4
<1>4. CASE MarkRunning(i)
  <2> DEFINE new == SetStatus(o, i, "RUNNING")
  <2>1. new \in Tables /\ Works(i, "running", o, new)
    BY <1>1, SetRunningWorks DEF Works
  <2>2. Call(i, i, "running", new, "init", "failing")
    BY <1>4 DEF MarkRunning, o
  <2> HIDE DEF new
  <2>3. RunsProgram(i, <<"running", "init", "failing">>, new)
    BY <1>2, <2>1, <2>2 DEF o
  <2>4. QED
    BY <2>1, <2>3 DEF Program
<1>5. CASE MarkInit(i)
  <2> DEFINE new == SetPhase(o, i, "INIT")
  <2>1. new \in Tables /\ Works(i, "init", o, new)
    BY <1>1, SetPhaseEffect, SameStatusWorks
  <2>2. Call(i, i, "init", new, "graph", "failing")
    BY <1>5 DEF MarkInit, o
  <2> HIDE DEF new
  <2>3. RunsProgram(i, <<"init", "graph", "failing">>, new)
    BY <1>2, <2>1, <2>2 DEF o
  <2>4. QED
    BY <2>1, <2>3 DEF Program
<1>6. CASE CreateReport(i)
  <2> DEFINE new == InsertReport(s, i, IF counted[i] THEN findings[i] ELSE 0)
  <2>1. new \in Tables /\ Works(i, "report", s, new) /\ new.investigations = s.investigations
    BY <1>1, InsertReportWorks DEF Works
  <2>2. Call(i, Shared, "report", new, "reasoning", "reasoning")
    BY <1>6 DEF CreateReport, s
  <2> HIDE DEF new
  <2>3. RunsProgram(i, <<"report", "reasoning", "reasoning">>, new)
    BY <1>2, <2>1, <2>2 DEF s
  <2>4. QED
    BY <2>1, <2>3 DEF Program
<1>7. CASE SaveReasoningLog(i)
  <2> DEFINE new == SaveReasoning(s, i)
  <2>1. new \in Tables /\ Works(i, "reasoning", s, new)
    BY <1>1, SaveReasoningEffect, SameStatusWorks
  <2>2. Call(i, Shared, "reasoning", new, "saved", "complete")
    BY <1>7 DEF SaveReasoningLog, s
  <2> HIDE DEF new
  <2>3. RunsProgram(i, <<"reasoning", "saved", "complete">>, new)
    BY <1>2, <2>1, <2>2 DEF s
  <2>4. QED
    BY <2>1, <2>3 DEF Program
<1>8. CASE SaveComplete(i)
  <2> DEFINE new == SetStatusAndRisk(s, i, "COMPLETE")
  <2>1. new \in Tables /\ Works(i, "saved", s, new)
    BY <1>1, SetCompleteWorks DEF Works
  <2>2. Call(i, Shared, "saved", new, "savedPhase", "complete")
    BY <1>8 DEF SaveComplete, s
  <2> HIDE DEF new
  <2>3. RunsProgram(i, <<"saved", "savedPhase", "complete">>, new)
    BY <1>2, <2>1, <2>2 DEF s
  <2>4. QED
    BY <2>1, <2>3 DEF Program
<1>9. CASE SaveDone(i)
  <2> DEFINE new == SetPhase(s, i, "DONE")
  <2>1. new \in Tables /\ Works(i, "savedPhase", s, new)
    BY <1>1, SetPhaseEffect, SameStatusWorks
  <2>2. Call(i, Shared, "savedPhase", new, "complete", "complete")
    BY <1>9 DEF SaveDone, s
  <2> HIDE DEF new
  <2>3. RunsProgram(i, <<"savedPhase", "complete", "complete">>, new)
    BY <1>2, <2>1, <2>2 DEF s
  <2>4. QED
    BY <2>1, <2>3 DEF Program
<1>10. CASE MarkComplete(i)
  <2> DEFINE new == SetStatusAndRisk(o, i, "COMPLETE")
  <2>1. new \in Tables /\ Works(i, "complete", o, new)
    BY <1>1, SetCompleteWorks DEF Works
  <2>2. Call(i, i, "complete", new, "donePhase", "failing")
    BY <1>10 DEF MarkComplete, o
  <2> HIDE DEF new
  <2>3. RunsProgram(i, <<"complete", "donePhase", "failing">>, new)
    BY <1>2, <2>1, <2>2 DEF o
  <2>4. QED
    BY <2>1, <2>3 DEF Program
<1>11. CASE MarkDone(i)
  <2> DEFINE new == SetPhase(o, i, "DONE")
  <2>1. new \in Tables /\ Works(i, "donePhase", o, new)
    BY <1>1, SetPhaseEffect, SameStatusWorks
  <2>2. Call(i, i, "donePhase", new, "closeOk", "failing")
    BY <1>11 DEF MarkDone, o
  <2> HIDE DEF new
  <2>3. RunsProgram(i, <<"donePhase", "closeOk", "failing">>, new)
    BY <1>2, <2>1, <2>2 DEF o
  <2>4. QED
    BY <2>1, <2>3 DEF Program
<1>12. CASE RecordFailure(i)
  <2> DEFINE new == MarkFailed(o, i)
  <2>1. new \in Tables /\ Works(i, "failing", o, new)
    BY <1>1, MarkFailedWorks DEF Works
  <2>2. Call(i, i, "failing", new, "closeOk", "closeRaised")
    BY <1>12 DEF RecordFailure, o
  <2> HIDE DEF new
  <2>3. RunsProgram(i, <<"failing", "closeOk", "closeRaised">>, new)
    BY <1>2, <2>1, <2>2 DEF o
  <2>4. QED
    BY <2>1, <2>3 DEF Program
<1>13. QED
  BY <1>3, <1>4, <1>5, <1>6, <1>7, <1>8, <1>9, <1>10, <1>11, <1>12 DEF RepoCall

\* How a call may go on: a statement that succeeds, is refused or breaks, then
\* a commit that succeeds, is refused or breaks, before or after the fact.
CallKinds(i, c, new, next, handler) ==
  \/ /\ ~sent[i] /\ sent'[i] /\ pc' = pc /\ faults' = faults
     /\ Drafts(c, new) /\ Write(c, new)
  \/ /\ ~sent[i] /\ ~sent'[i] /\ pc' = [pc EXCEPT ![i] = handler] /\ faults' = faults
     /\ Rests /\ WriteRefused(c)
  \/ /\ ~sent[i] /\ ~sent'[i] /\ pc' = [pc EXCEPT ![i] = handler] /\ Fault
     /\ Rests \/ Drafts(c, Committed(c))
     /\ WriteBreaks(c)
  \/ /\ sent[i] /\ ~sent'[i] /\ pc' = [pc EXCEPT ![i] = next] /\ faults' = faults
     /\ IF mode[c] = "write" THEN Publishes(c) ELSE Rests
     /\ Commit(c)
  \/ /\ sent[i] /\ ~sent'[i] /\ pc' = [pc EXCEPT ![i] = handler] /\ faults' = faults
     /\ Rests /\ CommitRefused(c)
  \/ /\ sent[i] /\ ~sent'[i] /\ pc' = [pc EXCEPT ![i] = handler] /\ Fault
     /\ Rests \/ Publishes(c)
     /\ CommitBreaks(c) \/ Commit(c)

\* A connection whose mode changes only with the steps of its owner.
OthersKeepTheirs(c) == \A j \in Inv : j # c => mode'[j] = mode[j]

LEMMA StoreStepFacts ==
  ASSUME StoreTypeOK, StoreInv, NEW c \in Conn, NEW new \in Tables, StoreStep(c, new)
  PROVE  /\ StoreTypeOK' /\ StoreInv'
         /\ OthersKeepTheirs(c)
         /\ Rests \/ (Drafts(c, new) /\ Write(c, new)) \/ Drafts(c, Committed(c)) \/ Publishes(c)
<1>1. /\ StoreTypeOK' /\ StoreInv'
      /\ \A d \in Conn \ {c} : mode'[d] = mode[d] \/ (mode[d] = "read" /\ mode'[d] = "stale")
      /\ Rests \/ (Drafts(c, new) /\ Write(c, new)) \/ Drafts(c, Committed(c)) \/ Publishes(c)
  BY StoreStepType, StoreStepKind
<1>2. OthersKeepTheirs(c)
  BY <1>1, SharedIsConn DEF OthersKeepTheirs, StoreInv
<1>3. QED
  BY <1>1, <1>2

LEMMA WriteKind ==
  ASSUME StoreTypeOK, StoreInv, NEW c \in Conn, NEW new \in Tables, Write(c, new)
  PROVE  Drafts(c, new)
  BY SharedIsConn DEF Write, Drafts, LockFree, StoreTypeOK

LEMMA WriteBreaksKind ==
  ASSUME StoreTypeOK, StoreInv, NEW c \in Conn, WriteBreaks(c)
  PROVE  Rests \/ Drafts(c, Committed(c))
<1>1. View(c) = Committed(c)
  BY FreshView DEF WriteBreaks
<1>2. QED
  BY <1>1 DEF WriteBreaks, Rests, Drafts, LockFree, StoreTypeOK, DropWork

LEMMA CommitKind ==
  ASSUME StoreTypeOK, StoreInv, NEW c \in Conn, Commit(c)
  PROVE  IF mode[c] = "write" THEN Publishes(c) ELSE Rests
  BY DEF Commit, Committed, DropWork, Rests, Publishes, StoreInv

LEMMA CommitBreaksKind ==
  ASSUME StoreTypeOK, StoreInv, NEW c \in Conn, CommitBreaks(c) \/ CommitRefused(c) \/ WriteRefused(c)
  PROVE  Rests
<1>1. CASE CommitBreaks(c)
  BY <1>1 DEF CommitBreaks, DropWork, Rests, StoreInv, storeVars, StoreTypeOK
<1>2. CASE CommitRefused(c)
  BY <1>2 DEF CommitRefused, Rests, storeVars
<1>3. CASE WriteRefused(c)
  BY <1>3 DEF WriteRefused, Rests, StoreTypeOK
<1>4. QED
  BY <1>1, <1>2, <1>3

LEMMA CallForm ==
  ASSUME TypeOK, StoreInv, NEW i \in Inv, NEW c \in Conn, NEW label, NEW new \in Tables,
         NEW next, NEW handler, Call(i, c, label, new, next, handler)
  PROVE  /\ StoreTypeOK' /\ StoreInv'
         /\ OthersKeepTheirs(c)
         /\ pc[i] = label /\ ~cancel[i] /\ app # "down"
         /\ UNCHANGED <<resultVars, sess, cancel, app, stops, clientVars>>
         /\ \A j \in Inv \ {i} : sent'[j] = sent[j]
         /\ sent' \in [Inv -> BOOLEAN]
         /\ CallKinds(i, c, new, next, handler)
<1>1. StoreTypeOK /\ sent \in [Inv -> BOOLEAN]
  BY DEF TypeOK
<1>2. StoreStep(c, new)
  BY DEF Call, Execute, CommitAndGet, StoreStep
<1>3. StoreTypeOK' /\ StoreInv' /\ OthersKeepTheirs(c)
  BY <1>1, <1>2, StoreStepFacts
<1>4. /\ pc[i] = label /\ ~cancel[i] /\ app # "down"
      /\ UNCHANGED <<resultVars, sess, cancel, app, stops, clientVars>>
  BY DEF Call, Runs
<1>5. /\ \A j \in Inv \ {i} : sent'[j] = sent[j]
      /\ sent' \in [Inv -> BOOLEAN]
  BY <1>1 DEF Call, Execute, CommitAndGet
<1>6. ASSUME Execute(i, c, new, handler) PROVE CallKinds(i, c, new, next, handler)
  <2>1. CASE Write(c, new) /\ sent' = [sent EXCEPT ![i] = TRUE] /\ UNCHANGED <<pc, faults>>
    <3>1. Drafts(c, new)
      BY <1>1, <2>1, WriteKind
    <3>2. ~sent[i] /\ sent'[i] /\ pc' = pc /\ faults' = faults
      BY <1>1, <1>6, <2>1 DEF Execute
    <3>3. QED
      BY <2>1, <3>1, <3>2, Zenon DEF CallKinds
  <2>2. CASE WriteRefused(c) /\ Goto(i, handler) /\ UNCHANGED <<sent, faults>>
    <3>1. Rests
      BY <1>1, <2>2, CommitBreaksKind
    <3>2. ~sent[i] /\ ~sent'[i] /\ pc' = [pc EXCEPT ![i] = handler] /\ faults' = faults
      BY <1>1, <1>6, <2>2 DEF Execute, Goto
    <3>3. QED
      BY <2>2, <3>1, <3>2, Zenon DEF CallKinds
  <2>3. CASE Fault /\ WriteBreaks(c) /\ Goto(i, handler) /\ UNCHANGED sent
    <3>1. Rests \/ Drafts(c, Committed(c))
      BY <1>1, <2>3, WriteBreaksKind
    <3>2. ~sent[i] /\ ~sent'[i] /\ pc' = [pc EXCEPT ![i] = handler]
      BY <1>1, <1>6, <2>3 DEF Execute, Goto
    <3>3. QED
      BY <2>3, <3>1, <3>2, Zenon DEF CallKinds
  <2>4. QED
    BY <1>6, <2>1, <2>2, <2>3, Zenon DEF Execute
<1>7. ASSUME CommitAndGet(i, c, next, handler) PROVE CallKinds(i, c, new, next, handler)
  <2>0. sent[i] /\ ~sent'[i]
    BY <1>1, <1>7 DEF CommitAndGet
  <2>1. CASE Commit(c) /\ Goto(i, next) /\ UNCHANGED faults
    <3>1. IF mode[c] = "write" THEN Publishes(c) ELSE Rests
      BY <1>1, <2>1, CommitKind
    <3>2. pc' = [pc EXCEPT ![i] = next] /\ faults' = faults
      BY <2>1 DEF Goto
    <3>3. QED
      BY <2>0, <2>1, <3>1, <3>2, Zenon DEF CallKinds
  <2>2. CASE CommitRefused(c) /\ Goto(i, handler) /\ UNCHANGED faults
    <3>1. Rests
      BY <1>1, <2>2, CommitBreaksKind
    <3>2. pc' = [pc EXCEPT ![i] = handler] /\ faults' = faults
      BY <2>2 DEF Goto
    <3>3. QED
      BY <2>0, <2>2, <3>1, <3>2, Zenon DEF CallKinds
  <2>3. CASE Fault /\ (CommitBreaks(c) \/ Commit(c)) /\ Goto(i, handler)
    <3>1. Rests \/ Publishes(c)
      BY <1>1, <2>3, CommitKind, CommitBreaksKind
    <3>2. pc' = [pc EXCEPT ![i] = handler]
      BY <2>3 DEF Goto
    <3>3. QED
      BY <2>0, <2>3, <3>1, <3>2, Zenon DEF CallKinds
  <2>4. QED
    BY <1>7, <2>1, <2>2, <2>3, Zenon DEF CommitAndGet
<1>8. QED
  BY <1>3, <1>4, <1>5, <1>6, <1>7 DEF Call

-------------------------------------------------------------------------------
(* Rows and drafts *)

LEMMA LiveStays ==
  ASSUME NEW c \in Conn, Rests \/ Publishes(c) \/ Drafts(c, Committed(c))
  PROVE  Live' \subseteq Live
  BY DEF Live, Rests, Publishes, Drafts, Committed

LEMMA LiveDraft ==
  ASSUME NEW c \in Conn, NEW new, Drafts(c, new)
  PROVE  Live' \subseteq Live \cup {new}
  BY DEF Live, Drafts

LEMMA CommittedIsLive == ASSUME NEW c \in Conn PROVE Committed(c) \in Live
  BY DEF Live, Committed

LEMMA LiveType == ASSUME StoreTypeOK, NEW t \in Live, NEW i \in Inv
                  PROVE  t \in Tables /\ t.investigations[i] \in Row
  BY RowAt DEF Live, StoreTypeOK

\* The program goes on, and fails, to labels that allow what it may have written.
LEMMA ProgramStages ==
  ASSUME NEW p \in Program
  PROVE  /\ p[1] \in SharedCalls \cup OwnCalls
         /\ {p[1], p[2], p[3]} \subseteq Labels \ {"evidence", "ok"}
         /\ MayBe(p[1]) \subseteq MayBe(p[3])
         /\ p[1] \notin {"insert", "running", "complete", "failing"} => MayBe(p[1]) \subseteq MayBe(p[2])
         /\ p[2] \in BeforeFindings => p[1] \in BeforeFindings
         /\ p[3] \in BeforeFindings => p[1] \in BeforeFindings
  BY DEF Program, SharedCalls, OwnCalls, Labels, HandlerAt, TaskAt, ClosingAt, Ended, MayBe,
         BeforeFindings, Statuses, Terminal

LEMMA KeptTransitive ==
  ASSUME NEW r, NEW s, NEW t, Kept(r, s), Kept(s, t) PROVE Kept(r, t)
  BY DEF Kept

\* A statement takes nothing back from the row it finds.
LEMMA StatusAfterKeeps ==
  ASSUME NEW r, NEW n, NEW label \in SharedCalls \cup OwnCalls,
         r.status \in MayBe(label), n.status = StatusAfter(label, r.status)
  PROVE  Kept(r, n) /\ n.status \in MayBe(label)
  BY DEF Kept, MayBe, StatusAfter, SharedCalls, OwnCalls, Statuses, Terminal

LEMMA DraftKeepsView ==
  ASSUME ServiceInv, NEW c \in Conn, NEW i \in Inv
  PROVE  Kept(db.investigations[i], Committed(c).investigations[i])
  BY DEF Kept, ServiceInv, StageInv, DraftKeeps, Committed

\* A step of one coroutine that writes no row, or commits what it wrote: it
\* may go to any label that allows every status its row may then have.
LEMMA StepKeepsStages ==
  ASSUME ServiceInv, NEW i \in Inv, NEW c \in {i, Shared}, NEW label,
         pc' = [pc EXCEPT ![i] = label],
         \/ Rests
         \/ Publishes(c)
         \/ \E u \in Tables : Drafts(c, u) /\ u.investigations = Committed(c).investigations,
         \A j \in Inv \ {i} : sent'[j] = sent[j] /\ mode'[j] = mode[j],
         ~sent'[i] \/ label \notin {"running", "complete", "failing"},
         \/ \A t \in Live : t.investigations[i].status \in MayBe(label)
         \/ Publishes(c) /\ work.investigations[i].status \in MayBe(label),
         label = "ok" => db'.investigations[i].status \in Terminal \/ faults' > 0,
         \A j \in Inv : sess'[j] = "COMPLETE" => sess[j] = "COMPLETE",
         faults' \in Nat, faults' >= faults
  PROVE  StageInv'
<1>1. /\ pc \in [Inv -> Labels] /\ faults \in Nat
      /\ c \in Conn /\ Inv \subseteq Conn /\ Shared \notin Inv
      /\ \A d, e \in Conn : mode[d] = "write" /\ mode[e] = "write" => d = e
  BY SharedIsConn, ServiceAssumption DEF ServiceInv, TypeOK, StoreInv
<1>2. /\ pc'[i] = label
      /\ \A j \in Inv \ {i} : pc'[j] = pc[j]
  BY <1>1
<1>3. \A t \in Live' : \E u \in Live : t.investigations = u.investigations
  <2>1. CASE Rests \/ Publishes(c)
    BY <1>1, <2>1, LiveStays
  <2>2. CASE \E u \in Tables : Drafts(c, u) /\ u.investigations = Committed(c).investigations
    BY <1>1, <2>2, LiveDraft, CommittedIsLive
  <2>3. QED
    BY <2>1, <2>2
<1>4. RowsFit'
  <2>1. \A t \in Live, j \in Inv \ {i} :
           Sound(t.investigations[j]) /\ t.investigations[j].status \in MayBe(pc'[j])
    BY <1>2 DEF ServiceInv, StageInv, RowsFit
  <2>2. \A t \in Live : Sound(t.investigations[i])
    BY DEF ServiceInv, StageInv, RowsFit
  <2>3. \A t \in Live' : t.investigations[i].status \in MayBe(pc'[i])
    <3>1. CASE \A t \in Live : t.investigations[i].status \in MayBe(label)
      BY <1>2, <1>3, <3>1
    <3>2. CASE Publishes(c) /\ work.investigations[i].status \in MayBe(label)
      BY <1>2, <3>2 DEF Publishes, Live
    <3>3. QED
      BY <3>1, <3>2
  <2>4. \A t \in Live', j \in Inv :
           Sound(t.investigations[j]) /\ t.investigations[j].status \in MayBe(pc'[j])
    BY <1>3, <2>1, <2>2, <2>3
  <2>5. QED
    BY <2>4 DEF RowsFit
<1>5. DraftKeeps'
  <2>1. CASE Rests
    BY <2>1 DEF Rests, ServiceInv, StageInv, DraftKeeps
  <2>2. CASE Publishes(c)
    BY <2>2 DEF Publishes, DraftKeeps
  <2>3. ASSUME NEW u \in Tables, Drafts(c, u), u.investigations = Committed(c).investigations
        PROVE  DraftKeeps'
    <3>1. \A j \in Inv : Kept(db.investigations[j], u.investigations[j])
      BY <1>1, <2>3, DraftKeepsView
    <3>2. QED
      BY <2>3, <3>1 DEF Drafts, DraftKeeps
  <2>4. QED
    BY <2>1, <2>2, <2>3
<1>6. OwnDraft'
  <2> DEFINE OwnLabels == {"running", "complete", "failing"}
  <2>1. ~(sent'[i] /\ pc'[i] \in OwnLabels)
    BY <1>2
  <2>2. ASSUME NEW j \in Inv \ {i}, sent'[j], pc'[j] \in OwnLabels
        PROVE  mode'[j] = "write" /\ work'.investigations[j].status = StatusAfter(pc'[j], "ABSENT")
    <3>1. /\ mode[j] = "write" /\ work.investigations[j].status = StatusAfter(pc[j], "ABSENT")
          /\ pc'[j] = pc[j]
      BY <1>2, <2>2 DEF ServiceInv, StageInv, OwnDraft
    <3>2. mode'[j] = "write"
      BY <3>1
    <3>3. j # c /\ j \in Conn
      BY <1>1
    <3>4. Rests
      BY <1>1, <3>1, <3>2, <3>3 DEF Publishes, Drafts
    <3>5. work' = work
      BY <3>2, <3>3, <3>4 DEF Rests
    <3>6. QED
      BY <3>1, <3>2, <3>5
  <2>3. QED
    BY <2>1, <2>2 DEF OwnDraft
<1>7. Returned'
  <2>1. \A j \in Inv : db'.investigations[j].status \in Terminal \/
                       db.investigations[j].status \notin Terminal
    <3>1. db' = db \/ Publishes(c)
      BY DEF Rests, Drafts
    <3>2. QED
      BY <1>1, <3>1 DEF Publishes, ServiceInv, StageInv, DraftKeeps, Kept
  <2>2. \A j \in Inv : pc[j] = "ok" \/ sess[j] = "COMPLETE" =>
                         db'.investigations[j].status \in Terminal \/ faults' > 0
    BY <1>1, <2>1 DEF ServiceInv, StageInv, Returned
  <2>3. QED
    BY <1>2, <2>2 DEF Returned
<1>8. QED
  BY <1>4, <1>5, <1>6, <1>7 DEF StageInv

LEMMA StepKeepsRest ==
  ASSUME ServiceInv, NEW i \in Inv, NEW label \in Labels \ {"evidence"},
         pc' = [pc EXCEPT ![i] = label],
         sent'[i] => label \in SharedCalls \cup OwnCalls,
         \A j \in Inv \ {i} : sent'[j] = sent[j],
         label \in BeforeFindings => pc[i] \in BeforeFindings,
         UNCHANGED <<findings, inserted>>
  PROVE  SentInv' /\ FindingsInv'
<1>1. /\ pc'[i] = label
      /\ \A j \in Inv \ {i} : pc'[j] = pc[j]
  BY DEF ServiceInv, TypeOK
<1>2. SentInv'
  BY <1>1 DEF ServiceInv, SentInv
<1>3. FindingsInv'
  BY <1>1 DEF ServiceInv, FindingsInv
<1>4. QED
  BY <1>2, <1>3

\* A call keeps the invariant, whichever way its statement and commit go.
LEMMA CallKeepsInv == ASSUME ServiceInv, NEW i \in Inv, RepoCall(i) PROVE ServiceInv'
<1>1. TypeOK /\ StoreInv /\ StoreTypeOK /\ pc \in [Inv -> Labels]
  BY DEF ServiceInv, TypeOK
<1>2. PICK p \in Program, new \in Tables : RunsProgram(i, p, new)
  BY <1>1, RepoCallForm
<1> DEFINE c       == ConnOf(i, p[1])
           label   == p[1]
           next    == p[2]
           handler == p[3]
<1>3. c \in {i, Shared} /\ c \in Conn
  BY SharedIsConn DEF ConnOf
<1>4. /\ Call(i, c, label, new, next, handler)
      /\ Works(i, label, View(c), new)
      /\ label = "insert" => (next = "start" <=> Exists(Committed(Shared), i)) /\ c = Shared
  BY <1>2 DEF RunsProgram, ConnOf, SharedCalls
<1>5. /\ label \in SharedCalls \cup OwnCalls
      /\ {label, next, handler} \subseteq Labels \ {"evidence", "ok"}
      /\ MayBe(label) \subseteq MayBe(handler)
      /\ label \notin {"insert", "running", "complete", "failing"} => MayBe(label) \subseteq MayBe(next)
      /\ next \in BeforeFindings => label \in BeforeFindings
      /\ handler \in BeforeFindings => label \in BeforeFindings
      /\ label = "insert" => next \in {"start", "rejected"}
      /\ label = "running" => next = "init"
      /\ label = "complete" => next = "donePhase"
      /\ label = "failing" => next = "closeOk"
      /\ label \in {"running", "complete", "failing"} => c = i
  BY ProgramStages DEF Program, ConnOf, SharedCalls
<1> HIDE DEF c, label, next, handler
<1>6. /\ StoreTypeOK' /\ StoreInv'
      /\ OthersKeepTheirs(c)
      /\ pc[i] = label /\ ~cancel[i] /\ app # "down"
      /\ UNCHANGED <<resultVars, sess, cancel, app, stops, clientVars>>
      /\ \A j \in Inv \ {i} : sent'[j] = sent[j]
      /\ sent' \in [Inv -> BOOLEAN]
      /\ CallKinds(i, c, new, next, handler)
  BY <1>1, <1>3, <1>4, CallForm
<1>7. \A j \in Inv \ {i} : mode'[j] = mode[j]
  BY <1>3, <1>6, SharedIsConn DEF OthersKeepTheirs
<1>8. /\ faults' \in 0..MaxFaults /\ faults' \in Nat /\ faults' >= faults
      /\ pc' \in [Inv -> Labels]
  BY <1>1, <1>5, <1>6, ServiceAssumption DEF CallKinds, Fault, TypeOK
<1>9. TypeOK'
  BY <1>1, <1>6, <1>8 DEF TypeOK, resultVars, clientVars
<1>10. /\ sess' = sess
       /\ UNCHANGED <<findings, inserted>>
  BY <1>6 DEF resultVars
<1>11. \A t \in Live : t.investigations[i].status \in MayBe(label)
  BY <1>6 DEF ServiceInv, StageInv, RowsFit
<1>12. label \notin {"evidence", "ok"} /\ handler \notin {"evidence", "ok"} /\ next \notin {"evidence", "ok"}
  BY <1>5
<1>13. ASSUME ~sent'[i], pc' = [pc EXCEPT ![i] = handler],
              Rests \/ Publishes(c) \/ Drafts(c, Committed(c))
       PROVE  ServiceInv'
  <2>1. Committed(c) \in Tables
    BY <1>1 DEF StoreTypeOK, Committed
  <2>2. \A t \in Live : t.investigations[i].status \in MayBe(handler)
    BY <1>5, <1>11
  <2>3. StageInv'
    BY <1>3, <1>6, <1>7, <1>8, <1>10, <1>12, <1>13, <2>1, <2>2, StepKeepsStages
  <2>4. SentInv' /\ FindingsInv'
    BY <1>5, <1>6, <1>10, <1>12, <1>13, StepKeepsRest
  <2>5. QED
    BY <1>6, <1>9, <2>3, <2>4 DEF ServiceInv

<1>14. ASSUME sent[i], ~sent'[i], pc' = [pc EXCEPT ![i] = next],
              IF mode[c] = "write" THEN Publishes(c) ELSE Rests
       PROVE  ServiceInv'
  <2>1. \/ \A t \in Live : t.investigations[i].status \in MayBe(next)
        \/ Publishes(c) /\ work.investigations[i].status \in MayBe(next)
    <3>1. CASE label = "insert" /\ next = "start"
      <4>1. Exists(Committed(c), i) /\ MayBe("start") = {"PENDING"}
            /\ MayBe("insert") = {"ABSENT", "PENDING"}
        BY <1>4, <3>1 DEF MayBe
      <4>2. CASE mode[c] = "write"
        <5>1. work \in Live
          BY <1>3, <4>2 DEF Live
        <5>2. QED
          BY <1>11, <1>14, <3>1, <4>1, <4>2, <5>1 DEF Committed, Exists
      <4>3. CASE mode[c] # "write"
        <5>1. \A t \in Live : Kept(db.investigations[i], t.investigations[i])
          BY DEF Live, Kept, ServiceInv, StageInv, DraftKeeps
        <5>2. QED
          BY <1>11, <3>1, <4>1, <4>3, <5>1 DEF Committed, Exists, Kept
      <4>4. QED
        BY <4>2, <4>3
    <3>2. CASE label = "insert" /\ next = "rejected"
      BY <1>11, <3>2 DEF MayBe
    <3>3. CASE label \in {"running", "complete", "failing"}
      <4>1. c = i /\ mode[i] = "write" /\ work.investigations[i].status = StatusAfter(label, "ABSENT")
        BY <1>5, <1>6, <1>14, <3>3 DEF ServiceInv, StageInv, OwnDraft
      <4>2. StatusAfter(label, "ABSENT") \in MayBe(next)
        BY <1>5, <3>3 DEF StatusAfter, MayBe, Terminal
      <4>3. QED
        BY <1>14, <4>1, <4>2
    <3>4. CASE label \notin {"insert", "running", "complete", "failing"}
      BY <1>5, <1>11, <3>4
    <3>5. QED
      BY <1>5, <3>1, <3>2, <3>3, <3>4
  <2>2. StageInv'
    BY <1>3, <1>6, <1>7, <1>8, <1>10, <1>12, <1>14, <2>1, StepKeepsStages
  <2>3. SentInv' /\ FindingsInv'
    BY <1>5, <1>6, <1>10, <1>12, <1>14, StepKeepsRest
  <2>4. QED
    BY <1>6, <1>9, <2>2, <2>3 DEF ServiceInv
<1>15. ASSUME ~sent[i], sent'[i], pc' = pc, Drafts(c, new), Write(c, new)
       PROVE  ServiceInv'
  <2> DEFINE r == View(c).investigations[i]
  <2>1. View(c) = Committed(c) /\ View(c) \in Live
    BY <1>1, <1>3, <1>15, FreshView, CommittedIsLive DEF Write
  <2>2. /\ r.status \in MayBe(label)
        /\ Sound(r)
        /\ r.status # "ABSENT" \/ label = "insert"
    <3>1. r.status \in MayBe(label) /\ Sound(r)
      BY <1>6, <2>1 DEF ServiceInv, StageInv, RowsFit
    <3>2. label # "insert" => "ABSENT" \notin MayBe(label)
      BY <1>5 DEF MayBe, SharedCalls, OwnCalls, Terminal, Statuses
    <3>3. QED
      BY <3>1, <3>2
  <2>3. /\ new.investigations[i].status = StatusAfter(label, r.status)
        /\ Sound(new.investigations[i])
        /\ \A j \in Inv \ {i} : new.investigations[j] = View(c).investigations[j]
    BY <1>4, <2>2 DEF Works
  <2>4. Kept(r, new.investigations[i]) /\ new.investigations[i].status \in MayBe(label)
    BY <1>5, <2>2, <2>3, StatusAfterKeeps
  <2> HIDE DEF r
  <2>5. RowsFit'
    <3>1. \A t \in Live \cup {new}, j \in Inv :
            Sound(t.investigations[j]) /\ t.investigations[j].status \in MayBe(pc[j])
      BY <1>6, <2>1, <2>3, <2>4 DEF ServiceInv, StageInv, RowsFit
    <3>2. Live' \subseteq Live \cup {new}
      BY <1>3, <1>15, LiveDraft
    <3>3. QED
      BY <1>15, <3>1, <3>2 DEF RowsFit
  <2>6. DraftKeeps'
    <3>1. \A j \in Inv : Kept(db.investigations[j], View(c).investigations[j])
      BY <1>3, <2>1, DraftKeepsView
    <3>2. \A j \in Inv : Kept(db.investigations[j], new.investigations[j])
      BY <2>3, <2>4, <3>1, KeptTransitive DEF r
    <3>3. QED
      BY <1>15, <3>2 DEF Drafts, DraftKeeps
  <2>7. OwnDraft'
    <3> DEFINE OwnLabels == {"running", "complete", "failing"}
    <3>1. ASSUME pc'[i] \in OwnLabels
          PROVE  mode'[i] = "write" /\ work'.investigations[i].status = StatusAfter(pc'[i], "ABSENT")
      <4>1. c = i /\ label \in OwnLabels /\ pc'[i] = label
        BY <1>5, <1>6, <1>15, <3>1
      <4>2. mode'[i] = "write" /\ work' = new
        BY <1>3, <1>15, <4>1 DEF Drafts
      <4>3. StatusAfter(label, r.status) = StatusAfter(label, "ABSENT")
        BY <4>1 DEF StatusAfter
      <4>4. QED
        BY <2>3, <4>1, <4>2, <4>3 DEF r
    <3>2. ASSUME NEW j \in Inv \ {i} PROVE ~(sent'[j] /\ pc'[j] \in OwnLabels)
      <4>1. mode[j] # "write"
        BY <1>3, <1>15, SharedIsConn DEF Drafts, LockFree
      <4>2. sent'[j] = sent[j] /\ pc'[j] = pc[j]
        BY <1>6, <1>15
      <4>3. QED
        BY <4>1, <4>2 DEF ServiceInv, StageInv, OwnDraft
    <3>3. QED
      BY <3>1, <3>2 DEF OwnDraft
  <2>8. Returned'
    <3>1. db' = db
      BY <1>15 DEF Drafts
    <3>2. faults \in Nat
      BY <1>1, ServiceAssumption DEF TypeOK
    <3>3. QED
      BY <1>8, <1>10, <1>15, <3>1, <3>2 DEF ServiceInv, StageInv, Returned
  <2>9. SentInv'
    <3>1. \A j \in Inv : sent'[j] => pc'[j] \in SharedCalls \cup OwnCalls \cup {"evidence"}
      BY <1>5, <1>6, <1>15 DEF ServiceInv, SentInv
    <3>2. QED
      BY <3>1 DEF SentInv
  <2>10. FindingsInv'
    <3>1. pc'[i] # "evidence"
      BY <1>6, <1>12, <1>15
    <3>2. QED
      BY <1>6, <1>10, <1>15, <3>1 DEF ServiceInv, FindingsInv
  <2>11. QED
    BY <1>6, <1>9, <2>5, <2>6, <2>7, <2>8, <2>9, <2>10 DEF ServiceInv, StageInv
<1>16. QED
  BY <1>6, <1>13, <1>14, <1>15 DEF CallKinds

-------------------------------------------------------------------------------
(* The other steps of a coroutine *)

\* A step of the store without a statement or a commit.
LEMMA QuietStoreStep ==
  ASSUME StoreTypeOK, StoreInv, NEW c \in Conn,
         Open(c) \/ Close(c) \/ (c = Shared /\ ReadShared) \/ UNCHANGED storeVars
  PROVE  StoreTypeOK' /\ StoreInv' /\ Rests /\ OthersKeepTheirs(c)
<1>1. CASE UNCHANGED storeVars
  BY <1>1 DEF storeVars, StoreTypeOK, StoreInv, Rests, OthersKeepTheirs
<1>2. CASE Open(c) \/ Close(c) \/ (c = Shared /\ ReadShared)
  <2>1. View(c) \in Tables /\ StoreStep(c, View(c))
    BY <1>2, ViewType DEF StoreStep
  <2>2. StoreTypeOK' /\ StoreInv' /\ OthersKeepTheirs(c)
    BY <2>1, StoreStepFacts
  <2>3. Rests
    BY <1>2, SharedIsConn DEF Open, Close, ReadShared, DropWork, Rests, StoreTypeOK, StoreInv
  <2>4. QED
    BY <2>2, <2>3
<1>3. QED
  BY <1>1, <1>2

\* A step that takes the coroutine of i to a label that claims nothing new.
LEMMA StepKeepsInv ==
  ASSUME ServiceInv, NEW i \in Inv, NEW c \in {i, Shared}, NEW label \in Labels \ {"evidence"},
         TypeOK', StoreInv', OthersKeepTheirs(c),
         Rests \/ Publishes(c) \/ Drafts(c, Committed(c)),
         pc' = [pc EXCEPT ![i] = label],
         ~sent'[i], \A j \in Inv \ {i} : sent'[j] = sent[j],
         MayBe(pc[i]) \subseteq MayBe(label),
         label = "ok" => pc[i] = "closeOk" \/ faults' > 0,
         label \in BeforeFindings => pc[i] \in BeforeFindings,
         \A j \in Inv : sess'[j] = "COMPLETE" => sess[j] = "COMPLETE",
         UNCHANGED <<findings, inserted>>, faults' >= faults
  PROVE  ServiceInv'
<1>1. \A t \in Live : t.investigations[i].status \in MayBe(pc[i])
  BY DEF ServiceInv, StageInv, RowsFit
<1>2. \A t \in Live : t.investigations[i].status \in MayBe(label)
  BY <1>1
<1>3. label = "ok" => db'.investigations[i].status \in Terminal \/ faults' > 0
  <2>1. db' \in Live
    BY LiveStays, SharedIsConn DEF Live
  <2>2. pc[i] = "closeOk" => db'.investigations[i].status \in Terminal
    BY <1>1, <2>1 DEF MayBe
  <2>3. QED
    BY <2>2
<1>4. \A j \in Inv \ {i} : mode'[j] = mode[j]
  BY SharedIsConn DEF OthersKeepTheirs
<1>5. faults' \in Nat
  BY ServiceAssumption DEF TypeOK
<1>6. StageInv'
  <2>1. Committed(c) \in Tables
    BY DEF ServiceInv, TypeOK, StoreTypeOK, Committed
  <2>2. QED
    BY <1>2, <1>3, <1>4, <1>5, <2>1, StepKeepsStages
<1>7. SentInv' /\ FindingsInv'
  BY StepKeepsRest
<1>8. QED
  BY <1>6, <1>7 DEF ServiceInv

LEMMA NotSent ==
  ASSUME ServiceInv, NEW i \in Inv, pc[i] \notin SharedCalls \cup OwnCalls \cup {"evidence"}
  PROVE  ~sent[i]
  BY DEF ServiceInv, SentInv

LEMMA ReceiveKeeps == ASSUME ServiceInv, NEW i \in Inv, Receive(i) PROVE ServiceInv'
<1> USE DEF Receive, Goto
<1>1. StoreTypeOK /\ StoreInv
  BY DEF ServiceInv, TypeOK
<1>2. StoreTypeOK' /\ StoreInv' /\ Rests /\ OthersKeepTheirs(i)
  BY <1>1, SharedIsConn, QuietStoreStep
<1>3. TypeOK'
  BY <1>2 DEF ServiceInv, TypeOK, Labels, HandlerAt, resultVars, clientVars
<1>4. /\ pc[i] \in BeforeFindings /\ "insert" \in Labels \ {"evidence"}
      /\ MayBe(pc[i]) \subseteq MayBe("insert")
  BY DEF BeforeFindings, Labels, HandlerAt, MayBe
<1>5. ~sent[i]
  BY NotSent DEF SharedCalls, OwnCalls
<1>6. faults' >= faults
  BY ServiceAssumption DEF ServiceInv, TypeOK
<1>7. QED
  BY <1>2, <1>3, <1>4, <1>5, <1>6, StepKeepsInv DEF resultVars

LEMMA StartSessionKeeps == ASSUME ServiceInv, NEW i \in Inv, StartSession(i) PROVE ServiceInv'
<1> USE DEF StartSession, Goto, Runs
<1>1. StoreTypeOK /\ StoreInv
  BY DEF ServiceInv, TypeOK
<1>2. StoreTypeOK' /\ StoreInv' /\ Rests /\ OthersKeepTheirs(i)
  BY <1>1, SharedIsConn, QuietStoreStep
<1>3. TypeOK'
  BY <1>2 DEF ServiceInv, TypeOK, Labels, TaskAt, SessionStatuses, resultVars, clientVars
<1>4. /\ pc[i] \in BeforeFindings /\ "open" \in Labels \ {"evidence"}
      /\ MayBe(pc[i]) \subseteq MayBe("open")
  BY DEF BeforeFindings, Labels, TaskAt, MayBe
<1>5. ~sent[i]
  BY NotSent DEF SharedCalls, OwnCalls
<1>6. faults' >= faults /\ \A j \in Inv : sess'[j] = "COMPLETE" => sess[j] = "COMPLETE"
  BY ServiceAssumption DEF ServiceInv, TypeOK
<1>7. QED
  BY <1>2, <1>3, <1>4, <1>5, <1>6, StepKeepsInv DEF resultVars

LEMMA OpenConnectionKeeps == ASSUME ServiceInv, NEW i \in Inv, OpenConnection(i) PROVE ServiceInv'
<1> USE DEF OpenConnection, Goto, Runs
<1>1. StoreTypeOK /\ StoreInv
  BY DEF ServiceInv, TypeOK
<1>2. StoreTypeOK' /\ StoreInv' /\ Rests /\ OthersKeepTheirs(i)
  BY <1>1, SharedIsConn, QuietStoreStep
<1>3. /\ faults' \in 0..MaxFaults /\ faults' >= faults
  BY ServiceAssumption DEF Fault, ServiceInv, TypeOK
<1>4. PICK label \in {"running", "ok"} :
         /\ pc' = [pc EXCEPT ![i] = label]
         /\ label = "ok" => faults' > 0
  BY ServiceAssumption DEF Fault, ServiceInv, TypeOK
<1>5. /\ label \in Labels \ {"evidence"}
      /\ pc[i] \in BeforeFindings
      /\ MayBe(pc[i]) \subseteq MayBe(label)
  BY DEF Labels, TaskAt, Ended, BeforeFindings, MayBe, Statuses
<1>6. TypeOK'
  BY <1>2, <1>3, <1>4, <1>5 DEF ServiceInv, TypeOK, resultVars, clientVars
<1>7. ~sent[i]
  BY NotSent DEF SharedCalls, OwnCalls
<1>8. QED
  BY <1>2, <1>3, <1>4, <1>5, <1>6, <1>7, StepKeepsInv DEF resultVars

LEMMA CloseConnectionKeeps == ASSUME ServiceInv, NEW i \in Inv, CloseConnection(i) PROVE ServiceInv'
<1>1. StoreTypeOK /\ StoreInv
  BY DEF ServiceInv, TypeOK
<1>2. StoreTypeOK' /\ StoreInv' /\ Rests /\ OthersKeepTheirs(i)
  BY <1>1, SharedIsConn, QuietStoreStep DEF CloseConnection
<1>3. PICK label \in Ended :
         /\ pc' = [pc EXCEPT ![i] = label]
         /\ label = "ok" => pc[i] = "closeOk"
         /\ MayBe(pc[i]) \subseteq MayBe(label)
  <2>1. CASE pc[i] = "closeOk"
    BY <2>1 DEF CloseConnection, Goto, Ended, MayBe, Statuses, Terminal
  <2>2. CASE pc[i] = "closeRaised"
    BY <2>2 DEF CloseConnection, Goto, Ended, MayBe
  <2>3. CASE pc[i] = "closeCancelled"
    BY <2>3 DEF CloseConnection, Goto, Ended, MayBe
  <2>4. QED
    BY <2>1, <2>2, <2>3 DEF CloseConnection, ClosingAt
<1>4. /\ label \in Labels \ {"evidence"}
      /\ label \notin BeforeFindings
  BY DEF CloseConnection, Labels, Ended, BeforeFindings
<1>5. TypeOK'
  BY <1>2, <1>3, <1>4 DEF CloseConnection, ServiceInv, TypeOK, resultVars, clientVars
<1>6. ~sent[i]
  BY NotSent DEF SharedCalls, OwnCalls, CloseConnection, ClosingAt
<1>7. faults' >= faults
  BY ServiceAssumption DEF CloseConnection, ServiceInv, TypeOK
<1>8. QED
  BY <1>2, <1>3, <1>4, <1>5, <1>6, <1>7, StepKeepsInv DEF CloseConnection, resultVars

LEMMA DeliverCancelKeeps == ASSUME ServiceInv, NEW i \in Inv, DeliverCancel(i) PROVE ServiceInv'
<1>1. StoreTypeOK /\ StoreInv
  BY DEF ServiceInv, TypeOK
<1>2. StoreTypeOK' /\ StoreInv' /\ Rests /\ OthersKeepTheirs(i)
  BY <1>1, SharedIsConn, QuietStoreStep DEF DeliverCancel
<1>3. PICK label \in {"cancelled", "closeCancelled"} : pc' = [pc EXCEPT ![i] = label]
  BY DEF DeliverCancel, Goto
<1>4. /\ label \in Labels \ {"evidence"}
      /\ label \notin BeforeFindings
      /\ MayBe(pc[i]) \subseteq MayBe(label)
  BY DEF DeliverCancel, Labels, TaskAt, ClosingAt, Ended, BeforeFindings, MayBe, Statuses, Terminal
<1>5. sent' = [sent EXCEPT ![i] = FALSE] /\ sent \in [Inv -> BOOLEAN]
  BY DEF DeliverCancel, ServiceInv, TypeOK
<1>6. TypeOK'
  BY <1>2, <1>3, <1>4, <1>5 DEF DeliverCancel, ServiceInv, TypeOK, resultVars, clientVars
<1>7. ~sent'[i] /\ \A j \in Inv \ {i} : sent'[j] = sent[j]
  BY <1>5
<1>8. faults' >= faults
  BY ServiceAssumption DEF DeliverCancel, ServiceInv, TypeOK
<1>9. QED
  BY <1>2, <1>3, <1>4, <1>6, <1>7, <1>8, StepKeepsInv DEF DeliverCancel, resultVars

LEMMA LookupReportKeeps == ASSUME ServiceInv, NEW i \in Inv, LookupReport(i) PROVE ServiceInv'
<1>1. StoreTypeOK /\ StoreInv
  BY DEF ServiceInv, TypeOK
<1>2. StoreTypeOK' /\ StoreInv' /\ Rests /\ OthersKeepTheirs(Shared)
  BY <1>1, SharedIsConn, QuietStoreStep DEF LookupReport
<1>3. PICK label \in {"report", "reasoning"} : pc' = [pc EXCEPT ![i] = label]
  BY DEF LookupReport, Goto
<1>4. /\ label \in Labels \ {"evidence"}
      /\ label \notin BeforeFindings
      /\ MayBe(pc[i]) \subseteq MayBe(label)
  BY DEF LookupReport, Runs, Labels, TaskAt, BeforeFindings, MayBe
<1>5. faults' \in 0..MaxFaults /\ faults' >= faults
  BY ServiceAssumption DEF LookupReport, Fault, ServiceInv, TypeOK
<1>6. TypeOK'
  BY <1>2, <1>3, <1>4, <1>5 DEF LookupReport, ServiceInv, TypeOK, resultVars, clientVars
<1>7. ~sent[i]
  BY NotSent DEF SharedCalls, OwnCalls, LookupReport, Runs
<1>8. QED
  BY <1>2, <1>3, <1>4, <1>5, <1>6, <1>7, StepKeepsInv DEF LookupReport, resultVars

LEMMA InsertFindingKeeps == ASSUME ServiceInv, NEW i \in Inv, InsertFinding(i) PROVE ServiceInv'
<1> DEFINE new == InsertEvidence(View(Shared), i)
<1>1. StoreTypeOK /\ StoreInv /\ Shared \in Conn /\ View(Shared) \in Tables
  BY SharedIsConn, ViewType DEF ServiceInv, TypeOK
<1>2. new \in Tables /\ new.investigations = View(Shared).investigations
  BY <1>1, InsertEvidenceEffect
<1>3. StoreStep(Shared, new)
  BY DEF InsertFinding, StoreStep
<1>4. StoreTypeOK' /\ StoreInv' /\ OthersKeepTheirs(Shared)
  BY <1>1, <1>2, <1>3, StoreStepFacts
<1>5. /\ pc[i] = "evidence" /\ ~sent[i]
      /\ UNCHANGED <<findings, counted, sess, cancel, app, stops, clientVars>>
  BY DEF InsertFinding, Runs
<1>6. faults' \in 0..MaxFaults /\ faults' \in Nat /\ faults' >= faults
  BY ServiceAssumption DEF InsertFinding, Fault, ServiceInv, TypeOK
<1>7. \/ /\ Drafts(Shared, new) /\ new.investigations = Committed(Shared).investigations
         /\ inserted' = [inserted EXCEPT ![i] = @ + 1]
         /\ sent' = [sent EXCEPT ![i] = inserted[i] + 1 = findings[i]]
         /\ pc' = pc
      \/ /\ Rests \/ Publishes(Shared) \/ Drafts(Shared, Committed(Shared))
         /\ pc' = [pc EXCEPT ![i] = "lookup"] /\ UNCHANGED <<inserted, sent>>
  <2>1. ASSUME Write(Shared, new)
        PROVE  Drafts(Shared, new) /\ new.investigations = Committed(Shared).investigations
    <3>1. View(Shared) = Committed(Shared)
      BY <1>1, <2>1, FreshView DEF Write
    <3>2. QED
      BY <1>1, <1>2, <2>1, <3>1, WriteKind
  <2>2. ASSUME WriteRefused(Shared) \/ WriteBreaks(Shared)
        PROVE  Rests \/ Publishes(Shared) \/ Drafts(Shared, Committed(Shared))
    BY <1>1, <2>2, CommitBreaksKind, WriteBreaksKind
  <2>3. QED
    BY <2>1, <2>2 DEF InsertFinding, Goto
<1> HIDE DEF new
<1>8. /\ inserted[i] \in Nat /\ findings[i] \in 0..MaxFindings
      /\ inserted[i] < findings[i]
  BY <1>5, ServiceAssumption DEF ServiceInv, TypeOK, FindingsInv
<1>9. CASE Drafts(Shared, new) /\ new.investigations = Committed(Shared).investigations
             /\ pc' = pc /\ inserted' = [inserted EXCEPT ![i] = @ + 1]
             /\ sent' = [sent EXCEPT ![i] = inserted[i] + 1 = findings[i]]
  <2>1. inserted[i] + 1 \in 0..MaxFindings
    BY <1>8, ServiceAssumption
  <2>2. inserted' \in [Inv -> 0..MaxFindings] /\ sent' \in [Inv -> BOOLEAN]
    BY <1>9, <2>1 DEF ServiceInv, TypeOK
  <2>3. TypeOK'
    BY <1>4, <1>5, <1>6, <1>9, <2>2 DEF ServiceInv, TypeOK, clientVars
  <2>4. \A j \in Inv : j # i => inserted'[j] = inserted[j] /\ sent'[j] = sent[j]
    BY <1>9 DEF ServiceInv, TypeOK
  <2>5. StageInv'
    <3>1. pc' = [pc EXCEPT ![i] = "evidence"]
      BY <1>5, <1>9 DEF ServiceInv, TypeOK
    <3>2. \A t \in Live : t.investigations[i].status \in MayBe("evidence")
      BY <1>5 DEF ServiceInv, StageInv, RowsFit
    <3>3. \A j \in Inv \ {i} : mode'[j] = mode[j]
      BY <1>4, SharedIsConn DEF OthersKeepTheirs
    <3>4. QED
      BY <1>2, <1>5, <1>6, <1>9, <2>4, <3>1, <3>2, <3>3, StepKeepsStages
  <2>6. SentInv'
    <3>1. \A j \in Inv : sent'[j] => pc'[j] \in SharedCalls \cup OwnCalls \cup {"evidence"}
      BY <1>5, <1>9, <2>4 DEF ServiceInv, SentInv
    <3>2. QED
      BY <3>1 DEF SentInv
  <2>7. pc[i] \notin BeforeFindings
    BY <1>5 DEF BeforeFindings
  <2>8. inserted'[i] = inserted[i] + 1 /\ sent'[i] = (inserted[i] + 1 = findings[i])
    BY <1>9 DEF ServiceInv, TypeOK
  <2>9. ~sent'[i] => inserted'[i] < findings'[i]
    <3>1. inserted[i] + 1 # findings[i] => inserted[i] + 1 < findings[i]
      BY <1>8
    <3>2. inserted[i] + 1 = findings[i] => sent'[i]
      BY <2>8
    <3>3. findings'[i] = findings[i] /\ inserted'[i] = inserted[i] + 1
      BY <1>5, <2>8
    <3>4. QED
      BY <3>1, <3>2, <3>3
  <2>10. FindingsInv'
    BY <1>5, <1>9, <2>4, <2>7, <2>9 DEF ServiceInv, FindingsInv
  <2>11. QED
    BY <1>4, <2>3, <2>5, <2>6, <2>10 DEF ServiceInv
<1>10. CASE /\ Rests \/ Publishes(Shared) \/ Drafts(Shared, Committed(Shared))
            /\ pc' = [pc EXCEPT ![i] = "lookup"] /\ UNCHANGED <<inserted, sent>>
  <2>1. /\ "lookup" \in Labels \ {"evidence"} /\ "lookup" \notin BeforeFindings
        /\ MayBe(pc[i]) \subseteq MayBe("lookup")
    BY <1>5 DEF Labels, TaskAt, BeforeFindings, MayBe
  <2>2. TypeOK'
    BY <1>4, <1>5, <1>6, <1>10, <2>1 DEF ServiceInv, TypeOK, clientVars
  <2>3. QED
    BY <1>4, <1>5, <1>6, <1>10, <2>1, <2>2, StepKeepsInv
<1>11. QED
  BY <1>7, <1>9, <1>10

LEMMA CommitEvidenceKeeps == ASSUME ServiceInv, NEW i \in Inv, CommitEvidence(i) PROVE ServiceInv'
<1>1. StoreTypeOK /\ StoreInv /\ Shared \in Conn /\ View(Shared) \in Tables
  BY SharedIsConn, ViewType DEF ServiceInv, TypeOK
<1>2. StoreStep(Shared, View(Shared))
  BY DEF CommitEvidence, CommitAndGet, StoreStep
<1>3. /\ StoreTypeOK' /\ StoreInv' /\ OthersKeepTheirs(Shared)
      /\ Rests \/ Publishes(Shared) \/ Drafts(Shared, Committed(Shared))
  <2>1. Rests \/ Publishes(Shared)
    BY <1>1, CommitKind, CommitBreaksKind DEF CommitEvidence, CommitAndGet
  <2>2. QED
    BY <1>1, <1>2, <2>1, StoreStepFacts
<1>4. /\ pc[i] = "evidence"
      /\ pc' = [pc EXCEPT ![i] = "lookup"]
      /\ sent' = [sent EXCEPT ![i] = FALSE]
      /\ UNCHANGED <<findings, inserted, sess, cancel, app, stops, clientVars>>
  BY DEF CommitEvidence, Runs, CommitAndGet, Goto
<1>5. counted' \in [Inv -> BOOLEAN]
  <2> DEFINE done == faults' = faults /\ mode[Shared] # "closed"
  <2>1. counted' = [counted EXCEPT ![i] = done]
    BY DEF CommitEvidence
  <2>2. done \in BOOLEAN
    OBVIOUS
  <2> HIDE DEF done
  <2>3. QED
    BY <2>1, <2>2 DEF ServiceInv, TypeOK
<1>6. faults' \in 0..MaxFaults /\ faults' >= faults
  BY ServiceAssumption DEF CommitEvidence, CommitAndGet, Fault, ServiceInv, TypeOK
<1>7. /\ "lookup" \in Labels \ {"evidence"} /\ "lookup" \notin BeforeFindings
      /\ MayBe(pc[i]) \subseteq MayBe("lookup")
  BY <1>4 DEF Labels, TaskAt, BeforeFindings, MayBe
<1>8. TypeOK'
  BY <1>3, <1>4, <1>5, <1>6, <1>7 DEF ServiceInv, TypeOK, clientVars
<1>9. ~sent'[i] /\ \A j \in Inv \ {i} : sent'[j] = sent[j]
  BY <1>4 DEF ServiceInv, TypeOK
<1>10. QED
  BY <1>3, <1>4, <1>6, <1>7, <1>8, <1>9, StepKeepsInv

\* The analysis chooses the number of findings before any is inserted.
LEMMA AnalyseKeeps == ASSUME ServiceInv, NEW i \in Inv, Analyse(i) PROVE ServiceInv'
<1>1. StoreTypeOK' /\ StoreInv' /\ Rests /\ OthersKeepTheirs(i)
  BY SharedIsConn, QuietStoreStep DEF Analyse, ServiceInv, TypeOK
<1>2. /\ pc[i] = "graph" /\ inserted[i] = 0
      /\ UNCHANGED <<sent, inserted, counted, sess, cancel, app, faults, stops, clientVars>>
  BY DEF Analyse, Runs, ServiceInv, FindingsInv, BeforeFindings
<1>3. /\ {"lookup", "evidence", "failing"} \subseteq Labels
      /\ {"lookup", "evidence", "failing"} \cap BeforeFindings = {}
      /\ \A label \in {"lookup", "evidence", "failing"} : MayBe(pc[i]) \subseteq MayBe(label)
  BY <1>2 DEF Labels, TaskAt, BeforeFindings, MayBe, Statuses
<1>4. \/ \E n \in 0..MaxFindings :
           /\ findings' = [findings EXCEPT ![i] = n]
           /\ pc' = [pc EXCEPT ![i] = IF n = 0 THEN "lookup" ELSE "evidence"]
      \/ pc' = [pc EXCEPT ![i] = "failing"] /\ findings' = findings
  BY DEF Analyse, Goto
<1>5. PICK label \in {"lookup", "evidence", "failing"} :
        /\ pc' = [pc EXCEPT ![i] = label]
        /\ findings' \in [Inv -> 0..MaxFindings]
        /\ \A j \in Inv : j # i => findings'[j] = findings[j]
        /\ label = "evidence" => findings'[i] > 0
  <2>1. CASE pc' = [pc EXCEPT ![i] = "failing"] /\ findings' = findings
    BY <2>1 DEF ServiceInv, TypeOK
  <2>2. CASE \E n \in 0..MaxFindings :
               /\ findings' = [findings EXCEPT ![i] = n]
               /\ pc' = [pc EXCEPT ![i] = IF n = 0 THEN "lookup" ELSE "evidence"]
    <3>1. PICK n \in 0..MaxFindings :
               /\ findings' = [findings EXCEPT ![i] = n]
               /\ pc' = [pc EXCEPT ![i] = IF n = 0 THEN "lookup" ELSE "evidence"]
      BY <2>2
    <3>2. /\ findings' \in [Inv -> 0..MaxFindings] /\ findings'[i] = n
          /\ \A j \in Inv : j # i => findings'[j] = findings[j]
      BY <3>1 DEF ServiceInv, TypeOK
    <3>3. CASE n = 0
      BY <3>1, <3>2, <3>3
    <3>4. CASE n # 0
      BY <3>1, <3>2, <3>4, ServiceAssumption
    <3>5. QED
      BY <3>3, <3>4
  <2>3. QED
    BY <1>4, <2>1, <2>2
<1>6. TypeOK'
  BY <1>1, <1>2, <1>3, <1>5 DEF ServiceInv, TypeOK, clientVars
<1>7. ~sent[i]
  BY <1>2, NotSent DEF SharedCalls, OwnCalls
<1>8. StageInv'
  <2>1. \A t \in Live : t.investigations[i].status \in MayBe(label)
    BY <1>3 DEF ServiceInv, StageInv, RowsFit
  <2>2. \A j \in Inv \ {i} : mode'[j] = mode[j] /\ sent'[j] = sent[j]
    BY <1>1, <1>2, SharedIsConn DEF OthersKeepTheirs
  <2>3. faults' \in Nat /\ faults' >= faults
    BY <1>2, ServiceAssumption DEF ServiceInv, TypeOK
  <2>4. QED
    BY <1>1, <1>2, <1>5, <1>7, <2>1, <2>2, <2>3, StepKeepsStages
<1>9. FindingsInv' /\ SentInv'
  BY <1>2, <1>3, <1>5, <1>7 DEF ServiceInv, TypeOK, FindingsInv, SentInv
<1>10. QED
  BY <1>1, <1>6, <1>8, <1>9 DEF ServiceInv

-------------------------------------------------------------------------------
(* Steps that move no coroutine *)

LEMMA IdleStepKeepsInv ==
  ASSUME ServiceInv, TypeOK', StoreInv', Rests, OthersKeepTheirs(Shared),
         UNCHANGED <<pc, sent, findings, inserted, faults>>,
         \A i \in Inv : sess'[i] = "COMPLETE" => sess[i] = "COMPLETE" \/ pc[i] = "ok"
  PROVE  ServiceInv'
<1>1. RowsFit'
  <2>1. Live' \subseteq Live
    BY SharedIsConn, LiveStays
  <2>2. \A t \in Live', i \in Inv :
           Sound(t.investigations[i]) /\ t.investigations[i].status \in MayBe(pc'[i])
    BY <2>1 DEF ServiceInv, StageInv, RowsFit
  <2>3. QED
    BY <2>2 DEF RowsFit
<1>2. DraftKeeps'
  BY DEF Rests, ServiceInv, StageInv, DraftKeeps
<1>3. OwnDraft'
  <2>1. ASSUME NEW i \in Inv, sent'[i], pc'[i] \in {"running", "complete", "failing"}
        PROVE  mode'[i] = "write" /\ work'.investigations[i].status = StatusAfter(pc'[i], "ABSENT")
    <3>1. mode[i] = "write" /\ work.investigations[i].status = StatusAfter(pc[i], "ABSENT")
      BY <2>1 DEF ServiceInv, StageInv, OwnDraft
    <3>2. mode'[i] = mode[i] /\ i \in Conn
      BY SharedIsConn DEF OthersKeepTheirs
    <3>3. work' = work
      BY <3>1, <3>2 DEF Rests
    <3>4. QED
      BY <3>1, <3>2, <3>3
  <2>2. QED
    BY <2>1 DEF OwnDraft
<1>4. Returned'
  BY DEF Rests, ServiceInv, StageInv, Returned
<1>5. SentInv' /\ FindingsInv'
  BY DEF ServiceInv, SentInv, FindingsInv
<1>6. QED
  BY <1>1, <1>2, <1>3, <1>4, <1>5 DEF ServiceInv, StageInv

LEMMA OnTaskDoneKeeps == ASSUME ServiceInv, NEW i \in Inv, OnTaskDone(i) PROVE ServiceInv'
<1>1. StoreTypeOK' /\ StoreInv' /\ Rests /\ OthersKeepTheirs(Shared)
  BY SharedIsConn, QuietStoreStep DEF OnTaskDone, ServiceInv, TypeOK
<1>2. PICK s \in SessionStatuses :
        sess' = [sess EXCEPT ![i] = s] /\ (s = "COMPLETE" => pc[i] = "ok")
  <2>1. CASE pc[i] = "cancelled"
    BY <2>1 DEF OnTaskDone, SessionStatuses
  <2>2. CASE pc[i] = "raised"
    BY <2>2 DEF OnTaskDone, SessionStatuses
  <2>3. CASE pc[i] = "ok"
    BY <2>3 DEF OnTaskDone, SessionStatuses
  <2>4. QED
    BY <2>1, <2>2, <2>3 DEF OnTaskDone, Ended
<1>3. TypeOK'
  <2>1. sess' \in [Inv -> SessionStatuses]
    BY <1>2 DEF ServiceInv, TypeOK
  <2>2. QED
    BY <1>1, <2>1 DEF OnTaskDone, ServiceInv, TypeOK, taskVars, resultVars, clientVars
<1>4. \A j \in Inv : sess'[j] = "COMPLETE" => sess[j] = "COMPLETE" \/ pc[j] = "ok"
  BY <1>2 DEF ServiceInv, TypeOK
<1>5. QED
  BY <1>1, <1>3, <1>4, IdleStepKeepsInv DEF OnTaskDone, taskVars, resultVars

LEMMA PollKeeps == ASSUME ServiceInv, NEW i \in Inv, Poll(i) PROVE ServiceInv'
<1>1. StoreTypeOK' /\ StoreInv' /\ Rests /\ OthersKeepTheirs(Shared)
  BY SharedIsConn, QuietStoreStep DEF Poll, ServiceInv, TypeOK
<1>2. View(Shared).investigations[i].status \in Statuses
  <2>1. View(Shared) \in Tables
    BY SharedIsConn, ViewType DEF ServiceInv, TypeOK
  <2>2. View(Shared).investigations[i] \in Row
    BY <2>1, RowAt
  <2>3. QED
    BY <2>2 DEF Poll, Exists, Row
<1>3. TypeOK'
  BY <1>1, <1>2 DEF Poll, ServiceInv, TypeOK, taskVars, resultVars
<1>4. QED
  BY <1>1, <1>3, IdleStepKeepsInv DEF Poll, taskVars, resultVars

LEMMA GetReportKeeps == ASSUME ServiceInv, NEW i \in Inv, GetReport(i) PROVE ServiceInv'
<1>1. StoreTypeOK' /\ StoreInv' /\ Rests /\ OthersKeepTheirs(Shared)
  BY SharedIsConn, QuietStoreStep DEF GetReport, ServiceInv, TypeOK
<1> DEFINE status == View(Shared).investigations[i].status
           answer == CASE status \in {"PENDING", "RUNNING"} -> "early"
                       [] status = "FAILED" -> "failed"
                       [] OTHER -> "reading"
<1>2. fetched' = [fetched EXCEPT ![i] = answer]
  BY DEF GetReport
<1>3. answer \in {"reading", "early", "failed"}
  <2> HIDE DEF status
  <2>1. CASE status \in {"PENDING", "RUNNING"}
    BY <2>1
  <2>2. CASE status = "FAILED"
    BY <2>2
  <2>3. CASE status \notin {"PENDING", "RUNNING", "FAILED"}
    BY <2>3
  <2>4. QED
    BY <2>1, <2>2, <2>3
<1> HIDE DEF answer
<1>4. TypeOK'
  BY <1>1, <1>2, <1>3 DEF GetReport, ServiceInv, TypeOK, taskVars, resultVars
<1>5. QED
  BY <1>1, <1>4, IdleStepKeepsInv DEF GetReport, taskVars, resultVars

LEMMA ReadReportKeeps == ASSUME ServiceInv, NEW i \in Inv, ReadReport(i) PROVE ServiceInv'
<1>1. StoreTypeOK' /\ StoreInv' /\ Rests /\ OthersKeepTheirs(Shared)
  BY SharedIsConn, QuietStoreStep DEF ReadReport, ServiceInv, TypeOK
<1>2. PICK answer \in {"report", "stub"} : fetched' = [fetched EXCEPT ![i] = answer]
  BY DEF ReadReport
<1>3. TypeOK'
  BY <1>1, <1>2 DEF ReadReport, ServiceInv, TypeOK, taskVars, resultVars
<1>4. QED
  BY <1>1, <1>3, IdleStepKeepsInv DEF ReadReport, taskVars, resultVars

LEMMA CloseDbKeeps == ASSUME ServiceInv, CloseDb PROVE ServiceInv'
<1>1. StoreTypeOK' /\ StoreInv' /\ Rests /\ OthersKeepTheirs(Shared)
  BY SharedIsConn, QuietStoreStep DEF CloseDb, ServiceInv, TypeOK
<1>2. TypeOK'
  BY <1>1 DEF CloseDb, AppStages, ServiceInv, TypeOK, taskVars, resultVars, clientVars
<1>3. QED
  BY <1>1, <1>2, IdleStepKeepsInv DEF CloseDb, taskVars, resultVars

LEMMA ClearDbKeeps == ASSUME ServiceInv, ClearDb PROVE ServiceInv'
<1>1. StoreTypeOK' /\ StoreInv' /\ Rests /\ OthersKeepTheirs(Shared)
  BY SharedIsConn, QuietStoreStep DEF ClearDb, ServiceInv, TypeOK
<1>2. TypeOK'
  BY <1>1 DEF ClearDb, AppStages, ServiceInv, TypeOK, taskVars, resultVars, clientVars
<1>3. QED
  BY <1>1, <1>2, IdleStepKeepsInv DEF ClearDb, taskVars, resultVars

LEMMA CancelSessionsKeeps == ASSUME ServiceInv, CancelSessions PROVE ServiceInv'
<1>1. StoreTypeOK' /\ StoreInv' /\ Rests /\ OthersKeepTheirs(Shared)
  BY SharedIsConn, QuietStoreStep DEF CancelSessions, ServiceInv, TypeOK
<1>2. cancel' \in [Inv -> BOOLEAN]
  BY DEF CancelSessions
<1>3. TypeOK'
  BY <1>1, <1>2
  DEF CancelSessions, AppStages, ServiceInv, TypeOK, taskVars, resultVars, clientVars
<1>4. QED
  BY <1>1, <1>3, IdleStepKeepsInv DEF CancelSessions, taskVars, resultVars

\* A restart opens the shared connection of the next process.
LEMMA RestartKeeps == ASSUME ServiceInv, Restart PROVE ServiceInv'
<1>1. StoreTypeOK' /\ StoreInv' /\ Rests /\ OthersKeepTheirs(Shared)
  BY SharedIsConn
  DEF Restart, ServiceInv, TypeOK, StoreTypeOK, StoreInv, Modes, Rests, OthersKeepTheirs
<1>2. TypeOK'
  BY <1>1 DEF Restart, AppStages, ServiceInv, TypeOK, taskVars, resultVars, clientVars
<1>3. QED
  BY <1>1, <1>2, IdleStepKeepsInv DEF Restart, taskVars, resultVars

-------------------------------------------------------------------------------
(* The death of the process *)

LEMMA DieKeeps ==
  ASSUME ServiceInv, Die, faults' \in 0..MaxFaults, faults' >= faults
  PROVE  ServiceInv'
<1>1. StoreTypeOK' /\ StoreInv'
  BY SharedIsConn, EmptyTablesType
  DEF Die, ServiceInv, TypeOK, StoreTypeOK, StoreInv, Modes
<1>2. pc' \in [Inv -> Labels]
  BY DEF Die, ServiceInv, TypeOK, Labels
<1>3. stops' \in 0..MaxStops
  BY ServiceAssumption DEF Die, ServiceInv, TypeOK
<1>4. TypeOK'
  BY <1>1, <1>2, <1>3
  DEF Die, ServiceInv, TypeOK, SessionStatuses, AppStages, resultVars
<1>5. \A i \in Inv :
        \/ pc'[i] = "lost"
        \/ /\ pc'[i] = pc[i]
           /\ pc[i] \notin HandlerAt \cup TaskAt \cup ClosingAt
  BY DEF Die
<1>6. "lost" \notin BeforeFindings \cup {"evidence", "ok"}
  BY DEF BeforeFindings
<1>7. FindingsInv' /\ SentInv'
  BY <1>5, <1>6 DEF Die, ServiceInv, FindingsInv, SentInv, TaskAt, resultVars
<1>8. db' = db /\ \A c \in Conn : mode'[c] # "write"
  BY DEF Die
<1>9. RowsFit'
  <2>1. Live' = {db}
    BY <1>8 DEF Live
  <2>2. \A i \in Inv : db.investigations[i].status \in MayBe("lost")
    BY RowAt DEF ServiceInv, TypeOK, StoreTypeOK, MayBe, Row
  <2>3. \A i \in Inv : Sound(db.investigations[i]) /\ db.investigations[i].status \in MayBe(pc'[i])
    BY <1>5, <2>2 DEF ServiceInv, StageInv, RowsFit, Live
  <2>4. QED
    BY <2>1, <2>3 DEF RowsFit
<1>10. DraftKeeps' /\ OwnDraft'
  BY <1>8 DEF DraftKeeps, OwnDraft, Die
<1>11. Returned'
  <2>1. \A i \in Inv : sess'[i] # "COMPLETE"
    BY DEF Die
  <2>2. faults \in Nat /\ faults' \in Nat
    BY ServiceAssumption DEF ServiceInv, TypeOK
  <2>3. QED
    BY <1>5, <1>6, <1>8, <2>1, <2>2 DEF ServiceInv, StageInv, Returned
<1>12. QED
  BY <1>1, <1>4, <1>7, <1>9, <1>10, <1>11 DEF ServiceInv, StageInv

LEMMA ExitKeeps == ASSUME ServiceInv, Exit PROVE ServiceInv'
<1>1. Die /\ (faults' = faults \/ Fault)
  BY DEF Exit
<1>2. faults' \in 0..MaxFaults /\ faults' >= faults
  BY <1>1, ServiceAssumption DEF Fault, ServiceInv, TypeOK
<1>3. QED
  BY <1>1, <1>2, DieKeeps

LEMMA CrashKeeps == ASSUME ServiceInv, Crash PROVE ServiceInv'
<1>1. faults' \in 0..MaxFaults /\ faults' >= faults
  BY ServiceAssumption DEF Crash, ServiceInv, TypeOK
<1>2. QED
  BY <1>1, DieKeeps DEF Crash

-------------------------------------------------------------------------------
LEMMA StutterKeeps == ASSUME ServiceInv, UNCHANGED vars PROVE ServiceInv'
<1> USE DEF vars, taskVars, resultVars, clientVars
<1>1. StoreTypeOK' /\ StoreInv' /\ Rests /\ OthersKeepTheirs(Shared)
  BY SharedIsConn, QuietStoreStep DEF ServiceInv, TypeOK
<1>2. TypeOK'
  BY <1>1 DEF ServiceInv, TypeOK
<1>3. QED
  BY <1>1, <1>2, IdleStepKeepsInv

LEMMA NextKeepsInv == ServiceInv /\ [Next]_vars => ServiceInv'
<1> SUFFICES ASSUME ServiceInv, [Next]_vars PROVE ServiceInv'
  OBVIOUS
<1>1. ASSUME NEW i \in Inv, Handler(i) PROVE ServiceInv'
  BY <1>1, CallKeepsInv, StartSessionKeeps DEF Handler, RepoCall
<1>2. ASSUME NEW i \in Inv, MemoryNode(i) PROVE ServiceInv'
  BY <1>2, InsertFindingKeeps, CommitEvidenceKeeps, LookupReportKeeps, CallKeepsInv
  DEF MemoryNode, RepoCall
<1>3. ASSUME NEW i \in Inv, Task(i) PROVE ServiceInv'
  BY <1>2, <1>3, OpenConnectionKeeps, AnalyseKeeps, CloseConnectionKeeps, DeliverCancelKeeps,
     CallKeepsInv DEF Task, RepoCall
<1>4. ASSUME NEW i \in Inv, Client(i) PROVE ServiceInv'
  BY <1>4, ReceiveKeeps, PollKeeps, GetReportKeeps, ReadReportKeeps DEF Client
<1>5. CASE Lifespan
  BY <1>5, CloseDbKeeps, ClearDbKeeps, CancelSessionsKeeps, ExitKeeps, CrashKeeps, RestartKeeps
  DEF Lifespan
<1>6. CASE UNCHANGED vars
  BY <1>6, StutterKeeps
<1>7. QED
  BY <1>1, <1>3, <1>4, <1>5, <1>6, OnTaskDoneKeeps DEF Next

\* Every step of every coroutine, client and shutdown keeps the types: in
\* particular create_batch never inserts more rows than there are findings.
THEOREM ServiceTypes == Spec => []TypeOK
<1>1. ServiceInv => TypeOK
  BY DEF ServiceInv
<1>2. QED
  BY <1>1, InitInv, NextKeepsInv, PTL DEF Spec

\* start_investigation and _run_agent: from the moment a task exists its row
\* is committed, whatever other coroutines do to the shared transaction and
\* however often the process dies.
THEOREM RowBeforeTask == Spec => []TaskHasCommittedRow
<1>1. ASSUME ServiceInv PROVE TaskHasCommittedRow
  <2>1. ASSUME NEW i \in Inv, pc[i] \in TaskAt \cup ClosingAt \cup Ended PROVE Exists(db, i)
    <3>1. db.investigations[i].status \in MayBe(pc[i])
      BY <1>1 DEF ServiceInv, StageInv, RowsFit, Live
    <3>2. "ABSENT" \notin MayBe(pc[i])
      BY <2>1 DEF TaskAt, ClosingAt, Ended, MayBe, Statuses, Terminal
    <3>3. QED
      BY <3>1, <3>2 DEF Exists
  <2>2. QED
    BY <2>1 DEF TaskHasCommittedRow
<1>2. ServiceInv => TaskHasCommittedRow
  BY <1>1
<1>3. QED
  BY <1>2, InitInv, NextKeepsInv, PTL DEF Spec

\* update_status and mark_failed: completed_at, started_at, the score and the
\* error of every committed row tell the same story as its status, whichever
\* connection wrote last and whatever failed.
THEOREM TimestampsFit == Spec => []LifecycleTimestamps
<1>1. ServiceInv => LifecycleTimestamps
  BY DEF ServiceInv, StageInv, RowsFit, Live, Sound, LifecycleTimestamps
<1>2. QED
  BY <1>1, InitInv, NextKeepsInv, PTL DEF Spec

-------------------------------------------------------------------------------
(* What a step may do to the committed tables *)

\* A statement or a commit on connection c.
StatementStep(c, new) ==
  \/ Write(c, new) \/ WriteRefused(c) \/ WriteBreaks(c)
  \/ Commit(c) \/ CommitRefused(c) \/ CommitBreaks(c)

LEMMA RepoCallSteps ==
  ASSUME NEW i \in Inv,
         RepoCall(i) \/ InsertFinding(i) \/ CommitEvidence(i)
  PROVE  \E c \in {i, Shared} : \E new :
           StatementStep(c, new) /\ UNCHANGED <<sess, cancel, app, stops, clientVars>>
<1>1. CASE RepoCall(i)
  <2>1. \E c \in {i, Shared} : \E label, new, next, handler : Call(i, c, label, new, next, handler)
    BY <1>1 DEF RepoCall, CreateRow, MarkRunning, MarkInit, CreateReport, SaveReasoningLog,
                SaveComplete, SaveDone, MarkComplete, MarkDone, RecordFailure
  <2>2. QED
    BY <2>1 DEF Call, Execute, CommitAndGet, StatementStep
<1>2. CASE InsertFinding(i) \/ CommitEvidence(i)
  BY <1>2 DEF InsertFinding, CommitEvidence, CommitAndGet, StatementStep
<1>3. QED
  BY <1>1, <1>2

LEMMA RepoCallRuns == ASSUME NEW i \in Inv, RepoCall(i) PROVE ~cancel[i] /\ app # "down"
  BY DEF RepoCall, CreateRow, MarkRunning, MarkInit, CreateReport, SaveReasoningLog,
         SaveComplete, SaveDone, MarkComplete, MarkDone, RecordFailure, Call, Runs

LEMMA StoreStepDb ==
  ASSUME NEW c \in Conn, NEW new, StoreStep(c, new) \/ UNCHANGED storeVars
  PROVE  db' = db \/ (mode[c] = "write" /\ db' = work)
<1>1. CASE Commit(c)
  BY <1>1 DEF Commit, Committed
<1>2. CASE ~Commit(c)
  BY <1>2 DEF StoreStep, Open, Close, Write, WriteRefused, WriteBreaks, CommitRefused, CommitBreaks,
              ReadShared, storeVars
<1>3. QED
  BY <1>1, <1>2

\* The committed tables change only when somebody's draft is committed.
LEMMA DbStep ==
  ASSUME [Next]_vars
  PROVE  db' = db \/ \E c \in Conn : mode[c] = "write" /\ db' = work
<1>1. ASSUME NEW i \in Inv, RepoCall(i) \/ InsertFinding(i) \/ CommitEvidence(i)
      PROVE  \E c \in Conn : \E new : StoreStep(c, new)
  BY <1>1, RepoCallSteps, SharedIsConn DEF StatementStep, StoreStep
<1>2. \A c \in Conn : \A new : StoreStep(c, new) => db' = db \/ (mode[c] = "write" /\ db' = work)
  BY StoreStepDb
<1>3. ASSUME NEW i \in Inv,
             StartSession(i) \/ LookupReport(i) \/ OpenConnection(i) \/ Analyse(i)
               \/ CloseConnection(i) \/ DeliverCancel(i) \/ OnTaskDone(i) \/ Client(i)
      PROVE  db' = db
  BY <1>3 DEF StartSession, LookupReport, OpenConnection, Analyse, CloseConnection, DeliverCancel,
              OnTaskDone, Client, Receive, Poll, GetReport, ReadReport, ReadShared, Open, Close,
              storeVars
<1>4. CASE Lifespan
  BY <1>4 DEF Lifespan, CloseDb, ClearDb, CancelSessions, Exit, Crash, Die, Restart, Close, storeVars
<1>5. CASE UNCHANGED vars
  BY <1>5 DEF vars, storeVars
<1>6. QED
  BY <1>1, <1>2, <1>3, <1>4, <1>5
  DEF Next, Handler, Task, MemoryNode, RepoCall

LEMMA CommitKeepsRows ==
  ASSUME ServiceInv, [Next]_vars, NEW i \in Inv
  PROVE  Kept(db.investigations[i], db'.investigations[i])
<1>1. Kept(db.investigations[i], db.investigations[i])
  BY DEF Kept
<1>2. QED
  BY <1>1, DbStep DEF ServiceInv, StageInv, DraftKeeps

\* mark_failed is the last word on a row: neither memory_node's update on the
\* shared connection nor the task's own, still uncommitted when the failure is
\* recorded, reopens it.
THEOREM FailedStays == Spec => FailedIsFinal
<1>1. ServiceInv /\ [Next]_vars =>
        [\A i \in Inv : db.investigations[i].status = "FAILED"
                          => db'.investigations[i].status = "FAILED"]_vars
  BY CommitKeepsRows DEF Kept
<1>2. QED
  BY <1>1, InitInv, NextKeepsInv, PTL DEF Spec, FailedIsFinal

\* No update_status that a coroutine still has to commit, on the shared or on
\* its own connection, takes a finished investigation back.
THEOREM FinishedStays == Spec => TerminalNeverReopens
<1>1. ServiceInv /\ [Next]_vars =>
        [\A i \in Inv : db.investigations[i].status \in Terminal
                          => db'.investigations[i].status \in Terminal]_vars
  BY CommitKeepsRows DEF Kept
<1>2. QED
  BY <1>1, InitInv, NextKeepsInv, PTL DEF Spec, TerminalNeverReopens

-------------------------------------------------------------------------------
(* Without faults *)

\* _on_task_done maps a task that returned to COMPLETE: where no statement
\* fails, such a task has recorded COMPLETE or FAILED and committed it.
THEOREM SessionsAgree == ASSUME MaxFaults = 0 PROVE Spec => []SessionAgreesWithRow
<1>1. ServiceInv => SessionAgreesWithRow
  BY ServiceAssumption DEF ServiceInv, TypeOK, StageInv, Returned, SessionAgreesWithRow
<1>2. QED
  BY <1>1, InitInv, NextKeepsInv, PTL DEF Spec

\* Tasks are cancelled once the shared connection is closed, and none is left
\* when the process is gone.
AppInv ==
  /\ \A i \in Inv : cancel[i] => app = "cancelling"
  /\ app # "up" => mode[Shared] = "closed"
  /\ app = "down" => \A i \in Inv : pc[i] \notin HandlerAt \cup TaskAt \cup ClosingAt

LEMMA ClosedStays ==
  ASSUME StoreTypeOK, NEW c \in Conn, NEW new,
         \/ StatementStep(c, new)
         \/ c # Shared /\ Open(c)
         \/ Close(c) \/ ReadShared \/ UNCHANGED storeVars
  PROVE  mode[Shared] = "closed" => mode'[Shared] = "closed"
  BY SharedIsConn
  DEF StatementStep, Open, Close, Write, WriteRefused, WriteBreaks, Commit, CommitRefused,
      CommitBreaks, ReadShared, storeVars, StoreTypeOK

LEMMA AppStep == ServiceInv /\ AppInv /\ [Next]_vars => AppInv'
<1> SUFFICES ASSUME ServiceInv, AppInv, [Next]_vars PROVE AppInv'
  OBVIOUS
<1>1. StoreTypeOK /\ Inv \subseteq Conn /\ Shared \in Conn /\ Shared \notin Inv
  BY SharedIsConn DEF ServiceInv, TypeOK
<1>2. ASSUME UNCHANGED <<app, cancel>>, mode[Shared] = "closed" => mode'[Shared] = "closed",
             app # "down" \/ pc' = pc
      PROVE  AppInv'
  BY <1>2 DEF AppInv
<1>3. ASSUME NEW i \in Inv, RepoCall(i) \/ InsertFinding(i) \/ CommitEvidence(i)
      PROVE  AppInv'
  <2>1. app # "down"
    BY <1>3, RepoCallRuns DEF InsertFinding, CommitEvidence, Runs
  <2>2. QED
    BY <1>1, <1>2, <1>3, <2>1, RepoCallSteps, ClosedStays
<1>4. ASSUME NEW i \in Inv,
             StartSession(i) \/ LookupReport(i) \/ OpenConnection(i) \/ Analyse(i)
               \/ CloseConnection(i) \/ DeliverCancel(i) \/ OnTaskDone(i) \/ Client(i)
      PROVE  AppInv'
  <2>1. UNCHANGED <<app, cancel>>
    BY <1>4 DEF StartSession, LookupReport, OpenConnection, Analyse, CloseConnection, DeliverCancel,
              OnTaskDone, Client, Receive, Poll, GetReport, ReadReport
  <2>2. Open(i) \/ Close(i) \/ ReadShared \/ UNCHANGED storeVars
    BY <1>4 DEF StartSession, LookupReport, OpenConnection, Analyse, CloseConnection, DeliverCancel,
              OnTaskDone, Client, Receive, Poll, GetReport, ReadReport
  <2>3. app # "down" \/ pc' = pc
    BY <1>4 DEF StartSession, LookupReport, OpenConnection, Analyse, CloseConnection, DeliverCancel,
              OnTaskDone, Client, Receive, Poll, GetReport, ReadReport, Runs, taskVars
  <2>4. QED
    BY <1>1, <1>2, <2>1, <2>2, <2>3, ClosedStays
<1>5. CASE CloseDb
  BY <1>1, <1>5 DEF CloseDb, Close, AppInv, StoreTypeOK
<1>6. CASE ClearDb \/ CancelSessions
  BY <1>1, <1>6 DEF taskVars, ClearDb, CancelSessions, AppInv, storeVars
<1>7. CASE Exit \/ Crash
  BY <1>1, <1>7 DEF Exit, Crash, Die, AppInv, HandlerAt, TaskAt, ClosingAt
<1>8. CASE Restart
  BY <1>1, <1>8 DEF Restart, AppInv
<1>9. CASE UNCHANGED vars
  BY <1>2, <1>9 DEF vars, storeVars, taskVars
<1>10. QED
  BY <1>3, <1>4, <1>5, <1>6, <1>7, <1>8, <1>9
  DEF Next, Handler, Task, MemoryNode, RepoCall, Lifespan

LEMMA NoFault == ASSUME MaxFaults = 0, TypeOK PROVE ~Fault
  BY DEF Fault, TypeOK

\* A step of one coroutine that leaves no lock without an owner.
LEMMA OwnerStep ==
  ASSUME LockHasOwner, NEW i \in Inv,
         \A j \in Inv \ {i} : pc'[j] = pc[j] /\ sent'[j] = sent[j] /\ inserted'[j] = inserted[j],
         \A c \in Conn : mode'[c] = "write" =>
           InTransaction(i, c)' \/ (mode[c] = "write" /\ ~InTransaction(i, c))
  PROVE  LockHasOwner'
<1>1. ASSUME NEW c \in Conn, mode'[c] = "write" PROVE \E j \in Inv : InTransaction(j, c)'
  <2>1. CASE InTransaction(i, c)'
    BY <2>1
  <2>2. CASE mode[c] = "write" /\ ~InTransaction(i, c)
    <3>1. PICK j \in Inv \ {i} : InTransaction(j, c)
      BY <2>2 DEF LockHasOwner
    <3>2. InTransaction(j, c)'
      BY <3>1 DEF InTransaction
    <3>3. QED
      BY <3>2
  <2>3. QED
    BY <1>1, <2>1, <2>2
<1>2. QED
  BY <1>1 DEF LockHasOwner

LEMMA CallOwnsLock ==
  ASSUME MaxFaults = 0, ServiceInv, LockHasOwner, NEW i \in Inv, RepoCall(i)
  PROVE  LockHasOwner'
<1>1. TypeOK /\ StoreInv /\ pc \in [Inv -> Labels]
  BY DEF ServiceInv, TypeOK
<1>2. PICK p \in Program, new \in Tables : RunsProgram(i, p, new)
  BY <1>1, RepoCallForm
<1> DEFINE c       == ConnOf(i, p[1])
           label   == p[1]
           next    == p[2]
           handler == p[3]
<1>3. c \in {i, Shared} /\ c \in Conn /\ i \in Conn /\ Shared # i
  BY SharedIsConn DEF ConnOf
<1>4. Call(i, c, label, new, next, handler)
  BY <1>2 DEF RunsProgram
<1>5. /\ label \in SharedCalls \cup OwnCalls
      /\ label \in SharedCalls => c = Shared
      /\ label \in OwnCalls => c = i
  BY ProgramStages DEF ConnOf, SharedCalls, OwnCalls
<1> HIDE DEF c, label, next, handler
<1>6. /\ OthersKeepTheirs(c)
      /\ pc[i] = label
      /\ UNCHANGED resultVars
      /\ \A j \in Inv \ {i} : sent'[j] = sent[j]
      /\ CallKinds(i, c, new, next, handler)
  BY <1>1, <1>3, <1>4, CallForm
<1>7. \A j \in Inv \ {i} : pc'[j] = pc[j] /\ sent'[j] = sent[j] /\ inserted'[j] = inserted[j]
  BY <1>1, <1>6 DEF CallKinds, resultVars
<1>8. \A d \in Conn : InTransaction(i, d) => d = c /\ sent[i]
  BY <1>3, <1>5, <1>6 DEF InTransaction, SharedCalls, OwnCalls, ClosingAt
<1>9. ASSUME NEW d \in Conn, mode'[d] = "write"
      PROVE  InTransaction(i, d)' \/ (mode[d] = "write" /\ ~InTransaction(i, d))
  <2>1. CASE ~sent[i] /\ sent'[i] /\ pc' = pc /\ Drafts(c, new)
    <3>1. d = c
      BY <1>9, <2>1 DEF Drafts
    <3>2. InTransaction(i, d)'
      BY <1>5, <1>6, <2>1, <3>1 DEF InTransaction, SharedCalls, OwnCalls
    <3>3. QED
      BY <3>2
  <2>2. CASE ~sent[i] /\ Rests
    BY <1>8, <1>9, <2>2 DEF Rests
  <2>3. CASE IF mode[c] = "write" THEN Publishes(c) ELSE Rests
    BY <1>8, <1>9, <2>3 DEF Rests, Publishes
  <2>4. CASE Rests /\ CommitRefused(c)
    BY <1>8, <1>9, <2>4 DEF Rests, CommitRefused
  <2>5. QED
    BY <1>1, <1>6, <2>1, <2>2, <2>3, <2>4, NoFault DEF CallKinds
<1>10. QED
  BY <1>7, <1>9, OwnerStep

LEMMA LockStep ==
  ASSUME MaxFaults = 0
  PROVE  ServiceInv /\ AppInv /\ LockHasOwner /\ [Next]_vars => LockHasOwner'
<1> SUFFICES ASSUME ServiceInv, AppInv, LockHasOwner, [Next]_vars PROVE LockHasOwner'
  OBVIOUS
<1>1. /\ StoreTypeOK /\ StoreInv /\ TypeOK
      /\ pc \in [Inv -> Labels] /\ sent \in [Inv -> BOOLEAN] /\ inserted \in [Inv -> 0..MaxFindings]
      /\ mode \in [Conn -> Modes]
      /\ Inv \subseteq Conn /\ Shared \in Conn /\ Shared \notin Inv
      /\ ~Fault
  BY SharedIsConn, NoFault DEF ServiceInv, TypeOK, StoreTypeOK
\* A step that changes no claim on the lock.
<1>2. ASSUME UNCHANGED <<taskVars, inserted>>, Rests
      PROVE  LockHasOwner'
  <2>1. \A c \in Conn, i \in Inv : InTransaction(i, c) => InTransaction(i, c)'
    BY <1>2 DEF InTransaction, taskVars
  <2>2. QED
    BY <1>2, <2>1 DEF LockHasOwner, Rests
\* A step of a coroutine that is not in a transaction.
<1>3. ASSUME NEW i \in Inv, NEW label, Rests, UNCHANGED <<sent, inserted>>,
             pc' = [pc EXCEPT ![i] = label],
             \A c \in Conn : mode[c] = "write" => ~InTransaction(i, c)
      PROVE  LockHasOwner'
  BY <1>1, <1>3, OwnerStep DEF Rests
<1>4. ASSUME NEW i \in Inv, InsertFinding(i) PROVE LockHasOwner'
  <2>1. CASE /\ Write(Shared, InsertEvidence(View(Shared), i))
             /\ inserted' = [inserted EXCEPT ![i] = @ + 1]
             /\ sent' = [sent EXCEPT ![i] = inserted[i] + 1 = findings[i]]
             /\ pc' = pc
    <3>1. /\ pc[i] = "evidence"
          /\ inserted'[i] > 0
          /\ \A j \in Inv \ {i} : sent'[j] = sent[j] /\ inserted'[j] = inserted[j]
      BY <1>1, <1>4, <2>1, ServiceAssumption DEF InsertFinding, Runs
    <3>2. InTransaction(i, Shared)'
      BY <2>1, <3>1 DEF InTransaction
    <3>3. \A c \in Conn : mode'[c] = "write" => c = Shared
      BY <1>1, <2>1 DEF Write, LockFree
    <3>4. QED
      BY <2>1, <3>1, <3>2, <3>3, OwnerStep
  <2>2. CASE WriteRefused(Shared) /\ Goto(i, "lookup") /\ UNCHANGED <<inserted, sent>>
    <3>1. Rests /\ mode[Shared] # "write"
      BY <1>1, <2>2, CommitBreaksKind DEF WriteRefused
    <3>2. \A c \in Conn : InTransaction(i, c) => c = Shared
      BY <1>4 DEF InsertFinding, Runs, InTransaction, ClosingAt
    <3>3. QED
      BY <1>3, <2>2, <3>1, <3>2 DEF Goto
  <2>3. QED
    BY <1>1, <1>4, <2>1, <2>2 DEF InsertFinding
<1>5. ASSUME NEW i \in Inv, CommitEvidence(i) PROVE LockHasOwner'
  <2>1. /\ IF mode[Shared] = "write" THEN Publishes(Shared) ELSE Rests
        /\ sent' = [sent EXCEPT ![i] = FALSE]
        /\ pc' = [pc EXCEPT ![i] = "lookup"]
        /\ inserted' = inserted
    <3>1. Commit(Shared) \/ CommitRefused(Shared)
      BY <1>1, <1>5 DEF CommitEvidence, CommitAndGet
    <3>2. CommitRefused(Shared) => mode[Shared] # "write"
      BY DEF CommitRefused
    <3>3. IF mode[Shared] = "write" THEN Publishes(Shared) ELSE Rests
      BY <1>1, <3>1, <3>2, CommitKind, CommitBreaksKind
    <3>4. QED
      BY <3>3, <1>5 DEF CommitEvidence, CommitAndGet, Goto
  <2>2. \A c \in Conn : InTransaction(i, c) => c = Shared
    BY <1>5 DEF CommitEvidence, Runs, InTransaction, ClosingAt
  <2>3. \A j \in Inv \ {i} : pc'[j] = pc[j] /\ sent'[j] = sent[j] /\ inserted'[j] = inserted[j]
    BY <1>1, <2>1
  <2>4. QED
    BY <1>1, <2>1, <2>2, <2>3, OwnerStep DEF Rests, Publishes
\* No coroutine is in a transaction at these labels.
<1>6. ASSUME NEW i \in Inv, StartSession(i) \/ LookupReport(i) \/ Receive(i)
      PROVE  LockHasOwner'
  <2>1. Rests /\ UNCHANGED <<sent, inserted>>
    BY <1>1, <1>6, QuietStoreStep DEF StartSession, LookupReport, Receive, resultVars
  <2>2. \E label : pc' = [pc EXCEPT ![i] = label]
    BY <1>6 DEF StartSession, LookupReport, Receive, Goto
  <2>3. \A c \in Conn : ~InTransaction(i, c)
    BY <1>6 DEF StartSession, LookupReport, Receive, Runs, InTransaction, ClosingAt
  <2>4. QED
    BY <1>3, <2>1, <2>2, <2>3
<1>7. ASSUME NEW i \in Inv, OpenConnection(i) \/ Analyse(i)
      PROVE  LockHasOwner'
  <2>1. Rests /\ UNCHANGED <<sent, inserted>>
    BY <1>1, <1>7, QuietStoreStep DEF OpenConnection, Analyse, resultVars
  <2>2. \E label : pc' = [pc EXCEPT ![i] = label]
    BY <1>7 DEF OpenConnection, Analyse, Goto
  <2>3. \A c \in Conn : ~InTransaction(i, c)
    BY <1>7 DEF OpenConnection, Analyse, Runs, InTransaction, ClosingAt
  <2>4. QED
    BY <1>3, <2>1, <2>2, <2>3
<1>8. ASSUME NEW i \in Inv, CloseConnection(i) PROVE LockHasOwner'
  <2>1. Close(i) /\ Rests /\ UNCHANGED <<sent, inserted>> /\ OthersKeepTheirs(i)
    BY <1>1, <1>8, QuietStoreStep DEF CloseConnection, resultVars
  <2>2. \E label : pc' = [pc EXCEPT ![i] = label]
    BY <1>8 DEF CloseConnection, Goto
  <2>3. \A c \in Conn : InTransaction(i, c) => c = i
    BY <1>8 DEF CloseConnection, InTransaction, ClosingAt
  <2>4. mode'[i] # "write"
    BY <1>1, <2>1 DEF Close
  <2>5. \A j \in Inv \ {i} : pc'[j] = pc[j] /\ sent'[j] = sent[j] /\ inserted'[j] = inserted[j]
    BY <1>1, <2>1, <2>2
  <2>6. QED
    BY <2>1, <2>3, <2>4, <2>5, OwnerStep DEF Rests
\* The shared connection is closed when a task is cancelled, and the finally
\* clause closes its own.
<1>9. ASSUME NEW i \in Inv, DeliverCancel(i) PROVE LockHasOwner'
  <2>1. mode[Shared] = "closed"
    BY <1>9 DEF DeliverCancel, AppInv
  <2>2. /\ Rests
        /\ \A j \in Inv \ {i} : pc'[j] = pc[j] /\ sent'[j] = sent[j] /\ inserted'[j] = inserted[j]
    BY <1>1, <1>9, QuietStoreStep DEF DeliverCancel, Goto, resultVars
  <2>3. ASSUME NEW c \in Conn, mode[c] = "write", InTransaction(i, c) PROVE InTransaction(i, c)'
    <3>1. c = i
      BY <2>1, <2>3 DEF InTransaction
    <3>2. pc[i] # "open"
      BY <1>1, <2>3, <3>1 DEF InTransaction, ClosingAt
    <3>3. pc'[i] = "closeCancelled"
      BY <1>1, <1>9, <3>2 DEF DeliverCancel, Goto
    <3>4. QED
      BY <3>1, <3>3 DEF InTransaction, ClosingAt
  <2>4. QED
    BY <2>2, <2>3, OwnerStep DEF Rests
<1>10. ASSUME NEW i \in Inv, OnTaskDone(i) \/ Poll(i) \/ GetReport(i) \/ ReadReport(i)
       PROVE  LockHasOwner'
  <2>1. Rests /\ UNCHANGED <<taskVars, inserted>>
    BY <1>1, <1>10, QuietStoreStep DEF OnTaskDone, Poll, GetReport, ReadReport, resultVars
  <2>2. QED
    BY <1>2, <2>1
<1>11. CASE CloseDb \/ ClearDb \/ CancelSessions \/ UNCHANGED vars
  <2>1. Rests /\ UNCHANGED <<taskVars, inserted>>
    BY <1>1, <1>11, QuietStoreStep DEF CloseDb, ClearDb, CancelSessions, resultVars, vars
  <2>2. QED
    BY <1>2, <2>1
<1>12. CASE Restart
  <2>1. Rests /\ UNCHANGED <<taskVars, inserted>>
    BY <1>1, <1>12 DEF Restart, Rests, resultVars
  <2>2. QED
    BY <1>2, <2>1
<1>13. CASE Exit \/ Crash
  BY <1>13 DEF Exit, Crash, Die, LockHasOwner
<1>14. QED
  BY <1>4, <1>5, <1>6, <1>7, <1>8, <1>9, <1>10, <1>11, <1>12, <1>13, CallOwnsLock
  DEF Next, Handler, Task, MemoryNode, RepoCall, Client, Lifespan

\* Whoever holds the write lock of the database is on its way to a commit or
\* a close, so a wait for the lock is never a wait for nobody: on the shared
\* connection several coroutines may own it together, and a cancelled task
\* keeps it only until its finally clause.
THEOREM LockIsOwned == ASSUME MaxFaults = 0 PROVE Spec => []LockHasOwner
<1>1. Init => AppInv /\ LockHasOwner
  BY SharedIsConn DEF Init, StoreInit, AppInv, LockHasOwner
<1>2. ServiceInv /\ AppInv /\ LockHasOwner /\ [Next]_vars => AppInv' /\ LockHasOwner'
  BY AppStep, LockStep
<1>3. QED
  BY <1>1, <1>2, InitInv, NextKeepsInv, PTL DEF Spec

-------------------------------------------------------------------------------
(* Evidence and reports *)

\* What the task knows of its batch: it counts only what it inserted in full.
CountInv ==
  \A i \in Inv :
    /\ pc[i] \in BeforeFindings \cup {"evidence"} => ~counted[i]
    /\ (pc[i] = "evidence" /\ sent[i]) \/ counted[i] => inserted[i] = findings[i]

\* Both tables are written on the shared connection only; a row of either
\* that is or may be committed agrees with what its coroutine has done, and
\* what the shared connection may commit holds every finding inserted so far.
SameFindings(t, u) == t.evidence = u.evidence /\ t.reports = u.reports

OthersWriteRows == \A i \in Inv : mode[i] = "write" => SameFindings(work, db)

FindingsFit ==
  \A t \in Live, i \in Inv :
    /\ t.reports[i] > 0 => t.evidence[i] = t.reports[i]
    /\ pc[i] \in BeforeFindings => t.evidence[i] = 0
    /\ pc[i] \in BeforeFindings \cup {"evidence"} => t.reports[i] = NoReport

SharedHasFindings ==
  \A i \in Inv : pc[i] \in {"evidence", "lookup", "report"} /\ mode[Shared] # "closed" =>
    Committed(Shared).evidence[i] = inserted[i]

EvidenceInv == OthersWriteRows /\ FindingsFit /\ SharedHasFindings

LEMMA CountStep == ServiceInv /\ CountInv /\ [Next]_vars => CountInv'
<1> SUFFICES ASSUME ServiceInv, CountInv, [Next]_vars PROVE CountInv'
  OBVIOUS
<1>1. /\ pc \in [Inv -> Labels] /\ sent \in [Inv -> BOOLEAN] /\ counted \in [Inv -> BOOLEAN]
      /\ inserted \in [Inv -> 0..MaxFindings] /\ findings \in [Inv -> 0..MaxFindings]
  BY DEF ServiceInv, TypeOK
<1>2. ASSUME NEW i \in Inv, NEW label, pc' = [pc EXCEPT ![i] = label],
             UNCHANGED <<counted, inserted, findings>>,
             label # "evidence", label \in BeforeFindings => pc[i] \in BeforeFindings,
             \A j \in Inv \ {i} : sent'[j] = sent[j]
      PROVE  CountInv'
  <2>1. pc'[i] = label /\ \A j \in Inv \ {i} : pc'[j] = pc[j]
    BY <1>1, <1>2
  <2>2. QED
    BY <1>2, <2>1 DEF CountInv
<1>3. ASSUME NEW i \in Inv, RepoCall(i) PROVE CountInv'
  <2>1. PICK p \in Program, new \in Tables : RunsProgram(i, p, new)
    BY <1>3, RepoCallForm DEF ServiceInv
  <2> DEFINE c == ConnOf(i, p[1])
  <2>2. c \in Conn /\ Call(i, c, p[1], new, p[2], p[3])
    BY <2>1, SharedIsConn DEF RunsProgram, ConnOf
  <2>3. /\ p[1] \in SharedCalls \cup OwnCalls
        /\ {p[1], p[2], p[3]} \subseteq Labels \ {"evidence", "ok"}
        /\ p[2] \in BeforeFindings => p[1] \in BeforeFindings
        /\ p[3] \in BeforeFindings => p[1] \in BeforeFindings
    BY ProgramStages
  <2> HIDE DEF c
  <2>4. /\ pc[i] = p[1]
        /\ UNCHANGED <<counted, inserted, findings>>
        /\ \A j \in Inv \ {i} : sent'[j] = sent[j]
        /\ CallKinds(i, c, new, p[2], p[3])
    BY <2>2, CallForm DEF ServiceInv, resultVars
  <2>5. pc' = [pc EXCEPT ![i] = p[1]] \/ pc' = [pc EXCEPT ![i] = p[2]] \/ pc' = [pc EXCEPT ![i] = p[3]]
    BY <1>1, <2>4 DEF CallKinds
  <2>6. QED
    BY <1>2, <2>3, <2>4, <2>5
<1>4. ASSUME NEW i \in Inv, InsertFinding(i) PROVE CountInv'
  <2>1. /\ pc[i] = "evidence" /\ ~counted[i]
        /\ UNCHANGED <<counted, findings>>
    BY <1>4 DEF InsertFinding, Runs, CountInv
  <2>2. CASE /\ inserted' = [inserted EXCEPT ![i] = @ + 1]
             /\ sent' = [sent EXCEPT ![i] = inserted[i] + 1 = findings[i]]
             /\ pc' = pc
    <3>1. /\ inserted'[i] = inserted[i] + 1
          /\ sent'[i] = (inserted[i] + 1 = findings[i])
          /\ \A j \in Inv \ {i} : inserted'[j] = inserted[j] /\ sent'[j] = sent[j]
      BY <1>1, <2>2
    <3>2. sent'[i] => inserted'[i] = findings'[i]
      BY <2>1, <3>1
    <3>3. QED
      BY <2>1, <2>2, <3>1, <3>2 DEF CountInv, BeforeFindings
  <2>3. CASE pc' = [pc EXCEPT ![i] = "lookup"] /\ UNCHANGED <<inserted, sent>>
    BY <1>2, <2>1, <2>3 DEF BeforeFindings
  <2>4. QED
    BY <1>4, <2>2, <2>3 DEF InsertFinding, Goto
<1>5. ASSUME NEW i \in Inv, CommitEvidence(i) PROVE CountInv'
  <2>1. /\ pc[i] = "evidence" /\ sent[i]
        /\ pc' = [pc EXCEPT ![i] = "lookup"]
        /\ sent' = [sent EXCEPT ![i] = FALSE]
        /\ UNCHANGED <<findings, inserted>>
    BY <1>5 DEF CommitEvidence, Runs, CommitAndGet, Goto
  <2>2. \A j \in Inv \ {i} : sent'[j] = sent[j] /\ counted'[j] = counted[j] /\ pc'[j] = pc[j]
    BY <1>1, <1>5, <2>1 DEF CommitEvidence
  <2>3. pc'[i] = "lookup" /\ inserted[i] = findings[i]
    BY <1>1, <2>1 DEF CountInv
  <2>4. QED
    BY <2>1, <2>2, <2>3 DEF CountInv, BeforeFindings
<1>6. ASSUME NEW i \in Inv, Analyse(i) PROVE CountInv'
  <2>1. /\ pc[i] = "graph" /\ ~counted[i] /\ ~sent[i]
        /\ UNCHANGED <<sent, counted, inserted>>
    BY <1>6, NotSent DEF Analyse, Runs, CountInv, BeforeFindings, SharedCalls, OwnCalls
  <2>2. \A j \in Inv \ {i} : findings'[j] = findings[j] /\ pc'[j] = pc[j]
    BY <1>1, <1>6 DEF Analyse, Goto
  <2>3. QED
    BY <2>1, <2>2 DEF CountInv
<1>7. ASSUME NEW i \in Inv, StartSession(i) \/ LookupReport(i) \/ Receive(i) \/ OpenConnection(i)
      PROVE  CountInv'
  <2>1. UNCHANGED <<sent, counted, inserted, findings>>
    BY <1>7 DEF StartSession, LookupReport, Receive, OpenConnection, resultVars
  <2>2. \E label : /\ pc' = [pc EXCEPT ![i] = label] /\ label # "evidence"
                   /\ label \in BeforeFindings => pc[i] \in BeforeFindings
    BY <1>7 DEF StartSession, LookupReport, Receive, OpenConnection, Goto, Runs, BeforeFindings
  <2>3. QED
    BY <1>2, <2>1, <2>2
<1>8. ASSUME NEW i \in Inv, CloseConnection(i) PROVE CountInv'
  <2>1. \E label \in Ended : pc' = [pc EXCEPT ![i] = label]
    BY <1>8 DEF CloseConnection, Goto, ClosingAt, Ended
  <2>2. QED
    BY <1>2, <1>8, <2>1 DEF CloseConnection, Ended, BeforeFindings, resultVars
<1>9. ASSUME NEW i \in Inv, DeliverCancel(i) PROVE CountInv'
  <2>1. \E label \in {"cancelled", "closeCancelled"} : pc' = [pc EXCEPT ![i] = label]
    BY <1>9 DEF DeliverCancel, Goto
  <2>2. \A j \in Inv \ {i} : sent'[j] = sent[j]
    BY <1>1, <1>9 DEF DeliverCancel
  <2>3. QED
    BY <1>2, <1>9, <2>1, <2>2 DEF DeliverCancel, BeforeFindings, resultVars
<1>10. ASSUME UNCHANGED <<taskVars, resultVars>> PROVE CountInv'
  BY <1>10 DEF CountInv, taskVars, resultVars
<1>11. ASSUME Die PROVE CountInv'
  <2>1. \A i \in Inv : pc'[i] = "lost" \/ pc'[i] = pc[i]
    BY <1>11 DEF Die
  <2>2. UNCHANGED resultVars /\ \A i \in Inv : ~sent'[i]
    BY <1>11 DEF Die
  <2>3. QED
    BY <2>1, <2>2 DEF CountInv, BeforeFindings, resultVars
<1>12. QED
  BY <1>3, <1>4, <1>5, <1>6, <1>7, <1>8, <1>9, <1>10, <1>11
  DEF Next, Handler, Task, MemoryNode, RepoCall, Client, Lifespan, OnTaskDone, Poll, GetReport,
      ReadReport, CloseDb, ClearDb, CancelSessions, Exit, Crash, Restart, vars

\* A step that adds no row to either table, nor takes any from what the shared
\* connection may commit.
Settles ==
  /\ OthersWriteRows'
  /\ \A t \in Live' : \E u \in Live : SameFindings(t, u)
  /\ mode'[Shared] # "closed" => /\ mode[Shared] # "closed"
                                 /\ Committed(Shared)'.evidence = Committed(Shared).evidence

\* Where no failure rolls a transaction back, only a new row unsettles them.
LEMMA StoreSettles ==
  ASSUME ~Rollbacks, StoreTypeOK, StoreInv, OthersWriteRows, NEW c \in Conn, NEW new,
         \/ StatementStep(c, new) /\ (Write(c, new) => SameFindings(new, View(c)))
         \/ c # Shared /\ Open(c)
         \/ Close(c) \/ ReadShared \/ UNCHANGED storeVars
  PROVE  Settles
<1> USE SharedIsConn DEF StoreTypeOK
<1>1. ASSUME db' = db, \A d \in Conn : mode'[d] = "write" => mode[d] = "write" /\ work' = work,
             mode'[Shared] # "closed" => mode[Shared] # "closed" /\ (mode[Shared] = "write" <=> mode'[Shared] = "write")
      PROVE  Settles
  <2>1. OthersWriteRows'
    BY <1>1 DEF OthersWriteRows
  <2>2. \A t \in Live' : t \in Live
    BY <1>1 DEF Live
  <2>3. mode'[Shared] # "closed" => Committed(Shared)' = Committed(Shared)
    BY <1>1 DEF Committed
  <2>4. QED
    BY <1>1, <2>1, <2>2, <2>3 DEF Settles, SameFindings
<1>2. ASSUME Drafts(c, new), mode[c] # "closed", mode'[Shared] = "closed" <=> mode[Shared] = "closed",
             SameFindings(new, Committed(c))
      PROVE  Settles
  <2>1. OthersWriteRows'
    BY <1>2 DEF Drafts, OthersWriteRows, SameFindings, Committed
  <2>2. \A t \in Live' : t = db \/ t = new
    BY <1>2 DEF Live, Drafts
  <2>3. db \in Live /\ Committed(c) \in Live
    BY CommittedIsLive DEF Live
  <2>4. \A t \in Live' : \E u \in Live : SameFindings(t, u)
    BY <1>2, <2>2, <2>3 DEF SameFindings
  <2>5. Committed(Shared)'.evidence = Committed(Shared).evidence
    <3>1. CASE c = Shared
      BY <1>2, <3>1 DEF Drafts, Committed, SameFindings
    <3>2. CASE c # Shared
      BY <1>2, <3>2 DEF Drafts, Committed, LockFree
    <3>3. QED
      BY <3>1, <3>2
  <2>6. QED
    BY <1>2, <2>1, <2>4, <2>5 DEF Settles
<1>3. CASE Write(c, new) /\ SameFindings(new, View(c))
  <2>1. View(c) = Committed(c)
    BY <1>3, FreshView DEF Write
  <2>2. Drafts(c, new)
    BY <1>3 DEF Write, Drafts, LockFree
  <2>3. QED
    BY <1>2, <1>3, <2>1, <2>2 DEF Write
<1>4. CASE WriteBreaks(c)
  <2>1. Drafts(c, Committed(c))
    BY <1>4, FreshView DEF WriteBreaks, Drafts, LockFree
  <2>2. mode' = [mode EXCEPT ![c] = "write"] /\ mode[c] # "closed"
    BY <1>4 DEF WriteBreaks
  <2>3. /\ work' = Committed(c) /\ db' = db
        /\ \A d \in Conn : mode'[d] = "write" <=> d = c
        /\ LockFree(c)
    BY <2>1 DEF Drafts
  <2>4. OthersWriteRows'
    BY <2>3 DEF OthersWriteRows, SameFindings, Committed
  <2>5. Live' \subseteq Live
    BY <2>1, LiveStays
  <2>6. Committed(Shared)' = Committed(Shared)
    BY <2>3 DEF Committed, LockFree
  <2>7. QED
    BY <2>2, <2>4, <2>5, <2>6 DEF Settles, SameFindings
<1>5. CASE Commit(c) /\ mode[c] = "write"
  <2>1. /\ db' = work
        /\ \A d \in Conn : mode'[d] # "write"
        /\ mode'[Shared] # "closed" => mode[Shared] # "closed"
    BY <1>5, CommitKind DEF Commit, Publishes
  <2>2. Live' = {work} /\ work \in Live
    BY <1>5, <2>1 DEF Live
  <2>3. Committed(Shared)'.evidence = Committed(Shared).evidence
    BY <1>5, <2>1 DEF Committed, OthersWriteRows, SameFindings, StoreInv, Conn
  <2>4. QED
    BY <1>5, <2>1, <2>2, <2>3 DEF Settles, SameFindings, OthersWriteRows, Commit
<1>6. CASE Commit(c) /\ mode[c] # "write"
  <2>1. mode' = [mode EXCEPT ![c] = "auto"] /\ db' = db /\ work' = work /\ mode[c] # "closed"
    BY <1>6 DEF Commit, Committed, DropWork
  <2>2. QED
    BY <1>1, <1>6, <2>1
<1>7. CASE WriteRefused(c)
  BY <1>1, <1>7 DEF WriteRefused
<1>8. CASE CommitRefused(c) \/ CommitBreaks(c) \/ UNCHANGED storeVars
  BY <1>1, <1>8 DEF CommitRefused, CommitBreaks, storeVars
<1>9. CASE Close(c)
  BY <1>1, <1>9 DEF Close, DropWork, StoreInv
<1>10. CASE c # Shared /\ Open(c)
  BY <1>1, <1>10 DEF Open
<1>11. CASE ReadShared
  BY <1>1, <1>11 DEF ReadShared
<1>12. QED
  BY <1>3, <1>4, <1>5, <1>6, <1>7, <1>8, <1>9, <1>10, <1>11 DEF StatementStep

\* A settled step of one coroutine, to a label that claims no more than before.
LEMMA SettledStep ==
  ASSUME EvidenceInv, Settles, pc \in [Inv -> Labels], NEW i \in Inv, NEW label,
         pc' = [pc EXCEPT ![i] = label], inserted' = inserted,
         label \in BeforeFindings => pc[i] \in BeforeFindings,
         label = "evidence" => pc[i] \in BeforeFindings \cup {"evidence"},
         label \in {"evidence", "lookup", "report"} =>
           pc[i] \in {"evidence", "lookup", "report"} \/ (pc[i] \in BeforeFindings /\ inserted[i] = 0)
  PROVE  EvidenceInv'
<1>1. pc'[i] = label /\ \A j \in Inv \ {i} : pc'[j] = pc[j]
  OBVIOUS
<1>2. FindingsFit'
  <2>1. ASSUME NEW t \in Live', NEW j \in Inv
        PROVE  /\ t.reports[j] > 0 => t.evidence[j] = t.reports[j]
               /\ pc'[j] \in BeforeFindings => t.evidence[j] = 0
               /\ pc'[j] \in BeforeFindings \cup {"evidence"} => t.reports[j] = NoReport
    <3>1. PICK u \in Live : t.evidence = u.evidence /\ t.reports = u.reports
      BY DEF Settles, SameFindings
    <3>2. /\ pc'[j] \in BeforeFindings => pc[j] \in BeforeFindings
          /\ pc'[j] \in BeforeFindings \cup {"evidence"} => pc[j] \in BeforeFindings \cup {"evidence"}
      BY <1>1
    <3>3. QED
      BY <3>1, <3>2 DEF EvidenceInv, FindingsFit
  <2>2. QED
    BY <2>1 DEF FindingsFit
<1>3. SharedHasFindings'
  <2>1. ASSUME NEW j \in Inv, pc'[j] \in {"evidence", "lookup", "report"}, mode'[Shared] # "closed"
        PROVE  Committed(Shared)'.evidence[j] = inserted'[j]
    <3>1. mode[Shared] # "closed" /\ Committed(Shared)'.evidence = Committed(Shared).evidence
      BY <2>1 DEF Settles
    <3>2. CASE pc[j] \in {"evidence", "lookup", "report"}
      BY <3>1, <3>2 DEF EvidenceInv, SharedHasFindings
    <3>3. CASE pc[j] \in BeforeFindings /\ inserted[j] = 0
      BY <3>1, <3>3, SharedIsConn, CommittedIsLive DEF EvidenceInv, FindingsFit
    <3>4. QED
      BY <1>1, <2>1, <3>2, <3>3
  <2>2. QED
    BY <2>1 DEF SharedHasFindings
<1>4. QED
  BY <1>2, <1>3 DEF EvidenceInv, Settles

\* The INSERT of a finding, or of the report.
LEMMA FindingWritten ==
  ASSUME EvidenceInv, StoreTypeOK, NEW i \in Inv, NEW new \in Tables, Drafts(Shared, new),
         pc[i] \in {"evidence", "report"}, pc' = pc,
         \A j \in Inv \ {i} : /\ new.evidence[j] = Committed(Shared).evidence[j]
                              /\ new.reports[j] = Committed(Shared).reports[j]
                              /\ inserted'[j] = inserted[j],
         pc[i] = "evidence" => new.reports[i] = Committed(Shared).reports[i],
         new.reports[i] > 0 => new.evidence[i] = new.reports[i],
         new.evidence[i] = inserted'[i], mode[Shared] # "closed"
  PROVE  EvidenceInv'
<1>1. Live' \subseteq Live \cup {new} /\ Committed(Shared) \in Live /\ Shared \in Conn
  BY SharedIsConn, LiveDraft, CommittedIsLive
<1>2. OthersWriteRows'
  BY SharedIsConn DEF Drafts, OthersWriteRows
<1>3. FindingsFit'
  <2>1. ASSUME NEW t \in Live \cup {new}, NEW j \in Inv
        PROVE  /\ t.reports[j] > 0 => t.evidence[j] = t.reports[j]
               /\ pc[j] \in BeforeFindings => t.evidence[j] = 0
               /\ pc[j] \in BeforeFindings \cup {"evidence"} => t.reports[j] = NoReport
    <3>1. CASE t \in Live
      BY <3>1 DEF EvidenceInv, FindingsFit
    <3>2. CASE t = new /\ j # i
      BY <1>1, <3>2 DEF EvidenceInv, FindingsFit
    <3>3. CASE t = new /\ j = i
      BY <1>1, <3>3 DEF EvidenceInv, FindingsFit, BeforeFindings
    <3>4. QED
      BY <3>1, <3>2, <3>3
  <2>2. QED
    BY <1>1, <2>1 DEF FindingsFit
<1>4. SharedHasFindings'
  <2>1. Committed(Shared)' = new
    BY <1>1 DEF Drafts, Committed
  <2>2. QED
    BY <2>1 DEF EvidenceInv, SharedHasFindings
<1>5. QED
  BY <1>2, <1>3, <1>4 DEF EvidenceInv

LEMMA EvidenceStep ==
  ASSUME ~Rollbacks
  PROVE  ServiceInv /\ AppInv /\ CountInv /\ EvidenceInv /\ [Next]_vars => EvidenceInv'
<1> SUFFICES ASSUME ServiceInv, AppInv, CountInv, EvidenceInv, [Next]_vars PROVE EvidenceInv'
  OBVIOUS
<1>1. /\ StoreTypeOK /\ StoreInv /\ TypeOK /\ OthersWriteRows
      /\ pc \in [Inv -> Labels] /\ inserted \in [Inv -> 0..MaxFindings]
      /\ Inv \subseteq Conn /\ Shared \in Conn /\ Shared \notin Inv
  BY SharedIsConn DEF ServiceInv, TypeOK, EvidenceInv
<1>2. ASSUME NEW i \in Inv, RepoCall(i) PROVE EvidenceInv'
  <2>1. PICK p \in Program, new \in Tables : RunsProgram(i, p, new)
    BY <1>1, <1>2, RepoCallForm
  <2> DEFINE c == ConnOf(i, p[1])
  <2>2. /\ c \in Conn /\ Call(i, c, p[1], new, p[2], p[3])
        /\ p[1] = "report" => c = Shared
        /\ Works(i, p[1], View(c), new)
    BY <1>1, <2>1 DEF RunsProgram, ConnOf, SharedCalls
  <2>3. /\ p[1] \in SharedCalls \cup OwnCalls
        /\ {p[1], p[2], p[3]} \subseteq Labels \ {"evidence", "ok"}
        /\ p[2] \in BeforeFindings => p[1] \in BeforeFindings
        /\ p[3] \in BeforeFindings => p[1] \in BeforeFindings
        /\ {p[2], p[3]} \cap {"evidence", "lookup", "report"} = {}
    BY ProgramStages DEF Program
  <2> HIDE DEF c
  <2>4. /\ pc[i] = p[1]
        /\ UNCHANGED resultVars
        /\ CallKinds(i, c, new, p[2], p[3])
    BY <1>1, <2>2, CallForm
  <2>5. \/ pc' = pc /\ Write(c, new) /\ Drafts(c, new)
        \/ /\ pc' = [pc EXCEPT ![i] = p[2]] \/ pc' = [pc EXCEPT ![i] = p[3]]
           /\ StatementStep(c, View(c))
    BY <2>4 DEF CallKinds, StatementStep
  <2>6. CASE pc' = pc /\ Write(c, new) /\ SameFindings(new, View(c))
    <3>1. Settles
      BY <1>1, <2>2, <2>6, StoreSettles DEF StatementStep
    <3>2. pc' = [pc EXCEPT ![i] = p[1]]
      BY <1>1, <2>4, <2>6
    <3>3. QED
      BY <1>1, <2>3, <2>4, <3>1, <3>2, SettledStep DEF resultVars
  <2>7. CASE StatementStep(c, View(c)) /\ (pc' = [pc EXCEPT ![i] = p[2]] \/ pc' = [pc EXCEPT ![i] = p[3]])
    <3>1. Settles
      BY <1>1, <2>2, <2>7, StoreSettles DEF SameFindings
    <3>2. QED
      BY <1>1, <2>3, <2>4, <2>7, <3>1, SettledStep DEF resultVars
  <2>8. CASE pc' = pc /\ Write(c, new) /\ Drafts(c, new) /\ ~SameFindings(new, View(c))
    <3>1. /\ p[1] = "report" /\ c = Shared
          /\ new.evidence = View(c).evidence
          /\ new.reports = [View(c).reports EXCEPT ![i] = IF counted[i] THEN findings[i] ELSE 0]
      BY <2>2, <2>8 DEF Works, SameFindings
    <3>2. View(Shared) = Committed(Shared) /\ mode[Shared] # "closed" /\ Committed(Shared) \in Tables
      BY <1>1, <2>8, <3>1, FreshView DEF Write, Committed, StoreTypeOK
    <3>3. new.evidence[i] = inserted[i]
      BY <2>4, <3>1, <3>2 DEF EvidenceInv, SharedHasFindings
    <3>4. /\ new.reports[i] = IF counted[i] THEN findings[i] ELSE 0
          /\ \A j \in Inv \ {i} : new.reports[j] = Committed(Shared).reports[j]
      BY <3>1, <3>2 DEF Tables
    <3>5. counted[i] => inserted[i] = findings[i]
      BY DEF CountInv
    <3>6. new.reports[i] > 0 => new.evidence[i] = new.reports[i]
      BY <3>3, <3>4, <3>5
    <3>7. QED
      BY <1>1, <2>4, <2>8, <3>1, <3>2, <3>3, <3>4, <3>6, FindingWritten DEF resultVars
  <2>9. QED
    BY <2>5, <2>6, <2>7, <2>8
<1>3. ASSUME NEW i \in Inv, InsertFinding(i) PROVE EvidenceInv'
  <2> DEFINE new == InsertEvidence(View(Shared), i)
  <2>1. /\ pc[i] = "evidence"
        /\ View(Shared) \in Tables
    BY <1>1, <1>3, ViewType DEF InsertFinding, Runs
  <2>2. /\ new \in Tables
        /\ new.reports = View(Shared).reports
        /\ new.evidence = [View(Shared).evidence EXCEPT ![i] = @ + 1]
    BY <2>1, InsertEvidenceEffect
  <2>3. CASE Write(Shared, new) /\ pc' = pc /\ inserted' = [inserted EXCEPT ![i] = @ + 1]
    <3>1. Drafts(Shared, new)
      BY <1>1, <2>2, <2>3, WriteKind
    <3> HIDE DEF new
    <3>2. View(Shared) = Committed(Shared) /\ mode[Shared] # "closed" /\ Committed(Shared) \in Live
      BY <1>1, <2>3, FreshView, CommittedIsLive DEF Write
    <3>3. /\ inserted'[i] = inserted[i] + 1
          /\ \A j \in Inv \ {i} : inserted'[j] = inserted[j]
      BY <1>1, <2>3
    <3>4. Committed(Shared).evidence[i] = inserted[i] /\ Committed(Shared).reports[i] = NoReport
      BY <2>1, <3>2 DEF EvidenceInv, SharedHasFindings, FindingsFit
    <3>5. /\ new.evidence[i] = Committed(Shared).evidence[i] + 1
          /\ \A j \in Inv \ {i} : new.evidence[j] = Committed(Shared).evidence[j]
      BY <2>1, <2>2, <3>2 DEF Tables
    <3>6. new.reports[i] = NoReport /\ ~(NoReport > 0)
      BY <2>2, <3>2, <3>4 DEF NoReport
    <3>7. QED
      BY <1>1, <2>1, <2>2, <2>3, <3>1, <3>2, <3>3, <3>4, <3>5, <3>6, FindingWritten
  <2>4. CASE StatementStep(Shared, View(Shared)) /\ pc' = [pc EXCEPT ![i] = "lookup"] /\ inserted' = inserted
    <3>1. Settles
      BY <1>1, <2>4, StoreSettles DEF SameFindings
    <3>2. QED
      BY <1>1, <2>1, <2>4, <3>1, SettledStep DEF BeforeFindings
  <2>5. QED
    BY <1>3, <2>3, <2>4 DEF InsertFinding, Goto, StatementStep
<1>4. ASSUME NEW i \in Inv, CommitEvidence(i) PROVE EvidenceInv'
  <2>1. /\ pc[i] = "evidence" /\ pc' = [pc EXCEPT ![i] = "lookup"] /\ inserted' = inserted
        /\ StatementStep(Shared, View(Shared))
    BY <1>4 DEF CommitEvidence, Runs, CommitAndGet, Goto, StatementStep
  <2>2. Settles
    BY <1>1, <2>1, StoreSettles DEF SameFindings
  <2>3. QED
    BY <1>1, <2>1, <2>2, SettledStep DEF BeforeFindings
<1>5. ASSUME NEW i \in Inv,
             StartSession(i) \/ LookupReport(i) \/ OpenConnection(i) \/ Analyse(i)
               \/ CloseConnection(i) \/ DeliverCancel(i) \/ Receive(i)
      PROVE  EvidenceInv'
  <2>1. Open(i) \/ Close(i) \/ ReadShared \/ UNCHANGED storeVars
    BY <1>5 DEF StartSession, LookupReport, OpenConnection, Analyse, CloseConnection, DeliverCancel, Receive
  <2>2. Settles
    <3>1. i \in Conn /\ i # Shared
      BY <1>1
    <3>2. QED
      BY <1>1, <2>1, <3>1, StoreSettles
  <2>3. inserted' = inserted
    BY <1>5 DEF StartSession, LookupReport, OpenConnection, Analyse, CloseConnection, DeliverCancel,
                Receive, resultVars
  <2>4. CASE LookupReport(i)
    BY <1>1, <2>2, <2>3, <2>4, SettledStep DEF LookupReport, Runs, Goto, BeforeFindings
  <2>5. CASE Analyse(i)
    <3>1. pc[i] = "graph" /\ inserted[i] = 0 /\ pc[i] \in BeforeFindings
      BY <2>5 DEF Analyse, Runs, ServiceInv, FindingsInv, BeforeFindings
    <3>2. \E label \in {"lookup", "evidence", "failing"} : pc' = [pc EXCEPT ![i] = label]
      BY <2>5 DEF Analyse, Goto
    <3>3. QED
      BY <1>1, <2>2, <2>3, <3>1, <3>2, SettledStep DEF BeforeFindings
  <2>6. CASE StartSession(i) \/ OpenConnection(i) \/ Receive(i)
    <3>1. pc[i] \in BeforeFindings
      BY <2>6 DEF StartSession, OpenConnection, Receive, Runs, BeforeFindings
    <3>2. \E label \in {"insert", "open", "running", "ok"} : pc' = [pc EXCEPT ![i] = label]
      BY <2>6 DEF StartSession, OpenConnection, Receive, Goto
    <3>3. QED
      BY <1>1, <2>2, <2>3, <3>1, <3>2, SettledStep
  <2>7. CASE CloseConnection(i) \/ DeliverCancel(i)
    <3>1. \E label \in {"ok", "raised", "cancelled", "closeCancelled"} : pc' = [pc EXCEPT ![i] = label]
      BY <2>7 DEF CloseConnection, DeliverCancel, ClosingAt, Goto
    <3>2. QED
      BY <1>1, <2>2, <2>3, <3>1, SettledStep DEF BeforeFindings
  <2>8. QED
    BY <1>5, <2>4, <2>5, <2>6, <2>7
<1>6. ASSUME NEW c \in Conn, Close(c) \/ ReadShared \/ UNCHANGED storeVars, UNCHANGED <<pc, inserted>>
      PROVE  EvidenceInv'
  <2>1. Settles
    BY <1>1, <1>6, StoreSettles
  <2>2. QED
    <3>1. CASE Inv = {}
      BY <2>1, <3>1 DEF EvidenceInv, Settles, FindingsFit, SharedHasFindings
    <3>2. ASSUME NEW i \in Inv PROVE EvidenceInv'
      <4>1. pc' = [pc EXCEPT ![i] = pc[i]]
        BY <1>1, <1>6
      <4>2. QED
        BY <1>1, <1>6, <2>1, <4>1, SettledStep
    <3>3. QED
      BY <3>1, <3>2
<1>7. ASSUME NEW i \in Inv, OnTaskDone(i) \/ Poll(i) \/ GetReport(i) \/ ReadReport(i)
      PROVE  EvidenceInv'
  BY <1>1, <1>6, <1>7 DEF OnTaskDone, Poll, GetReport, ReadReport, taskVars, resultVars
<1>8. CASE CloseDb \/ ClearDb \/ CancelSessions \/ UNCHANGED vars
  BY <1>1, <1>6, <1>8 DEF CloseDb, ClearDb, CancelSessions, taskVars, resultVars, vars
<1>9. CASE Restart
  <2>1. /\ db' = db /\ mode[Shared] = "closed" /\ work' = work /\ UNCHANGED <<pc, inserted>>
        /\ mode' = [mode EXCEPT ![Shared] = "auto"]
        /\ \A i \in Inv : pc[i] \notin TaskAt
    BY <1>9 DEF Restart, taskVars, resultVars, AppInv
  <2>2. Live' = Live
    BY <1>1, <2>1 DEF Live, StoreTypeOK
  <2>3. OthersWriteRows' /\ FindingsFit'
    BY <1>1, <2>1, <2>2 DEF EvidenceInv, OthersWriteRows, FindingsFit, StoreTypeOK
  <2>4. SharedHasFindings'
    BY <2>1 DEF SharedHasFindings, TaskAt
  <2>5. QED
    BY <2>3, <2>4 DEF EvidenceInv
<1>10. CASE Exit \/ Crash
  <2>1. /\ db' = db /\ (\A c \in Conn : mode'[c] = "closed")
        /\ \A i \in Inv : pc'[i] = "lost" \/ pc'[i] = pc[i]
    BY <1>10 DEF Exit, Crash, Die
  <2>2. Live' = {db} /\ db \in Live
    BY <2>1 DEF Live
  <2>3. OthersWriteRows' /\ SharedHasFindings'
    BY <1>1, <2>1 DEF OthersWriteRows, SharedHasFindings
  <2>4. FindingsFit'
    BY <2>1, <2>2 DEF EvidenceInv, FindingsFit, BeforeFindings
  <2>5. QED
    BY <2>3, <2>4 DEF EvidenceInv
<1>11. QED
  BY <1>2, <1>3, <1>4, <1>5, <1>7, <1>8, <1>9, <1>10
  DEF Next, Handler, Task, MemoryNode, RepoCall, Client, Lifespan

\* create_batch and the report's INSERT share a connection whose transaction
\* any other coroutine may commit between two of their statements, and still a
\* report that counts evidence is never committed with fewer rows than it
\* counts, as long as no failure rolls the shared transaction back.
THEOREM ReportsBacked == ASSUME ~Rollbacks PROVE Spec => []EvidenceBehindReport
<1>1. Init => AppInv /\ CountInv /\ EvidenceInv
  <2> SUFFICES ASSUME Init PROVE AppInv /\ CountInv /\ EvidenceInv
    OBVIOUS
  <2>1. AppInv /\ CountInv
    BY DEF Init, AppInv, CountInv
  <2>2. Live = {EmptyTables}
    BY DEF Init, StoreInit, Live
  <2>3. EvidenceInv
    BY <2>2 DEF Init, StoreInit, EvidenceInv, OthersWriteRows, FindingsFit, SharedHasFindings,
                EmptyTables, NoReport, Conn
  <2>4. QED
    BY <2>1, <2>3
<1>2. ServiceInv /\ AppInv /\ CountInv /\ EvidenceInv /\ [Next]_vars
        => AppInv' /\ CountInv' /\ EvidenceInv'
  BY AppStep, CountStep, EvidenceStep
<1>3. EvidenceInv => EvidenceBehindReport
  BY DEF EvidenceInv, FindingsFit, Live, EvidenceBehindReport
<1>4. QED
  BY <1>1, <1>2, <1>3, InitInv, NextKeepsInv, PTL DEF Spec


-------------------------------------------------------------------------------
(* Without faults and without a wait that outlasts the busy timeout *)

\* Where a task has its own connection.
Connected == (TaskAt \ {"open"}) \cup ClosingAt

Opened == \A i \in Inv : pc[i] \in Connected => mode[i] # "closed"

\* No statement fails half-way: no connection is left inside a transaction
\* without the lock, and a task fails only in its analysis, before COMPLETE.
CalmInv ==
  /\ \A c \in Conn : mode[c] \in {"closed", "auto", "write"}
  /\ \A t \in Live, i \in Inv :
       pc[i] = "failing" => t.investigations[i].status \in {"RUNNING", "FAILED"}
  /\ (\E c \in Conn : mode[c] = "write") =>
       \A i \in Inv : db.investigations[i].status = "COMPLETE"
                        => work.investigations[i].status = "COMPLETE"

LEMMA StatementStepModes ==
  ASSUME StoreTypeOK, StoreInv, NEW c \in Conn, NEW new, StatementStep(c, new)
  PROVE  OthersKeepTheirs(c) /\ (mode'[c] = "closed" => mode[c] = "closed")
  BY SharedIsConn
  DEF StatementStep, Write, WriteRefused, WriteBreaks, Commit, CommitRefused, CommitBreaks, storeVars,
      StoreTypeOK, StoreInv, OthersKeepTheirs

\* A call goes on in the program, and only from where its task is connected.
LEMMA RepoCallLabels ==
  ASSUME TypeOK, StoreInv, NEW i \in Inv, RepoCall(i)
  PROVE  \E p \in Program : \E label \in {p[1], p[2], p[3]} :
           pc[i] = p[1] /\ pc' = [pc EXCEPT ![i] = label]
<1>1. PICK p \in Program, new \in Tables : RunsProgram(i, p, new)
  BY RepoCallForm
<1> DEFINE c == ConnOf(i, p[1])
<1>2. c \in Conn /\ new \in Tables /\ Call(i, c, p[1], new, p[2], p[3])
  BY <1>1, SharedIsConn DEF RunsProgram, ConnOf
<1> HIDE DEF c
<1>3. pc[i] = p[1] /\ CallKinds(i, c, new, p[2], p[3])
  <2>1. pc[i] = p[1]
    BY <1>2 DEF Call, Runs
  <2>2. CallKinds(i, c, new, p[2], p[3])
    BY <1>2, CallForm
  <2>3. QED
    BY <2>1, <2>2
<1>4. pc' = [pc EXCEPT ![i] = p[1]] \/ pc' = [pc EXCEPT ![i] = p[2]] \/ pc' = [pc EXCEPT ![i] = p[3]]
  BY <1>3 DEF CallKinds, TypeOK
<1>5. QED
  BY <1>3, <1>4

LEMMA OpenedStep == ServiceInv /\ Opened /\ [Next]_vars => Opened'
<1> SUFFICES ASSUME ServiceInv, Opened, [Next]_vars PROVE Opened'
  OBVIOUS
<1>1. /\ StoreTypeOK /\ StoreInv /\ TypeOK /\ pc \in [Inv -> Labels] /\ mode \in [Conn -> Modes]
      /\ Inv \subseteq Conn /\ Shared \in Conn /\ Shared \notin Inv
  BY SharedIsConn DEF ServiceInv, TypeOK, StoreTypeOK
<1>2. ASSUME NEW i \in Inv, NEW c \in {i, Shared}, NEW label, pc' = [pc EXCEPT ![i] = label],
             OthersKeepTheirs(c), label \in Connected => mode'[i] # "closed"
      PROVE  Opened'
  BY <1>1, <1>2 DEF Opened, OthersKeepTheirs
<1>3. ASSUME NEW i \in Inv, NEW c \in {i, Shared}, NEW new, StatementStep(c, new)
      PROVE  OthersKeepTheirs(c) /\ (mode[i] # "closed" => mode'[i] # "closed")
  BY <1>1, <1>3, StatementStepModes DEF OthersKeepTheirs
<1>4. ASSUME NEW i \in Inv, RepoCall(i) PROVE Opened'
  <2>1. PICK p \in Program, label \in Labels :
          label \in {p[1], p[2], p[3]} /\ pc[i] = p[1] /\ pc' = [pc EXCEPT ![i] = label]
    BY <1>1, <1>4, RepoCallLabels, ProgramStages
  <2>2. label \in Connected => pc[i] \in Connected
    BY <2>1 DEF Program, Connected, TaskAt, ClosingAt
  <2>3. PICK c, new : c \in {i, Shared} /\ StatementStep(c, new)
    BY <1>4, RepoCallSteps
  <2>4. QED
    BY <1>2, <1>3, <2>1, <2>2, <2>3 DEF Opened
<1>5. ASSUME NEW i \in Inv, InsertFinding(i) \/ CommitEvidence(i) PROVE Opened'
  <2>1. PICK c, new : c \in {i, Shared} /\ StatementStep(c, new)
    BY <1>5, RepoCallSteps
  <2>2. pc[i] \in Connected /\ \E label : pc' = [pc EXCEPT ![i] = label]
    BY <1>1, <1>5 DEF InsertFinding, CommitEvidence, CommitAndGet, Runs, Goto, Connected, TaskAt
  <2>3. QED
    BY <1>2, <1>3, <2>1, <2>2 DEF Opened
<1>6. ASSUME NEW i \in Inv, LookupReport(i) \/ Analyse(i) PROVE Opened'
  <2>1. mode'[i] = mode[i] /\ OthersKeepTheirs(Shared)
    BY <1>1, <1>6 DEF LookupReport, Analyse, ReadShared, storeVars, OthersKeepTheirs
  <2>2. pc[i] \in Connected /\ \E label : pc' = [pc EXCEPT ![i] = label]
    BY <1>6 DEF LookupReport, Analyse, Runs, Goto, Connected, TaskAt
  <2>3. QED
    BY <1>2, <2>1, <2>2 DEF Opened
<1>7. ASSUME NEW i \in Inv, StartSession(i) \/ Receive(i) PROVE Opened'
  <2>1. OthersKeepTheirs(i)
    BY <1>7 DEF StartSession, Receive, storeVars, OthersKeepTheirs
  <2>2. \E label \in {"insert", "open"} : pc' = [pc EXCEPT ![i] = label]
    BY <1>7 DEF StartSession, Receive, Goto
  <2>3. QED
    BY <1>2, <2>1, <2>2 DEF Connected, TaskAt, ClosingAt
<1>8. ASSUME NEW i \in Inv, OpenConnection(i) PROVE Opened'
  <2>1. OthersKeepTheirs(i)
    BY <1>1, <1>8 DEF OpenConnection, Open, storeVars, OthersKeepTheirs
  <2>2. \/ mode'[i] = "auto" /\ pc' = [pc EXCEPT ![i] = "running"]
        \/ pc' = [pc EXCEPT ![i] = "ok"]
    BY <1>1, <1>8 DEF OpenConnection, Open, Goto
  <2>3. QED
    BY <1>2, <2>1, <2>2 DEF Connected, TaskAt, ClosingAt
<1>9. ASSUME NEW i \in Inv, CloseConnection(i) PROVE Opened'
  <2>1. OthersKeepTheirs(i)
    BY <1>1, <1>9 DEF CloseConnection, Close, OthersKeepTheirs
  <2>2. \E label \in Ended : pc' = [pc EXCEPT ![i] = label]
    BY <1>9 DEF CloseConnection, Goto, ClosingAt, Ended
  <2>3. QED
    BY <1>2, <2>1, <2>2 DEF Connected, TaskAt, ClosingAt, Ended
<1>10. ASSUME NEW i \in Inv, DeliverCancel(i) PROVE Opened'
  <2>1. OthersKeepTheirs(i) /\ mode'[i] = mode[i]
    BY <1>10 DEF DeliverCancel, storeVars, OthersKeepTheirs
  <2>2. \E label \in {"cancelled", "closeCancelled"} :
          pc' = [pc EXCEPT ![i] = label] /\ (label = "closeCancelled" => pc[i] \in Connected)
    BY <1>10 DEF DeliverCancel, Goto, Connected, ClosingAt
  <2>3. QED
    BY <1>2, <2>1, <2>2 DEF Opened, Connected, TaskAt, ClosingAt
<1>11. ASSUME UNCHANGED pc, OthersKeepTheirs(Shared) PROVE Opened'
  BY <1>1, <1>11 DEF Opened, OthersKeepTheirs
<1>12. ASSUME NEW i \in Inv, OnTaskDone(i) \/ Poll(i) \/ GetReport(i) \/ ReadReport(i)
       PROVE  Opened'
  BY <1>1, <1>11, <1>12
  DEF OnTaskDone, Poll, GetReport, ReadReport, ReadShared, taskVars, storeVars, OthersKeepTheirs
<1>13. CASE CloseDb \/ ClearDb \/ CancelSessions \/ Restart \/ UNCHANGED vars
  BY <1>1, <1>11, <1>13
  DEF CloseDb, ClearDb, CancelSessions, Restart, Close, taskVars, vars, storeVars, OthersKeepTheirs
<1>14. CASE Exit \/ Crash
  <2>1. \A i \in Inv : pc'[i] = "lost" \/ (pc'[i] = pc[i] /\ pc[i] \notin TaskAt \cup ClosingAt)
    BY <1>14 DEF Exit, Crash, Die
  <2>2. QED
    BY <2>1 DEF Opened, Connected, TaskAt, ClosingAt
<1>15. QED
  BY <1>4, <1>5, <1>6, <1>7, <1>8, <1>9, <1>10, <1>12, <1>13, <1>14
  DEF Next, Handler, Task, MemoryNode, RepoCall, Client, Lifespan

CalmModes == \A c \in Conn : mode[c] \in {"closed", "auto", "write"}

LEMMA CalmModesStay ==
  ASSUME ~Stalls, StoreTypeOK, CalmModes, NEW c \in Conn, NEW new,
         StatementStep(c, new) \/ Open(c) \/ Close(c) \/ ReadShared \/ UNCHANGED storeVars
  PROVE  CalmModes'
  BY SharedIsConn
  DEF CalmModes, StatementStep, Open, Close, Write, WriteRefused, WriteBreaks, Commit, CommitRefused,
      CommitBreaks, ReadShared, storeVars, StoreTypeOK

\* A step that writes no row, or commits what was written.
LEMMA CalmRest ==
  ASSUME CalmInv, CalmModes', pc \in [Inv -> Labels], NEW c \in Conn, NEW i \in Inv, NEW label,
         pc' = [pc EXCEPT ![i] = label],
         \/ Rests
         \/ Publishes(c)
         \/ \E u : Drafts(c, u) /\ u.investigations = Committed(c).investigations,
         label = "failing" =>
           \A t \in Live : t.investigations[i].status \in {"RUNNING", "FAILED"}
  PROVE  CalmInv'
<1>1. pc'[i] = label /\ \A j \in Inv \ {i} : pc'[j] = pc[j]
  OBVIOUS
<1>2. \A t \in Live' : \E u \in Live : t.investigations = u.investigations
  <2>1. CASE Rests \/ Publishes(c)
    BY <2>1, LiveStays
  <2>2. CASE \E u : Drafts(c, u) /\ u.investigations = Committed(c).investigations
    BY <2>2, LiveDraft, CommittedIsLive
  <2>3. QED
    BY <2>1, <2>2
<1>3. \A t \in Live', j \in Inv :
        pc'[j] = "failing" => t.investigations[j].status \in {"RUNNING", "FAILED"}
  <2>1. \A t \in Live, j \in Inv :
          pc'[j] = "failing" => t.investigations[j].status \in {"RUNNING", "FAILED"}
    BY <1>1 DEF CalmInv
  <2>2. QED
    BY <1>2, <2>1
<1>4. (\E d \in Conn : mode'[d] = "write") =>
        \A j \in Inv : db'.investigations[j].status = "COMPLETE"
                         => work'.investigations[j].status = "COMPLETE"
  <2>1. CASE Rests
    BY <2>1 DEF Rests, CalmInv
  <2>2. CASE Publishes(c)
    BY <2>2 DEF Publishes
  <2>3. CASE \E u : Drafts(c, u) /\ u.investigations = Committed(c).investigations
    BY <2>3 DEF Drafts, Committed, CalmInv
  <2>4. QED
    BY <2>1, <2>2, <2>3
<1>5. QED
  BY <1>3, <1>4 DEF CalmInv, CalmModes

LEMMA CallStaysCalm ==
  ASSUME MaxFaults = 0, ~Stalls, ServiceInv, Opened, CalmInv, NEW i \in Inv, RepoCall(i)
  PROVE  CalmInv'
<1>1. TypeOK /\ StoreTypeOK /\ StoreInv /\ pc \in [Inv -> Labels] /\ CalmModes /\ ~Fault
  BY NoFault DEF ServiceInv, TypeOK, CalmInv, CalmModes
<1>2. PICK p \in Program, new \in Tables : RunsProgram(i, p, new)
  BY <1>1, RepoCallForm
<1> DEFINE c       == ConnOf(i, p[1])
           label   == p[1]
           next    == p[2]
           handler == p[3]
<1>3. c \in {i, Shared} /\ c \in Conn
  BY SharedIsConn DEF ConnOf
<1>4. /\ Call(i, c, label, new, next, handler)
      /\ Works(i, label, View(c), new)
  BY <1>2 DEF RunsProgram
<1>5. /\ label \in SharedCalls \cup OwnCalls
      /\ next # "failing"
      /\ handler = "failing" => label \in Connected /\ c = i
  BY ProgramStages DEF Program, ConnOf, SharedCalls, OwnCalls, Connected, TaskAt
<1> HIDE DEF c, label, next, handler
<1>6. pc[i] = label /\ CallKinds(i, c, new, next, handler)
  <2>1. pc[i] = label
    BY <1>4 DEF Call, Runs
  <2>2. CallKinds(i, c, new, next, handler)
    BY <1>1, <1>3, <1>4, CallForm
  <2>3. QED
    BY <2>1, <2>2
<1>7. CalmModes'
  <2>1. StatementStep(c, new)
    BY <1>4 DEF Call, Execute, CommitAndGet, StatementStep
  <2>2. QED
    BY <1>1, <1>3, <2>1, CalmModesStay
\* The task's own connection is open and has no stale snapshot.
<1>8. WriteRefused(c) \/ CommitRefused(c) => handler # "failing"
  <2>1. ASSUME WriteRefused(c) \/ CommitRefused(c), handler = "failing" PROVE FALSE
    <3>1. mode[c] # "closed"
      BY <1>5, <1>6, <2>1 DEF Opened
    <3>2. QED
      BY <1>1, <1>3, <2>1, <3>1 DEF WriteRefused, CommitRefused, CalmModes
  <2>2. QED
    BY <2>1
<1>9. CASE Rests /\ pc' = [pc EXCEPT ![i] = handler] /\ (WriteRefused(c) \/ CommitRefused(c))
  BY <1>1, <1>3, <1>7, <1>8, <1>9, CalmRest
<1>10. CASE /\ IF mode[c] = "write" THEN Publishes(c) ELSE Rests
            /\ pc' = [pc EXCEPT ![i] = next]
  BY <1>1, <1>3, <1>5, <1>7, <1>10, CalmRest
<1>11. CASE pc' = pc /\ Drafts(c, new) /\ Write(c, new)
  <2> DEFINE r == View(c).investigations[i]
  <2>1. View(c) = Committed(c) /\ View(c) \in Live
    BY <1>1, <1>3, <1>11, FreshView, CommittedIsLive DEF Write
  <2>2. /\ r.status \in MayBe(label)
        /\ label = "failing" => r.status \in {"RUNNING", "FAILED"}
    BY <1>6, <2>1 DEF CalmInv, ServiceInv, StageInv, RowsFit
  <2>3. "ABSENT" \notin MayBe(label) \/ label = "insert"
    BY <1>5 DEF MayBe, SharedCalls, OwnCalls, Terminal, Statuses
  <2>4. /\ new.investigations[i].status = StatusAfter(label, r.status)
        /\ \A j \in Inv \ {i} : new.investigations[j] = View(c).investigations[j]
    BY <1>4, <2>2, <2>3 DEF Works
  <2>5. r.status = "COMPLETE" => new.investigations[i].status = "COMPLETE"
    BY <1>5, <2>2, <2>4 DEF StatusAfter, MayBe, SharedCalls, OwnCalls
  <2>6. label = "failing" => new.investigations[i].status = "FAILED"
    BY <2>4 DEF StatusAfter
  <2>7. \A t \in Live', j \in Inv :
          pc'[j] = "failing" => t.investigations[j].status \in {"RUNNING", "FAILED"}
    <3>1. \A t \in Live \cup {new}, j \in Inv :
            pc[j] = "failing" => t.investigations[j].status \in {"RUNNING", "FAILED"}
      BY <1>6, <2>1, <2>4, <2>6 DEF CalmInv
    <3>2. QED
      BY <1>3, <1>11, <3>1, LiveDraft
  <2>8. \A j \in Inv : db'.investigations[j].status = "COMPLETE"
                         => work'.investigations[j].status = "COMPLETE"
    <3>1. db' = db /\ work' = new
      BY <1>11 DEF Drafts
    <3>2. \A j \in Inv : db.investigations[j].status = "COMPLETE"
                           => View(c).investigations[j].status = "COMPLETE"
      BY <1>3, <2>1 DEF Committed, CalmInv
    <3>3. QED
      BY <2>4, <2>5, <3>1, <3>2
  <2>9. QED
    BY <1>7, <2>7, <2>8 DEF CalmInv, CalmModes
<1>12. QED
  BY <1>1, <1>6, <1>9, <1>10, <1>11 DEF CallKinds

LEMMA CalmStep ==
  ASSUME MaxFaults = 0, ~Stalls
  PROVE  ServiceInv /\ Opened /\ CalmInv /\ [Next]_vars => CalmInv'
<1> SUFFICES ASSUME ServiceInv, Opened, CalmInv, [Next]_vars PROVE CalmInv'
  OBVIOUS
<1>1. /\ TypeOK /\ StoreTypeOK /\ StoreInv /\ pc \in [Inv -> Labels] /\ CalmModes /\ ~Fault
      /\ Inv \subseteq Conn /\ Shared \in Conn /\ Shared \notin Inv
  BY NoFault, SharedIsConn DEF ServiceInv, TypeOK, CalmInv, CalmModes
<1>2. ASSUME NEW i \in Inv, InsertFinding(i) PROVE CalmInv'
  <2> DEFINE new == InsertEvidence(View(Shared), i)
  <2>1. new \in Tables /\ new.investigations = View(Shared).investigations
    BY <1>1, ViewType, InsertEvidenceEffect
  <2>2. CalmModes'
    BY <1>1, <1>2, CalmModesStay DEF InsertFinding, StatementStep
  <2>3. CASE Write(Shared, new) /\ pc' = pc
    <3>1. Drafts(Shared, new) /\ View(Shared) = Committed(Shared)
      BY <1>1, <2>1, <2>3, WriteKind, FreshView DEF Write
    <3> HIDE DEF new
    <3>2. pc' = [pc EXCEPT ![i] = "evidence"]
      BY <1>1, <1>2, <2>3 DEF InsertFinding, Runs
    <3>3. QED
      BY <1>1, <2>1, <2>2, <3>1, <3>2, CalmRest
  <2>4. CASE WriteRefused(Shared) /\ pc' = [pc EXCEPT ![i] = "lookup"]
    <3>1. Rests
      BY <1>1, <2>4, CommitBreaksKind
    <3>2. QED
      BY <1>1, <2>2, <2>4, <3>1, CalmRest
  <2>5. QED
    BY <1>1, <1>2, <2>3, <2>4 DEF InsertFinding, Goto
<1>3. ASSUME NEW i \in Inv, CommitEvidence(i) PROVE CalmInv'
  <2>1. CalmModes'
    <3>1. StatementStep(Shared, db)
      BY <1>3 DEF CommitEvidence, CommitAndGet, StatementStep
    <3>2. QED
      BY <1>1, <3>1, CalmModesStay
  <2>2. Rests \/ Publishes(Shared)
    BY <1>1, <1>3, CommitKind, CommitBreaksKind DEF CommitEvidence, CommitAndGet
  <2>3. pc' = [pc EXCEPT ![i] = "lookup"]
    BY <1>3 DEF CommitEvidence, CommitAndGet, Goto
  <2>4. QED
    BY <1>1, <2>1, <2>2, <2>3, CalmRest
<1>4. ASSUME NEW i \in Inv,
             StartSession(i) \/ LookupReport(i) \/ OpenConnection(i) \/ Analyse(i)
               \/ CloseConnection(i) \/ DeliverCancel(i) \/ Receive(i)
      PROVE  CalmInv'
  <2>1. Open(i) \/ Close(i) \/ ReadShared \/ UNCHANGED storeVars
    BY <1>4 DEF StartSession, LookupReport, OpenConnection, Analyse, CloseConnection, DeliverCancel, Receive
  <2>2. CalmModes'
    BY <1>1, <2>1, CalmModesStay
  <2>3. Rests
    BY <1>1, <2>1, QuietStoreStep
  <2>4. \E label : /\ pc' = [pc EXCEPT ![i] = label]
                   /\ label = "failing" => Analyse(i)
    BY <1>4 DEF StartSession, LookupReport, OpenConnection, Analyse, CloseConnection, DeliverCancel,
                Receive, Goto, ClosingAt
  <2>5. Analyse(i) => \A t \in Live : t.investigations[i].status = "RUNNING"
    BY DEF Analyse, Runs, ServiceInv, StageInv, RowsFit, MayBe
  <2>6. QED
    BY <1>1, <2>2, <2>3, <2>4, <2>5, CalmRest
<1>5. ASSUME CalmModes', Rests, UNCHANGED pc PROVE CalmInv'
  <2>1. Live' \subseteq Live
    BY <1>1, <1>5, LiveStays
  <2>2. QED
    BY <1>5, <2>1 DEF CalmInv, CalmModes, Rests
<1>6. ASSUME NEW i \in Inv, OnTaskDone(i) \/ Poll(i) \/ GetReport(i) \/ ReadReport(i)
      PROVE  CalmInv'
  <2>1. (ReadShared \/ UNCHANGED storeVars) /\ UNCHANGED pc
    BY <1>6 DEF OnTaskDone, Poll, GetReport, ReadReport, taskVars
  <2>2. QED
    BY <1>1, <1>5, <2>1, CalmModesStay, QuietStoreStep
<1>7. CASE CloseDb \/ ClearDb \/ CancelSessions \/ UNCHANGED vars
  <2>1. (Close(Shared) \/ UNCHANGED storeVars) /\ UNCHANGED pc
    BY <1>7 DEF CloseDb, ClearDb, CancelSessions, taskVars, vars
  <2>2. QED
    BY <1>1, <1>5, <2>1, CalmModesStay, QuietStoreStep
<1>8. CASE Restart
  BY <1>1, <1>5, <1>8 DEF Restart, CalmModes, StoreTypeOK, Rests, taskVars
<1>9. CASE Exit \/ Crash
  <2>1. /\ \A c \in Conn : mode'[c] = "closed"
        /\ \A i \in Inv : pc'[i] = "lost" \/ (pc'[i] = pc[i] /\ pc[i] \notin TaskAt)
    BY <1>9 DEF Exit, Crash, Die
  <2>2. QED
    BY <2>1 DEF CalmInv, TaskAt
<1>10. QED
  BY <1>2, <1>3, <1>4, <1>6, <1>7, <1>8, <1>9, CallStaysCalm
  DEF Next, Handler, Task, MemoryNode, RepoCall, Client, Lifespan

\* Nobody overwrites the outcome of an investigation: the two connections both
\* write COMPLETE, but no FAILED follows it and no COMPLETE follows FAILED,
\* where no statement fails and no wait for the lock times out.
THEOREM OutcomesStay == ASSUME MaxFaults = 0, ~Stalls PROVE Spec => TerminalIsFinal
<1>1. Init => Opened /\ CalmInv
  BY SharedIsConn
  DEF Init, StoreInit, Opened, CalmInv, Connected, TaskAt, ClosingAt
<1>2. ServiceInv /\ Opened /\ CalmInv /\ [Next]_vars => Opened' /\ CalmInv'
  BY OpenedStep, CalmStep
<1>3. ASSUME ServiceInv, CalmInv, [Next]_vars, NEW i \in Inv,
             db.investigations[i].status \in Terminal
      PROVE  db'.investigations[i].status = db.investigations[i].status
  <2>1. db.investigations[i].status = "FAILED" => db'.investigations[i].status = "FAILED"
    BY <1>3, CommitKeepsRows DEF Kept
  <2>2. db.investigations[i].status = "COMPLETE" => db'.investigations[i].status = "COMPLETE"
    BY <1>3, DbStep DEF CalmInv
  <2>3. QED
    BY <1>3, <2>1, <2>2 DEF Terminal
<1>4. ServiceInv /\ CalmInv /\ [Next]_vars =>
        [\A i \in Inv : LET s == db.investigations[i].status
                        IN  s \in Terminal => db'.investigations[i].status = s]_vars
  BY <1>3
<1>5. QED
  BY <1>1, <1>2, <1>4, InitInv, NextKeepsInv, PTL DEF Spec, TerminalIsFinal

-------------------------------------------------------------------------------
(* The lifecycle, while the process runs or has crashed *)

Undisturbed == MaxFaults = 0 /\ ~Stalls /\ "shutdown" \notin StopKinds

UpInv ==
  /\ app \in {"up", "down"}
  /\ \A i \in Inv : ~cancel[i]
  /\ app = "up" => mode[Shared] # "closed"

\* One step of the lifecycle, or none, takes i from the tables t to u.
SameStage(t, u, i) ==
  /\ u.investigations[i].status = t.investigations[i].status
  /\ ReportExists(u, i) <=> ReportExists(t, i)

NextStage(t, u, i) ==
  LET s == t.investigations[i].status
      n == u.investigations[i].status
  IN  \/ s = "ABSENT" /\ n = "PENDING" /\ ~ReportExists(u, i)
      \/ s = "PENDING" /\ n = "RUNNING" /\ ~ReportExists(u, i)
      \/ s = "RUNNING" /\ n = "RUNNING" /\ ~ReportExists(t, i) /\ ReportExists(u, i)
      \/ s = "RUNNING" /\ n = "COMPLETE" /\ ReportExists(t, i) /\ ReportExists(u, i)
      \/ s = "RUNNING" /\ n = "FAILED" /\ (ReportExists(u, i) <=> ReportExists(t, i))

\* Where a coroutine stands before and after it writes its report.
BeforeReport == BeforeFindings \cup {"evidence", "lookup"}
AfterReport == {"reasoning", "saved", "savedPhase", "complete", "donePhase"}

ReportsFit ==
  \A t \in Live, i \in Inv :
    /\ pc[i] \in BeforeReport \/ (pc[i] = "report" /\ ~sent[i]) => ~ReportExists(t, i)
    /\ pc[i] \in AfterReport => ReportExists(t, i)
    /\ t.investigations[i].status = "COMPLETE" => ReportExists(t, i)

ReportPending ==
  \A i \in Inv : pc[i] = "report" /\ sent[i] => ReportExists(Committed(Shared), i)

\* i has a statement on connection c to commit.
Drafting(i, c) ==
  sent[i] /\ pc[i] \in SharedCalls \cup OwnCalls /\ ConnOf(i, pc[i]) = c

\* A commit would take i at most one step further, and only on its own account.
DraftsMove ==
  \A c \in Conn, i \in Inv : mode[c] = "write" =>
    SameStage(db, work, i) \/ (Drafting(i, c) /\ NextStage(db, work, i))

PublishInv == ReportsFit /\ ReportPending /\ DraftsMove

LEMMA SharedStaysOpen ==
  ASSUME StoreTypeOK, NEW c \in Conn, NEW new,
         StatementStep(c, new) \/ Open(c) \/ (c # Shared /\ Close(c)) \/ ReadShared \/ UNCHANGED storeVars
  PROVE  mode[Shared] # "closed" => mode'[Shared] # "closed"
  BY SharedIsConn
  DEF StatementStep, Open, Close, Write, WriteRefused, WriteBreaks, Commit, CommitRefused,
      CommitBreaks, ReadShared, storeVars, StoreTypeOK

LEMMA UpStep ==
  ASSUME Undisturbed
  PROVE  ServiceInv /\ UpInv /\ [Next]_vars => UpInv'
<1> SUFFICES ASSUME ServiceInv, UpInv, [Next]_vars PROVE UpInv'
  OBVIOUS
<1>1. StoreTypeOK /\ Inv \subseteq Conn /\ Shared \in Conn /\ Shared \notin Inv
  BY SharedIsConn DEF ServiceInv, TypeOK
<1>2. ASSUME UNCHANGED <<app, cancel>>, mode[Shared] # "closed" => mode'[Shared] # "closed"
      PROVE  UpInv'
  BY <1>2 DEF UpInv
<1>3. ASSUME NEW i \in Inv, RepoCall(i) \/ InsertFinding(i) \/ CommitEvidence(i)
      PROVE  UpInv'
  BY <1>1, <1>2, <1>3, RepoCallSteps, SharedStaysOpen
<1>4. ASSUME NEW i \in Inv,
             StartSession(i) \/ LookupReport(i) \/ OpenConnection(i) \/ Analyse(i)
               \/ CloseConnection(i) \/ DeliverCancel(i) \/ OnTaskDone(i) \/ Client(i)
      PROVE  UpInv'
  <2>1. UNCHANGED <<app, cancel>>
    BY <1>4 DEF StartSession, LookupReport, OpenConnection, Analyse, CloseConnection, DeliverCancel,
              OnTaskDone, Client, Receive, Poll, GetReport, ReadReport
  <2>2. Open(i) \/ Close(i) \/ ReadShared \/ UNCHANGED storeVars
    BY <1>4 DEF StartSession, LookupReport, OpenConnection, Analyse, CloseConnection, DeliverCancel,
              OnTaskDone, Client, Receive, Poll, GetReport, ReadReport
  <2>3. QED
    BY <1>1, <1>2, <2>1, <2>2, SharedStaysOpen
<1>5. CASE CloseDb \/ ClearDb \/ CancelSessions \/ Exit
  BY <1>5 DEF CloseDb, ClearDb, CancelSessions, Exit, UpInv, Undisturbed
<1>6. CASE Crash
  BY <1>6 DEF Crash, Die, UpInv
<1>7. CASE Restart
  BY <1>1, <1>7 DEF Restart, UpInv, StoreTypeOK
<1>8. CASE UNCHANGED vars
  BY <1>2, <1>8 DEF vars, storeVars
<1>9. QED
  BY <1>3, <1>4, <1>5, <1>6, <1>7, <1>8
  DEF Next, Handler, Task, MemoryNode, RepoCall, Lifespan

\* A step that writes no row.
LEMMA PublishRest ==
  ASSUME PublishInv, StoreInv, pc \in [Inv -> Labels], NEW i \in Inv, NEW c \in {i, Shared}, NEW label,
         pc' = [pc EXCEPT ![i] = label],
         ~sent'[i], \A j \in Inv \ {i} : sent'[j] = sent[j],
         \/ Publishes(c)
         \/ Rests /\ (mode[Shared] = "write" => mode'[Shared] = "write"),
         \A d \in Conn : mode'[d] = "write" => ~Drafting(i, d),
         \A t \in Live' : /\ label \in BeforeReport \cup {"report"} => ~ReportExists(t, i)
                          /\ label \in AfterReport => ReportExists(t, i)
  PROVE  PublishInv'
<1>1. pc'[i] = label /\ \A j \in Inv \ {i} : pc'[j] = pc[j]
  OBVIOUS
<1>2. /\ c \in Conn /\ Inv \subseteq Conn /\ Shared \in Conn /\ Shared \notin Inv
      /\ Live' \subseteq Live
  BY SharedIsConn, LiveStays
<1>3. ReportsFit'
  <2>1. ASSUME NEW t \in Live', NEW j \in Inv
        PROVE  /\ pc'[j] \in BeforeReport \/ (pc'[j] = "report" /\ ~sent'[j]) => ~ReportExists(t, j)
               /\ pc'[j] \in AfterReport => ReportExists(t, j)
               /\ t.investigations[j].status = "COMPLETE" => ReportExists(t, j)
    <3>1. t \in Live
      BY <1>2
    <3>2. CASE j = i
      BY <1>1, <3>1, <3>2 DEF PublishInv, ReportsFit
    <3>3. CASE j # i
      BY <1>1, <3>1, <3>3 DEF PublishInv, ReportsFit
    <3>4. QED
      BY <3>2, <3>3
  <2>2. QED
    BY <2>1 DEF ReportsFit
<1>4. ReportPending'
  <2>1. ASSUME NEW j \in Inv, pc'[j] = "report", sent'[j] PROVE ReportExists(Committed(Shared)', j)
    <3>1. j # i /\ pc[j] = "report" /\ sent[j]
      BY <1>1, <2>1
    <3>2. ReportExists(Committed(Shared), j)
      BY <3>1 DEF PublishInv, ReportPending
    <3>3. CASE Rests /\ (mode[Shared] = "write" => mode'[Shared] = "write")
      BY <1>2, <3>2, <3>3 DEF Rests, Committed
    <3>4. CASE Publishes(c) /\ c = Shared
      BY <1>2, <3>2, <3>4 DEF Publishes, Committed
    <3>5. CASE Publishes(c) /\ c = i
      <4>1. mode[i] = "write" /\ mode[Shared] # "write" /\ db' = work /\ mode'[Shared] # "write"
        BY <1>2, <3>5 DEF Publishes, StoreInv
      <4>2. ~Drafting(j, i)
        BY <1>2, <3>1 DEF Drafting, ConnOf, SharedCalls
      <4>3. ReportExists(work, j) <=> ReportExists(db, j)
        BY <1>2, <4>1, <4>2 DEF PublishInv, DraftsMove, SameStage
      <4>4. QED
        BY <3>2, <4>1, <4>3 DEF Committed
    <3>6. QED
      BY <3>3, <3>4, <3>5
  <2>2. QED
    BY <2>1 DEF ReportPending
<1>5. DraftsMove'
  <2>1. ASSUME NEW d \in Conn, NEW j \in Inv, mode'[d] = "write"
        PROVE  SameStage(db', work', j) \/ (Drafting(j, d)' /\ NextStage(db', work', j))
    <3>1. mode[d] = "write" /\ db' = db /\ work' = work
      BY <2>1 DEF Publishes, Rests
    <3>2. SameStage(db, work, j) \/ (Drafting(j, d) /\ NextStage(db, work, j))
      BY <3>1 DEF PublishInv, DraftsMove
    <3>3. CASE j = i
      BY <2>1, <3>1, <3>2, <3>3
    <3>4. CASE j # i
      <4>1. Drafting(j, d) => Drafting(j, d)'
        BY <1>1, <3>4 DEF Drafting
      <4>2. QED
        BY <3>1, <3>2, <4>1
    <3>5. QED
      BY <3>3, <3>4
  <2>2. QED
    BY <2>1 DEF DraftsMove
<1>6. QED
  BY <1>3, <1>4, <1>5 DEF PublishInv

\* The statement of i succeeds on connection c.
LEMMA PublishWrite ==
  ASSUME PublishInv, StoreInv, NEW i \in Inv, NEW c \in {i, Shared}, NEW new,
         Drafts(c, new), pc' = pc, ~sent[i], \A j \in Inv \ {i} : sent'[j] = sent[j],
         \A j \in Inv \ {i} : /\ new.investigations[j] = Committed(c).investigations[j]
                              /\ new.reports[j] = Committed(c).reports[j],
         SameStage(Committed(c), new, i) \/ (Drafting(i, c)' /\ NextStage(Committed(c), new, i)),
         pc[i] = "report" => c = Shared /\ sent'[i] /\ ReportExists(new, i),
         pc[i] # "report" => (ReportExists(new, i) <=> ReportExists(Committed(c), i)),
         new.investigations[i].status = "COMPLETE" => ReportExists(new, i)
  PROVE  PublishInv'
<1>1. /\ c \in Conn /\ Inv \subseteq Conn /\ Shared \in Conn /\ Shared \notin Inv
      /\ db' = db /\ work' = new
      /\ \A d \in Conn : mode'[d] = "write" <=> d = c
      /\ \A d \in Conn \ {c} : mode[d] # "write"
  BY SharedIsConn DEF Drafts, LockFree
<1>2. Committed(c) \in Live /\ Live' \subseteq Live \cup {new}
  BY <1>1, CommittedIsLive, LiveDraft
<1>3. \A j \in Inv \ {i} : /\ new.investigations[j].status = Committed(c).investigations[j].status
                           /\ ReportExists(new, j) <=> ReportExists(Committed(c), j)
  BY DEF ReportExists
<1>4. ReportsFit'
  <2>1. ASSUME NEW t \in Live', NEW j \in Inv
        PROVE  /\ pc'[j] \in BeforeReport \/ (pc'[j] = "report" /\ ~sent'[j]) => ~ReportExists(t, j)
               /\ pc'[j] \in AfterReport => ReportExists(t, j)
               /\ t.investigations[j].status = "COMPLETE" => ReportExists(t, j)
    <3>1. CASE t \in Live
      BY <3>1 DEF PublishInv, ReportsFit
    <3>2. CASE t = new /\ j # i
      BY <1>2, <1>3, <3>2 DEF PublishInv, ReportsFit
    <3>3. CASE t = new /\ j = i
      BY <1>2, <3>3 DEF PublishInv, ReportsFit, BeforeReport, AfterReport, BeforeFindings
    <3>4. QED
      BY <1>2, <3>1, <3>2, <3>3
  <2>2. QED
    BY <2>1 DEF ReportsFit
<1>5. ReportPending'
  <2>1. ASSUME NEW j \in Inv, pc'[j] = "report", sent'[j] PROVE ReportExists(Committed(Shared)', j)
    <3>1. CASE j = i
      BY <1>1, <2>1, <3>1 DEF Committed
    <3>2. CASE j # i
      <4>1. ReportExists(Committed(Shared), j)
        BY <2>1, <3>2 DEF PublishInv, ReportPending
      <4>2. CASE c = Shared
        BY <1>1, <1>3, <3>2, <4>1, <4>2 DEF Committed
      <4>3. CASE c # Shared
        BY <1>1, <4>1, <4>3 DEF Committed
      <4>4. QED
        BY <4>2, <4>3
    <3>3. QED
      BY <3>1, <3>2
  <2>2. QED
    BY <2>1 DEF ReportPending
<1>6. DraftsMove'
  <2>1. ASSUME NEW j \in Inv
        PROVE  SameStage(db, new, j) \/ (Drafting(j, c)' /\ NextStage(db, new, j))
    <3>1. CASE mode[c] # "write"
      <4>1. Committed(c) = db
        BY <3>1 DEF Committed
      <4>2. QED
        BY <1>3, <4>1 DEF SameStage
    <3>2. CASE mode[c] = "write"
      <4>1. Committed(c) = work
        BY <3>2 DEF Committed
      <4>2. SameStage(db, work, j) \/ (Drafting(j, c) /\ NextStage(db, work, j))
        BY <1>1, <3>2 DEF PublishInv, DraftsMove
      <4>3. CASE j = i
        <5>1. SameStage(db, work, i)
          BY <4>2, <4>3 DEF Drafting
        <5>2. QED
          BY <4>1, <4>3, <5>1 DEF SameStage, NextStage
      <4>4. CASE j # i
        <5>1. Drafting(j, c) => Drafting(j, c)'
          BY <4>4 DEF Drafting
        <5>2. SameStage(db, work, j) => SameStage(db, new, j)
          BY <1>3, <4>1, <4>4 DEF SameStage
        <5>3. NextStage(db, work, j) => NextStage(db, new, j)
          BY <1>3, <4>1, <4>4 DEF NextStage
        <5>4. QED
          BY <4>2, <5>1, <5>2, <5>3
      <4>5. QED
        BY <4>3, <4>4
    <3>3. QED
      BY <3>1, <3>2
  <2>2. QED
    BY <1>1, <2>1 DEF DraftsMove
<1>7. QED
  BY <1>4, <1>5, <1>6 DEF PublishInv

\* What the statement of a call does to the stage of its investigation.
LEMMA StatementMoves ==
  ASSUME ServiceInv, CalmInv, PublishInv, NEW i \in Inv, NEW t \in Live, NEW new,
         NEW label \in SharedCalls \cup OwnCalls, pc[i] = label, ~sent[i], Works(i, label, t, new),
         label = "report" => new.investigations = t.investigations
  PROVE  /\ \A j \in Inv \ {i} : /\ new.investigations[j] = t.investigations[j]
                                 /\ new.reports[j] = t.reports[j]
         /\ SameStage(t, new, i) \/ NextStage(t, new, i)
         /\ label = "report" => ReportExists(new, i)
         /\ label # "report" => (ReportExists(new, i) <=> ReportExists(t, i))
         /\ new.investigations[i].status = "COMPLETE" => ReportExists(new, i)
<1> DEFINE s == t.investigations[i].status
           n == new.investigations[i].status
<1>1. /\ t \in Tables /\ s \in MayBe(label)
      /\ t.reports \in [Inv -> Nat \cup {NoReport}]
      /\ findings[i] \in Nat
  BY LiveType, ServiceAssumption DEF ServiceInv, TypeOK, StageInv, RowsFit, Tables
<1>2. s # "ABSENT" \/ label = "insert"
  BY <1>1 DEF MayBe, SharedCalls, OwnCalls, Terminal, Statuses
<1>3. n = StatusAfter(label, s)
  BY <1>2 DEF Works
<1>4. \A j \in Inv \ {i} : /\ new.investigations[j] = t.investigations[j]
                           /\ new.reports[j] = t.reports[j]
  BY <1>1 DEF Works
<1>5. /\ label = "report" => ReportExists(new, i)
      /\ label # "report" => (ReportExists(new, i) <=> ReportExists(t, i))
  BY <1>1 DEF Works, ReportExists, NoReport
<1>6. /\ label \in BeforeReport \cup {"report"} => ~ReportExists(t, i)
      /\ label \in AfterReport => ReportExists(t, i)
      /\ s = "COMPLETE" => ReportExists(t, i)
  BY DEF PublishInv, ReportsFit
<1>7. label = "failing" => s \in {"RUNNING", "FAILED"}
  BY DEF CalmInv
<1> HIDE DEF s, n
<1>8. \/ /\ n = s
         /\ label # "report"
      \/ s = "RUNNING" /\ n = "RUNNING" /\ label = "report"
      \/ s = "ABSENT" /\ n = "PENDING" /\ label = "insert"
      \/ s = "PENDING" /\ n = "RUNNING" /\ label = "running"
      \/ s = "RUNNING" /\ n = "COMPLETE" /\ label \in {"saved", "complete"}
      \/ s = "RUNNING" /\ n = "FAILED" /\ label = "failing"
  BY <1>1, <1>3, <1>7 DEF MayBe, StatusAfter, SharedCalls, OwnCalls
<1>9. SameStage(t, new, i) \/ NextStage(t, new, i)
  <2>1. "insert" \in BeforeReport /\ "running" \in BeforeReport /\ {"saved", "complete"} \subseteq AfterReport
    BY DEF BeforeReport, BeforeFindings, AfterReport
  <2>2. QED
    BY <1>5, <1>6, <1>8, <2>1 DEF SameStage, NextStage, s, n
<1>10. n = "COMPLETE" => ReportExists(new, i)
  BY <1>5, <1>6, <1>8 DEF AfterReport
<1>11. QED
  BY <1>4, <1>5, <1>9, <1>10 DEF n

\* While the shared connection is up a statement is not refused, nor a commit.
LEMMA NotRefused ==
  ASSUME Undisturbed, CalmInv, NEW c \in Conn, mode[c] # "closed"
  PROVE  ~WriteRefused(c) /\ ~CommitRefused(c)
  BY DEF Undisturbed, CalmInv, WriteRefused, CommitRefused

\* So a call either writes, or commits and goes on in the program.
WritesOrCommits(i, p, new) ==
  LET c == ConnOf(i, p[1])
  IN  /\ pc[i] = p[1]
      /\ Works(i, p[1], View(c), new)
      /\ p[1] = "report" => new.investigations = View(c).investigations
      /\ \A j \in Inv \ {i} : sent'[j] = sent[j]
      /\ \/ ~sent[i] /\ sent'[i] /\ pc' = pc /\ Drafts(c, new) /\ Write(c, new)
         \/ /\ sent[i] /\ ~sent'[i] /\ pc' = [pc EXCEPT ![i] = p[2]]
            /\ IF mode[c] = "write" THEN Publishes(c) ELSE Rests
            /\ Commit(c)

LEMMA UndisturbedCall ==
  ASSUME Undisturbed, ServiceInv, Opened, CalmInv, UpInv, NEW i \in Inv, RepoCall(i)
  PROVE  \E p \in Program, new \in Tables : WritesOrCommits(i, p, new)
<1>1. TypeOK /\ StoreTypeOK /\ StoreInv /\ ~Fault
  BY NoFault DEF ServiceInv, TypeOK, Undisturbed
<1>2. PICK p \in Program, new \in Tables : RunsProgram(i, p, new)
  BY <1>1, RepoCallForm
<1> DEFINE c       == ConnOf(i, p[1])
           label   == p[1]
           next    == p[2]
           handler == p[3]
<1>3. c \in {i, Shared} /\ c \in Conn
  BY SharedIsConn DEF ConnOf
<1>4. /\ Call(i, c, label, new, next, handler)
      /\ Works(i, label, View(c), new)
      /\ label = "report" => new.investigations = View(c).investigations
  BY <1>2 DEF RunsProgram
<1>5. c # Shared => label \in Connected
  BY DEF Program, ConnOf, SharedCalls, Connected, TaskAt
<1> HIDE DEF c, label, next, handler
<1>6. pc[i] = label /\ CallKinds(i, c, new, next, handler)
  <2>1. pc[i] = label
    BY <1>4 DEF Call, Runs
  <2>2. CallKinds(i, c, new, next, handler)
    BY <1>1, <1>3, <1>4, CallForm
  <2>3. QED
    BY <2>1, <2>2
<1>7. \A j \in Inv \ {i} : sent'[j] = sent[j]
  BY <1>1, <1>3, <1>4, CallForm
<1>8. mode[c] # "closed"
  <2>1. app = "up"
    BY RepoCallRuns DEF UpInv
  <2>2. QED
    BY <1>3, <1>5, <1>6, <2>1 DEF UpInv, Opened
<1>9. ~WriteRefused(c) /\ ~CommitRefused(c)
  BY <1>3, <1>8, NotRefused
<1>10. \/ ~sent[i] /\ sent'[i] /\ pc' = pc /\ Drafts(c, new) /\ Write(c, new)
       \/ /\ sent[i] /\ ~sent'[i] /\ pc' = [pc EXCEPT ![i] = next]
          /\ IF mode[c] = "write" THEN Publishes(c) ELSE Rests
          /\ Commit(c)
  BY <1>1, <1>6, <1>9, Zenon DEF CallKinds
<1>11. WritesOrCommits(i, p, new)
  BY <1>4, <1>6, <1>7, <1>10, Zenon DEF WritesOrCommits, c, label, next
<1>12. QED
  BY <1>11

LEMMA CallPublishes ==
  ASSUME Undisturbed, ServiceInv, Opened, CalmInv, UpInv, PublishInv, NEW i \in Inv, RepoCall(i)
  PROVE  PublishInv'
<1>1. TypeOK /\ StoreTypeOK /\ StoreInv /\ pc \in [Inv -> Labels]
  BY DEF ServiceInv, TypeOK
<1>2. PICK p \in Program, new \in Tables : WritesOrCommits(i, p, new)
  BY UndisturbedCall
<1> DEFINE c     == ConnOf(i, p[1])
           label == p[1]
           next  == p[2]
<1>3. c \in {i, Shared} /\ c \in Conn /\ c = ConnOf(i, label)
  BY SharedIsConn DEF ConnOf
<1>4. /\ label \in SharedCalls \cup OwnCalls
      /\ label = "report" => c = Shared
      /\ next \in BeforeReport \cup {"report"} => label \in BeforeReport
      /\ next \in AfterReport => label \in AfterReport \cup {"report"}
  BY DEF Program, ConnOf, SharedCalls, OwnCalls, BeforeReport, BeforeFindings, AfterReport
<1>5. /\ pc[i] = label
      /\ Works(i, label, View(c), new)
      /\ label = "report" => new.investigations = View(c).investigations
      /\ \A j \in Inv \ {i} : sent'[j] = sent[j]
      /\ \/ ~sent[i] /\ sent'[i] /\ pc' = pc /\ Drafts(c, new) /\ Write(c, new)
         \/ /\ sent[i] /\ ~sent'[i] /\ pc' = [pc EXCEPT ![i] = next]
            /\ IF mode[c] = "write" THEN Publishes(c) ELSE Rests
            /\ Commit(c)
  BY <1>2, Zenon DEF WritesOrCommits
<1> HIDE DEF c, label, next
<1>6. CASE ~sent[i] /\ sent'[i] /\ pc' = pc /\ Drafts(c, new) /\ Write(c, new)
  <2>1. View(c) = Committed(c) /\ View(c) \in Live
    BY <1>1, <1>3, <1>6, FreshView, CommittedIsLive DEF Write
  <2>2. /\ \A j \in Inv \ {i} : /\ new.investigations[j] = Committed(c).investigations[j]
                                /\ new.reports[j] = Committed(c).reports[j]
        /\ SameStage(Committed(c), new, i) \/ NextStage(Committed(c), new, i)
        /\ label = "report" => ReportExists(new, i)
        /\ label # "report" => (ReportExists(new, i) <=> ReportExists(Committed(c), i))
        /\ new.investigations[i].status = "COMPLETE" => ReportExists(new, i)
    BY <1>4, <1>5, <1>6, <2>1, StatementMoves
  <2>3. Drafting(i, c)'
    BY <1>3, <1>4, <1>5, <1>6 DEF Drafting
  <2>4. QED
    BY <1>1, <1>3, <1>4, <1>5, <1>6, <2>2, <2>3, PublishWrite
<1>7. CASE /\ sent[i] /\ ~sent'[i] /\ pc' = [pc EXCEPT ![i] = next]
           /\ IF mode[c] = "write" THEN Publishes(c) ELSE Rests
           /\ Commit(c)
  <2>1. mode'[c] = "auto" /\ (mode[c] # "write" /\ mode[Shared] = "write" => mode'[Shared] = "write")
    BY <1>3, <1>7, SharedIsConn DEF Commit
  <2>2. \A d \in Conn : Drafting(i, d) => d = c
    BY <1>3, <1>5 DEF Drafting
  <2>3. Live' \subseteq Live
    BY <1>3, <1>7, LiveStays
  <2>4. label = "report" => \A t \in Live' : ReportExists(t, i)
    <3> SUFFICES ASSUME label = "report", NEW t \in Live' PROVE ReportExists(t, i)
      OBVIOUS
    <3>1. c = Shared /\ ReportExists(Committed(Shared), i) /\ db' = Committed(Shared)
      BY <1>4, <1>5, <1>7 DEF PublishInv, ReportPending, Commit
    <3>2. CASE t = db'
      BY <3>1, <3>2
    <3>3. CASE t # db'
      <4>1. PICK d \in Conn : mode'[d] = "write" /\ t = work'
        BY <3>3 DEF Live
      <4>2. d # c /\ mode[d] = "write" /\ work' = work /\ db' = db
        BY <1>7, <2>1, <4>1 DEF Publishes, Rests
      <4>3. SameStage(db, work, i)
        BY <2>2, <4>2 DEF PublishInv, DraftsMove
      <4>4. QED
        BY <3>1, <4>1, <4>2, <4>3 DEF SameStage
    <3>4. QED
      BY <3>2, <3>3
  <2>5. \A t \in Live' : /\ next \in BeforeReport \cup {"report"} => ~ReportExists(t, i)
                         /\ next \in AfterReport => ReportExists(t, i)
    BY <1>4, <1>5, <2>3, <2>4 DEF PublishInv, ReportsFit
  <2>6. \A d \in Conn : mode'[d] = "write" => ~Drafting(i, d)
    BY <2>1, <2>2
  <2>7. Publishes(c) \/ (Rests /\ (mode[Shared] = "write" => mode'[Shared] = "write"))
    BY <1>7, <2>1
  <2>8. QED
    BY <1>1, <1>3, <1>5, <1>7, <2>5, <2>6, <2>7, PublishRest
<1>8. QED
  BY <1>5, <1>6, <1>7

\* A step that writes and commits nothing and moves no coroutine.
LEMMA PublishStays ==
  ASSUME PublishInv, Rests, UNCHANGED taskVars,
         mode[Shared] = "write" => mode'[Shared] = "write"
  PROVE  PublishInv'
<1>1. Live' \subseteq Live
  BY SharedIsConn, LiveStays
<1>2. ReportsFit'
  BY <1>1 DEF taskVars, PublishInv, ReportsFit
<1>3. ReportPending'
  <2>1. Committed(Shared)' = Committed(Shared)
    BY SharedIsConn DEF Rests, Committed
  <2>2. QED
    BY <2>1 DEF taskVars, PublishInv, ReportPending
<1>4. DraftsMove'
  BY DEF taskVars, PublishInv, DraftsMove, Drafting, Rests
<1>5. QED
  BY <1>2, <1>3, <1>4 DEF PublishInv

LEMMA FindingPublishes ==
  ASSUME Undisturbed, ServiceInv, CalmInv, UpInv, PublishInv, NEW i \in Inv,
         InsertFinding(i) \/ CommitEvidence(i)
  PROVE  PublishInv'
<1>1. /\ StoreTypeOK /\ StoreInv /\ ~Fault /\ pc \in [Inv -> Labels] /\ sent \in [Inv -> BOOLEAN]
      /\ Shared \in Conn
  BY NoFault, SharedIsConn DEF ServiceInv, TypeOK, Undisturbed
<1>2. ~WriteRefused(Shared) /\ ~CommitRefused(Shared)
  <2>1. mode[Shared] # "closed"
    BY DEF InsertFinding, CommitEvidence, Runs, UpInv
  <2>2. QED
    BY <1>1, <2>1, NotRefused
<1>3. pc[i] = "evidence" /\ \A j \in Inv \ {i} : sent'[j] = sent[j]
  BY <1>1 DEF InsertFinding, CommitEvidence, CommitAndGet, Runs
<1>4. CASE InsertFinding(i)
  <2> DEFINE new == InsertEvidence(View(Shared), i)
  <2>1. /\ Write(Shared, new) /\ pc' = pc /\ ~sent[i]
    BY <1>1, <1>2, <1>4 DEF InsertFinding
  <2>2. /\ new \in Tables
        /\ new.investigations = View(Shared).investigations
        /\ new.reports = View(Shared).reports
    BY <1>1, ViewType, InsertEvidenceEffect
  <2>3. View(Shared) = Committed(Shared) /\ Drafts(Shared, new)
    BY <1>1, <2>1, <2>2, WriteKind, FreshView DEF Write
  <2> HIDE DEF new
  <2>4. ReportExists(new, i) <=> ReportExists(Committed(Shared), i)
    BY <2>2, <2>3 DEF ReportExists
  <2>5. SameStage(Committed(Shared), new, i)
    BY <2>2, <2>3, <2>4 DEF SameStage
  <2>6. new.investigations[i].status = "COMPLETE" => ReportExists(new, i)
    BY <1>1, <2>2, <2>3, <2>4, CommittedIsLive DEF PublishInv, ReportsFit
  <2>7. QED
    BY <1>1, <1>3, <2>1, <2>2, <2>3, <2>4, <2>5, <2>6, PublishWrite
<1>5. CASE CommitEvidence(i)
  <2>1. Commit(Shared) /\ pc' = [pc EXCEPT ![i] = "lookup"] /\ ~sent'[i]
    BY <1>1, <1>2, <1>5 DEF CommitEvidence, CommitAndGet, Goto
  <2>2. Publishes(Shared) \/ (Rests /\ mode[Shared] # "write")
    BY <1>1, <2>1, CommitKind
  <2>3. Live' \subseteq Live
    BY <1>1, <2>2, LiveStays
  <2>4. \A t \in Live' : ~ReportExists(t, i)
    BY <1>3, <2>3 DEF PublishInv, ReportsFit, BeforeReport
  <2>5. \A d \in Conn : ~Drafting(i, d)
    BY <1>3 DEF Drafting, SharedCalls, OwnCalls
  <2>6. /\ Publishes(Shared) \/ (Rests /\ (mode[Shared] = "write" => mode'[Shared] = "write"))
        /\ \A t \in Live' : /\ "lookup" \in BeforeReport \cup {"report"} => ~ReportExists(t, i)
                            /\ "lookup" \in AfterReport => ReportExists(t, i)
    BY <2>2, <2>4 DEF AfterReport
  <2>7. QED
    BY <1>1, <1>3, <2>1, <2>5, <2>6, PublishRest
<1>6. QED
  BY <1>4, <1>5

LEMMA IdlePublishes ==
  ASSUME Undisturbed, ServiceInv, CalmInv, UpInv, PublishInv, NEW i \in Inv,
         StartSession(i) \/ LookupReport(i) \/ OpenConnection(i) \/ Analyse(i)
           \/ CloseConnection(i) \/ DeliverCancel(i) \/ Receive(i)
  PROVE  PublishInv'
<1>1. /\ StoreTypeOK /\ StoreInv /\ ~Fault /\ pc \in [Inv -> Labels] /\ sent \in [Inv -> BOOLEAN]
      /\ i \in Conn /\ Shared \in Conn /\ i # Shared
  BY NoFault, SharedIsConn DEF ServiceInv, TypeOK, Undisturbed
<1>2. ~DeliverCancel(i)
  BY DEF DeliverCancel, UpInv
<1>3. Open(i) \/ Close(i) \/ ReadShared \/ UNCHANGED storeVars
  BY <1>2 DEF StartSession, LookupReport, OpenConnection, Analyse, CloseConnection, Receive
<1>4. Rests /\ (mode[Shared] = "write" => mode'[Shared] = "write")
  <2>1. Rests
    BY <1>1, <1>3, QuietStoreStep
  <2>2. mode[Shared] = "write" => mode'[Shared] = "write"
    BY <1>1, <1>3 DEF Open, Close, ReadShared, storeVars, StoreTypeOK
  <2>3. QED
    BY <2>1, <2>2
<1>5. ~sent[i] /\ sent' = sent
  BY <1>2, NotSent
  DEF StartSession, LookupReport, OpenConnection, Analyse, CloseConnection, Receive, Runs,
      SharedCalls, OwnCalls, ClosingAt
<1>6. Live' \subseteq Live
  BY <1>1, <1>4, LiveStays
<1>7. \A d \in Conn : ~Drafting(i, d)
  BY <1>5 DEF Drafting
<1>8. \E label : /\ pc' = [pc EXCEPT ![i] = label]
                 /\ label \in BeforeReport \cup {"report"} => pc[i] \in BeforeReport
                 /\ label \notin AfterReport
  <2>1. CASE LookupReport(i)
    <3>1. pc[i] = "lookup" /\ mode[Shared] # "closed"
      BY <2>1 DEF LookupReport, Runs, UpInv
    <3>2. ~ReportExists(View(Shared), i)
      <4>1. View(Shared) \in Live
        BY <1>1, FreshView, CommittedIsLive DEF CalmInv
      <4>2. QED
        BY <3>1, <4>1 DEF PublishInv, ReportsFit, BeforeReport
    <3>3. pc' = [pc EXCEPT ![i] = "report"]
      BY <1>1, <2>1, <3>1, <3>2 DEF LookupReport, Goto
    <3>4. pc[i] \in BeforeReport /\ "report" \notin AfterReport
      BY <3>1 DEF BeforeReport, AfterReport
    <3>5. QED
      BY <3>3, <3>4
  <2>2. CASE StartSession(i) \/ OpenConnection(i) \/ Receive(i)
    <3>1. /\ pc[i] \in BeforeReport
          /\ \E label \in {"open", "running", "insert"} : pc' = [pc EXCEPT ![i] = label]
      BY <1>1, <2>2 DEF StartSession, OpenConnection, Receive, Runs, Goto, BeforeReport, BeforeFindings
    <3>2. QED
      BY <3>1 DEF AfterReport
  <2>3. CASE Analyse(i)
    <3>1. /\ pc[i] \in BeforeReport
          /\ \E label \in {"lookup", "evidence", "failing"} : pc' = [pc EXCEPT ![i] = label]
      BY <2>3 DEF Analyse, Runs, Goto, BeforeReport, BeforeFindings
    <3>2. QED
      BY <3>1 DEF AfterReport
  <2>4. CASE CloseConnection(i)
    <3>1. \E label \in Ended : pc' = [pc EXCEPT ![i] = label]
      BY <2>4 DEF CloseConnection, Goto, ClosingAt, Ended
    <3>2. QED
      BY <3>1 DEF Ended, BeforeReport, BeforeFindings, AfterReport
  <2>5. QED
    BY <1>2, <2>1, <2>2, <2>3, <2>4
<1>9. PICK label :
        /\ pc' = [pc EXCEPT ![i] = label]
        /\ label \in BeforeReport \cup {"report"} => pc[i] \in BeforeReport
        /\ label \notin AfterReport
  BY <1>8
<1>10. \A t \in Live' : label \in BeforeReport \cup {"report"} => ~ReportExists(t, i)
  BY <1>6, <1>9 DEF PublishInv, ReportsFit
<1>11. QED
  BY <1>1, <1>4, <1>5, <1>7, <1>9, <1>10, PublishRest

LEMMA PublishStep ==
  ASSUME Undisturbed
  PROVE  ServiceInv /\ AppInv /\ Opened /\ CalmInv /\ UpInv /\ PublishInv /\ [Next]_vars => PublishInv'
<1> SUFFICES ASSUME ServiceInv, AppInv, Opened, CalmInv, UpInv, PublishInv, [Next]_vars PROVE PublishInv'
  OBVIOUS
<1>1. StoreTypeOK /\ StoreInv /\ Shared \in Conn
  BY SharedIsConn DEF ServiceInv, TypeOK
<1>2. ASSUME NEW i \in Inv, OnTaskDone(i) \/ Poll(i) \/ GetReport(i) \/ ReadReport(i)
      PROVE  PublishInv'
  <2>1. (ReadShared \/ UNCHANGED storeVars) /\ UNCHANGED taskVars
    BY <1>2 DEF OnTaskDone, Poll, GetReport, ReadReport
  <2>2. mode[Shared] = "write" => mode'[Shared] = "write"
    BY <2>1 DEF ReadShared, storeVars
  <2>3. QED
    BY <1>1, <2>1, <2>2, QuietStoreStep, PublishStays
<1>3. CASE UNCHANGED vars
  BY <1>1, <1>3, QuietStoreStep, PublishStays DEF vars, storeVars
<1>4. CASE CloseDb \/ ClearDb \/ CancelSessions \/ Exit
  BY <1>4 DEF CloseDb, ClearDb, CancelSessions, Exit, UpInv, Undisturbed
<1>5. CASE Restart
  <2>1. Rests /\ mode[Shared] # "write" /\ UNCHANGED taskVars
    BY <1>1, <1>5 DEF Restart, Rests, AppInv, StoreTypeOK
  <2>2. QED
    BY <2>1, PublishStays
<1>6. CASE Crash
  <2>1. /\ db' = db
        /\ \A c \in Conn : mode'[c] = "closed"
        /\ \A i \in Inv : ~sent'[i]
        /\ \A i \in Inv : pc'[i] = "lost" \/ (pc'[i] = pc[i] /\ pc[i] \notin HandlerAt \cup TaskAt \cup ClosingAt)
    BY <1>6 DEF Crash, Die
  <2>2. Live' = {db}
    BY <2>1 DEF Live
  <2>3. ReportsFit'
    BY <2>1, <2>2 DEF PublishInv, ReportsFit, BeforeReport, BeforeFindings, AfterReport, HandlerAt, TaskAt, Live
  <2>4. ReportPending' /\ DraftsMove'
    BY <2>1 DEF ReportPending, DraftsMove
  <2>5. QED
    BY <2>3, <2>4 DEF PublishInv
<1>7. QED
  BY <1>2, <1>3, <1>4, <1>5, <1>6, CallPublishes, FindingPublishes, IdlePublishes
  DEF Next, Handler, Task, MemoryNode, RepoCall, Client, Lifespan

UndisturbedInv == ServiceInv /\ AppInv /\ Opened /\ CalmInv /\ UpInv /\ PublishInv

LEMMA UndisturbedInit == Init => UndisturbedInv
<1> SUFFICES ASSUME Init PROVE UndisturbedInv
  OBVIOUS
<1>1. ServiceInv
  BY InitInv
<1>2. AppInv /\ Opened /\ CalmInv /\ UpInv
  BY SharedIsConn
  DEF Init, StoreInit, AppInv, Opened, CalmInv, UpInv, Connected, HandlerAt, TaskAt, ClosingAt
<1>3. ReportsFit
  <2>1. Live = {EmptyTables}
    BY DEF Init, StoreInit, Live
  <2>2. \A i \in Inv : ~ReportExists(EmptyTables, i) /\ EmptyTables.investigations[i].status = "ABSENT"
    BY DEF ReportExists, EmptyTables, NoRow
  <2>3. QED
    BY <2>1, <2>2 DEF Init, ReportsFit, AfterReport
<1>4. ReportPending /\ DraftsMove
  BY DEF Init, StoreInit, ReportPending, DraftsMove
<1>5. QED
  BY <1>1, <1>2, <1>3, <1>4 DEF UndisturbedInv, PublishInv

LEMMA UndisturbedStep == ASSUME Undisturbed PROVE UndisturbedInv /\ [Next]_vars => UndisturbedInv'
<1>1. MaxFaults = 0 /\ ~Stalls
  BY DEF Undisturbed
<1>2. QED
  BY <1>1, NextKeepsInv, AppStep, OpenedStep, CalmStep, UpStep, PublishStep DEF UndisturbedInv

\* memory_node writes the report before either connection writes COMPLETE, and
\* where nothing fails no COMPLETE is committed whose report is missing.
THEOREM CompletesWithReport ==
  ASSUME MaxFaults = 0, ~Stalls, "shutdown" \notin StopKinds
  PROVE  Spec => []CompleteHasReport
<1>1. UndisturbedInv => CompleteHasReport
  BY DEF UndisturbedInv, PublishInv, ReportsFit, Live, CompleteHasReport
<1>2. Undisturbed
  BY DEF Undisturbed
<1>3. QED
  BY <1>1, <1>2, UndisturbedInit, UndisturbedStep, PTL DEF Spec

LEMMA StageIsLifecycleStep ==
  ASSUME NEW i \in Inv, UndisturbedInv, SameStage(db, db', i) \/ NextStage(db, db', i)
  PROVE  \/ Lifecycle!Stay(i) \/ Lifecycle!Submit(i) \/ Lifecycle!Begin(i)
         \/ Lifecycle!Publish(i) \/ Lifecycle!Finish(i) \/ Lifecycle!Fail(i)
<1>1. /\ ReportExists(db, i) \in BOOLEAN /\ ReportExists(db, i)' \in BOOLEAN
      /\ ReportExists(db', i) <=> ReportExists(db, i)'
  BY DEF ReportExists
<1>2. CASE SameStage(db, db', i)
  <2>1. ReportExists(db, i)' = ReportExists(db, i)
    BY <1>2 DEF SameStage, ReportExists
  <2>2. QED
    BY <1>2, <2>1 DEF SameStage, Lifecycle!Stay
<1>3. CASE NextStage(db, db', i)
  BY <1>1, <1>3 DEF NextStage, Lifecycle!Moves, Lifecycle!Submit, Lifecycle!Begin,
                    Lifecycle!Publish, Lifecycle!Finish, Lifecycle!Fail
<1>4. QED
  BY <1>2, <1>3

LEMMA CommitMoves ==
  ASSUME UndisturbedInv, [Next]_vars, NEW i \in Inv
  PROVE  SameStage(db, db', i) \/ NextStage(db, db', i)
<1>1. SameStage(db, db, i)
  BY DEF SameStage
<1>2. QED
  BY <1>1, DbStep DEF UndisturbedInv, PublishInv, DraftsMove

\* Every commit, on whichever connection, is a step of the lifecycle for each
\* investigation: two coroutines may share a transaction, but no commit skips
\* a status, reopens one, or publishes COMPLETE ahead of its report.
THEOREM CommitsFollowLifecycle ==
  ASSUME MaxFaults = 0, ~Stalls, "shutdown" \notin StopKinds
  PROVE  Spec => ImplementsLifecycle
<1>1. Init => Lifecycle!LifecycleInit
  <2> SUFFICES ASSUME Init PROVE Lifecycle!LifecycleInit
    OBVIOUS
  <2>1. db = EmptyTables
    BY DEF Init, StoreInit
  <2>2. \A i \in Inv : db.investigations[i].status = "ABSENT" /\ ReportExists(db, i) = FALSE
    BY <2>1 DEF ReportExists, EmptyTables, NoRow
  <2>3. QED
    BY <2>2 DEF Lifecycle!LifecycleInit
<1>2. UndisturbedInv /\ [Next]_vars => Lifecycle!LifecycleNext
  BY CommitMoves, StageIsLifecycleStep DEF Lifecycle!LifecycleNext
<1>3. Undisturbed
  BY DEF Undisturbed
<1>4. QED
  BY <1>1, <1>2, <1>3, UndisturbedInit, UndisturbedStep, PTL
  DEF Spec, ImplementsLifecycle, Lifecycle!LifecycleSpec

-------------------------------------------------------------------------------
(* What a client is told *)

\* Where a coroutine stands once COMPLETE may have been seen.
Concluding == {"saved", "savedPhase", "complete", "donePhase", "lost"} \cup ClosingAt \cup Ended

Status(t, i) == t.investigations[i].status

\* A client that was told COMPLETE finds it again on the shared connection,
\* except that a crash may take the row back to RUNNING.
ServedInv ==
  /\ \A i \in Inv : seen[i] = "COMPLETE" =>
       /\ pc[i] \in Concluding
       /\ \A t \in Live : Status(t, i) \in {"RUNNING", "COMPLETE"}
       /\ stops = 0 => Status(Committed(Shared), i) = "COMPLETE"
  /\ \A i \in Inv : fetched[i] = "reading" =>
       seen[i] = "COMPLETE" /\ Status(Committed(Shared), i) = "COMPLETE"
  /\ ReportServed

LEMMA ConcludingStays ==
  ASSUME Undisturbed, UndisturbedInv, [Next]_vars, NEW i \in Inv, pc[i] \in Concluding
  PROVE  pc'[i] \in Concluding
<1>1. /\ TypeOK /\ pc \in [Inv -> Labels] /\ ServiceInv /\ Opened /\ CalmInv /\ UpInv
  BY DEF UndisturbedInv, ServiceInv, TypeOK
<1>2. ASSUME NEW j \in Inv, RepoCall(j) PROVE pc'[i] \in Concluding
  <2>1. PICK p \in Program, new \in Tables : WritesOrCommits(j, p, new)
    BY <1>1, <1>2, UndisturbedCall
  <2>2. pc[j] = p[1] /\ (pc' = pc \/ pc' = [pc EXCEPT ![j] = p[2]])
    BY <2>1 DEF WritesOrCommits
  <2>3. p[1] \in Concluding => p[2] \in Concluding
    BY DEF Program, Concluding, ClosingAt, Ended
  <2>4. QED
    BY <1>1, <2>2, <2>3
<1>3. ASSUME NEW j \in Inv,
             StartSession(j) \/ LookupReport(j) \/ OpenConnection(j) \/ Analyse(j) \/ Receive(j)
               \/ InsertFinding(j) \/ CommitEvidence(j)
      PROVE  pc'[i] \in Concluding
  <2>1. pc[j] \notin Concluding /\ \E label : pc' = [pc EXCEPT ![j] = label]
    BY <1>1, <1>3
    DEF StartSession, LookupReport, OpenConnection, Analyse, Receive, InsertFinding, CommitEvidence,
        CommitAndGet, Runs, Goto, Concluding, ClosingAt, Ended
  <2>2. QED
    BY <1>1, <2>1
<1>4. ASSUME NEW j \in Inv, CloseConnection(j) PROVE pc'[i] \in Concluding
  <2>1. \E label \in Ended : pc' = [pc EXCEPT ![j] = label]
    BY <1>4 DEF CloseConnection, Goto, ClosingAt, Ended
  <2>2. QED
    BY <1>1, <2>1 DEF Concluding
<1>5. ASSUME NEW j \in Inv,
             DeliverCancel(j) \/ OnTaskDone(j) \/ Poll(j) \/ GetReport(j) \/ ReadReport(j)
      PROVE  pc'[i] \in Concluding
  BY <1>1, <1>5 DEF DeliverCancel, OnTaskDone, Poll, GetReport, ReadReport, taskVars, UpInv
<1>6. CASE Lifespan
  <2>1. pc'[i] \in {pc[i], "lost"}
    BY <1>6 DEF Lifespan, CloseDb, ClearDb, CancelSessions, Exit, Crash, Die, Restart, taskVars
  <2>2. QED
    BY <2>1 DEF Concluding
<1>7. CASE UNCHANGED vars
  BY <1>7 DEF vars, taskVars
<1>8. QED
  BY <1>2, <1>3, <1>4, <1>5, <1>6, <1>7 DEF Next, Handler, Task, MemoryNode, RepoCall, Client

\* Nobody takes COMPLETE back, nor fails an investigation that is concluding.
Advances(t, u, i) ==
  /\ Status(t, i) = "COMPLETE" => Status(u, i) = "COMPLETE"
  /\ pc[i] \in Concluding /\ Status(t, i) = "RUNNING" => Status(u, i) \in {"RUNNING", "COMPLETE"}

LEMMA DraftAdvances ==
  ASSUME Undisturbed, UndisturbedInv, NEW i \in Inv, RepoCall(i) \/ InsertFinding(i), ~sent[i]
  PROVE  \E c \in Conn : \E new : Drafts(c, new) /\ \A j \in Inv : Advances(Committed(c), new, j)
<1>1. /\ TypeOK /\ StoreTypeOK /\ StoreInv /\ ~Fault /\ Shared \in Conn
      /\ ServiceInv /\ Opened /\ CalmInv /\ UpInv /\ PublishInv
  BY NoFault, SharedIsConn DEF UndisturbedInv, ServiceInv, TypeOK, Undisturbed
<1>2. CASE RepoCall(i)
  <2>1. PICK p \in Program, new \in Tables : WritesOrCommits(i, p, new)
    BY <1>1, <1>2, UndisturbedCall
  <2> DEFINE c     == ConnOf(i, p[1])
             label == p[1]
  <2>2. c \in Conn /\ label \in SharedCalls \cup OwnCalls
    BY SharedIsConn DEF Program, ConnOf, SharedCalls, OwnCalls
  <2>3. /\ pc[i] = label
        /\ Works(i, label, View(c), new)
        /\ label = "report" => new.investigations = View(c).investigations
        /\ ~sent[i] /\ Drafts(c, new) /\ Write(c, new)
    BY <2>1, <2>2 DEF WritesOrCommits
  <2> HIDE DEF c, label
  <2>4. View(c) = Committed(c) /\ View(c) \in Live
    BY <1>1, <2>2, <2>3, FreshView, CommittedIsLive DEF Write
  <2>5. /\ \A j \in Inv \ {i} : new.investigations[j] = Committed(c).investigations[j]
        /\ SameStage(Committed(c), new, i) \/ NextStage(Committed(c), new, i)
    BY <1>1, <2>2, <2>3, <2>4, StatementMoves
  <2>6. \A j \in Inv \ {i} : Advances(Committed(c), new, j)
    BY <2>5 DEF Advances, Status
  <2>7. Advances(Committed(c), new, i)
    <3>1. Status(Committed(c), i) = "COMPLETE" => Status(new, i) = "COMPLETE"
      BY <2>5 DEF SameStage, NextStage, Status
    <3>2. CASE label = "failing"
      BY <2>3, <3>1, <3>2 DEF Advances, Concluding, ClosingAt, Ended
    <3>3. CASE label # "failing"
      <4>1. Status(Committed(c), i) = "RUNNING" => Status(new, i) # "FAILED"
        BY <2>2, <2>3, <2>4, <3>3 DEF Works, StatusAfter, Status
      <4>2. QED
        BY <2>5, <3>1, <4>1 DEF Advances, SameStage, NextStage, Status
    <3>4. QED
      BY <3>2, <3>3
  <2>8. QED
    BY <2>2, <2>3, <2>6, <2>7
<1>3. CASE InsertFinding(i)
  <2> DEFINE new == InsertEvidence(View(Shared), i)
  <2>1. mode[Shared] # "closed"
    BY <1>3 DEF InsertFinding, Runs, UndisturbedInv, UpInv
  <2>2. Write(Shared, new)
    BY <1>1, <1>3, <2>1, NotRefused DEF InsertFinding
  <2>3. new \in Tables /\ new.investigations = View(Shared).investigations
    BY <1>1, ViewType, InsertEvidenceEffect
  <2>4. View(Shared) = Committed(Shared) /\ Drafts(Shared, new)
    BY <1>1, <2>2, <2>3, WriteKind, FreshView DEF Write
  <2> HIDE DEF new
  <2>5. \A j \in Inv : Advances(Committed(Shared), new, j)
    BY <2>3, <2>4 DEF Advances, Status
  <2>6. QED
    BY <1>1, <2>4, <2>5
<1>4. QED
  BY <1>2, <1>3

LEMMA CommitRests ==
  ASSUME Undisturbed, UndisturbedInv, NEW i \in Inv, RepoCall(i) \/ CommitEvidence(i), sent[i]
  PROVE  \E c \in Conn : Publishes(c) \/ (Rests /\ mode'[Shared] = mode[Shared])
<1>1. /\ StoreTypeOK /\ StoreInv /\ ~Fault /\ Shared \in Conn
      /\ ServiceInv /\ Opened /\ CalmInv /\ UpInv /\ PublishInv
  BY NoFault, SharedIsConn DEF UndisturbedInv, ServiceInv, TypeOK, Undisturbed
<1>2. \E c \in Conn : Commit(c)
  <2>1. CASE RepoCall(i)
    <3>1. PICK p \in Program, new \in Tables : WritesOrCommits(i, p, new)
      BY <1>1, <2>1, UndisturbedCall
    <3>2. Commit(ConnOf(i, p[1])) /\ ConnOf(i, p[1]) \in Conn
      BY <3>1, SharedIsConn DEF WritesOrCommits, ConnOf
    <3>3. QED
      BY <3>2
  <2>2. CASE CommitEvidence(i)
    <3>1. mode[Shared] # "closed"
      BY <2>2 DEF CommitEvidence, Runs, UndisturbedInv, UpInv
    <3>2. QED
      BY <1>1, <2>2, <3>1, NotRefused DEF CommitEvidence, CommitAndGet
  <2>3. QED
    BY <2>1, <2>2
<1>3. PICK c \in Conn : Commit(c)
  BY <1>2
<1>4. IF mode[c] = "write" THEN Publishes(c) ELSE Rests
  BY <1>1, <1>3, CommitKind
<1>5. mode[c] # "write" => mode'[Shared] = mode[Shared]
  BY <1>1, <1>3 DEF Commit, CalmInv
<1>6. QED
  BY <1>4, <1>5

\* What a step that is not a crash does to the tables.
LEMMA UndisturbedStore ==
  ASSUME Undisturbed, UndisturbedInv, [Next]_vars, ~Crash
  PROVE  \/ Rests /\ (mode[Shared] = "write" => mode'[Shared] = "write")
         \/ \E c \in Conn : Publishes(c)
         \/ \E c \in Conn : \E new : Drafts(c, new) /\ \A j \in Inv : Advances(Committed(c), new, j)
<1>1. /\ StoreTypeOK /\ StoreInv /\ Shared \in Conn /\ Inv \subseteq Conn /\ Shared \notin Inv
  BY SharedIsConn DEF UndisturbedInv, ServiceInv, TypeOK
<1>2. ASSUME NEW i \in Inv, RepoCall(i) \/ InsertFinding(i) \/ CommitEvidence(i)
      PROVE  \/ Rests /\ (mode[Shared] = "write" => mode'[Shared] = "write")
             \/ \E c \in Conn : Publishes(c)
             \/ \E c \in Conn : \E new : Drafts(c, new) /\ \A j \in Inv : Advances(Committed(c), new, j)
  <2>1. CASE sent[i]
    <3>1. ~InsertFinding(i)
      BY <2>1 DEF InsertFinding
    <3>2. QED
      BY <1>2, <2>1, <3>1, CommitRests
  <2>2. CASE ~sent[i]
    <3>1. ~CommitEvidence(i)
      BY <2>2 DEF CommitEvidence, CommitAndGet
    <3>2. QED
      BY <1>2, <2>2, <3>1, DraftAdvances
  <2>3. QED
    BY <2>1, <2>2
<1>3. ASSUME \E i \in Inv : Open(i) \/ Close(i) \/ ReadShared \/ UNCHANGED storeVars
      PROVE  Rests /\ (mode[Shared] = "write" => mode'[Shared] = "write")
  <2>1. PICK i \in Inv : Open(i) \/ Close(i) \/ ReadShared \/ UNCHANGED storeVars
    BY <1>3
  <2>2. Rests
    BY <1>1, <2>1, QuietStoreStep
  <2>3. mode[Shared] = "write" => mode'[Shared] = "write"
    BY <1>1, <2>1 DEF Open, Close, ReadShared, storeVars, StoreTypeOK
  <2>4. QED
    BY <2>2, <2>3
<1>4. ASSUME NEW i \in Inv,
             StartSession(i) \/ LookupReport(i) \/ OpenConnection(i) \/ Analyse(i)
               \/ CloseConnection(i) \/ DeliverCancel(i) \/ OnTaskDone(i) \/ Client(i)
      PROVE  Rests /\ (mode[Shared] = "write" => mode'[Shared] = "write")
  BY <1>3, <1>4
  DEF StartSession, LookupReport, OpenConnection, Analyse, CloseConnection, DeliverCancel,
      OnTaskDone, Client, Receive, Poll, GetReport, ReadReport
<1>5. CASE UNCHANGED vars
  BY <1>5 DEF vars, storeVars, Rests
<1>6. CASE CloseDb \/ ClearDb \/ CancelSessions \/ Exit
  BY <1>6 DEF CloseDb, ClearDb, CancelSessions, Exit, UndisturbedInv, UpInv, Undisturbed
<1>7. CASE Restart
  BY <1>1, <1>7 DEF Restart, Rests, UndisturbedInv, AppInv, StoreTypeOK
<1>8. QED
  BY <1>2, <1>4, <1>5, <1>6, <1>7
  DEF Next, Handler, Task, MemoryNode, RepoCall, Lifespan

\* So COMPLETE stays where it could be read, and nothing that is concluding
\* falls back.
LEMMA ReadsStay ==
  ASSUME Undisturbed, UndisturbedInv, [Next]_vars, ~Crash, NEW i \in Inv
  PROVE  /\ Status(Committed(Shared), i) = "COMPLETE" => Status(Committed(Shared)', i) = "COMPLETE"
         /\ pc[i] \in Concluding /\ (\A t \in Live : Status(t, i) \in {"RUNNING", "COMPLETE"})
              => \A t \in Live' : Status(t, i) \in {"RUNNING", "COMPLETE"}
<1>1. Shared \in Conn /\ StoreInv
  BY SharedIsConn DEF UndisturbedInv, ServiceInv
<1>2. CASE Rests /\ (mode[Shared] = "write" => mode'[Shared] = "write")
  <2>1. Committed(Shared)' = Committed(Shared)
    BY <1>1, <1>2 DEF Rests, Committed
  <2>2. Live' \subseteq Live
    BY <1>1, <1>2, LiveStays
  <2>3. QED
    BY <2>1, <2>2
<1>3. CASE \E c \in Conn : Publishes(c)
  <2>1. PICK c \in Conn : Publishes(c)
    BY <1>3
  <2>2. Committed(Shared)' = work /\ mode[c] = "write"
    BY <1>1, <2>1 DEF Publishes, Committed
  <2>3. Status(Committed(Shared), i) = "COMPLETE" => Status(work, i) = "COMPLETE"
    BY <2>2 DEF UndisturbedInv, CalmInv, Committed, Status
  <2>4. Live' \subseteq Live
    BY <2>1, LiveStays
  <2>5. QED
    BY <2>2, <2>3, <2>4
<1>4. CASE \E c \in Conn : \E new : Drafts(c, new) /\ \A j \in Inv : Advances(Committed(c), new, j)
  <2>1. PICK c, new : c \in Conn /\ Drafts(c, new) /\ \A j \in Inv : Advances(Committed(c), new, j)
    BY <1>4
  <2>2. CASE c = Shared
    <3>1. Committed(Shared)' = new
      BY <1>1, <2>1, <2>2 DEF Drafts, Committed
    <3>2. Live' \subseteq Live \cup {new} /\ Committed(Shared) \in Live
      BY <1>1, <2>1, <2>2, LiveDraft, CommittedIsLive
    <3>3. QED
      BY <2>1, <2>2, <3>1, <3>2 DEF Advances
  <2>3. CASE c # Shared
    <3>1. Committed(Shared)' = Committed(Shared)
      BY <1>1, <2>1, <2>3 DEF Drafts, Committed, LockFree
    <3>2. Live' \subseteq Live \cup {new} /\ Committed(c) \in Live
      BY <2>1, LiveDraft, CommittedIsLive
    <3>3. QED
      BY <2>1, <3>1, <3>2 DEF Advances
  <2>4. QED
    BY <2>2, <2>3
<1>5. QED
  BY <1>2, <1>3, <1>4, UndisturbedStore

\* The first poll that sees COMPLETE sees a row that nobody takes back.
LEMMA SeenFirst ==
  ASSUME UndisturbedInv, NEW i \in Inv, pc[i] \notin HandlerAt \cup {"idle", "rejected"},
         Status(Committed(Shared), i) = "COMPLETE"
  PROVE  pc[i] \in Concluding /\ \A t \in Live : Status(t, i) \in {"RUNNING", "COMPLETE"}
<1>1. /\ Shared \in Conn /\ StoreInv /\ pc[i] \in Labels
  BY SharedIsConn DEF UndisturbedInv, ServiceInv, TypeOK
<1>2. Committed(Shared) \in Live
  BY <1>1, CommittedIsLive
<1>3. "COMPLETE" \in MayBe(pc[i]) /\ pc[i] # "failing"
  BY <1>2 DEF UndisturbedInv, ServiceInv, StageInv, RowsFit, CalmInv, Status
<1>4. pc[i] \in Concluding
  BY <1>1, <1>3 DEF MayBe, Concluding, Labels, HandlerAt, TaskAt
<1>5. ASSUME NEW t \in Live PROVE Status(t, i) \in {"RUNNING", "COMPLETE"}
  <2>1. CASE mode[Shared] = "write"
    <3>1. Committed(Shared) = work /\ t \in {db, work}
      BY <2>1 DEF Committed, Live
    <3>2. SameStage(db, work, i) \/ NextStage(db, work, i)
      BY <1>1, <2>1 DEF UndisturbedInv, PublishInv, DraftsMove
    <3>3. QED
      BY <3>1, <3>2 DEF SameStage, NextStage, Status
  <2>2. CASE mode[Shared] # "write"
    <3>1. Status(db, i) = "COMPLETE"
      BY <2>2 DEF Committed
    <3>2. (\E c \in Conn : mode[c] = "write") => Status(work, i) = "COMPLETE"
      BY <3>1 DEF UndisturbedInv, CalmInv, Status
    <3>3. QED
      BY <3>1, <3>2 DEF Live
  <2>3. QED
    BY <2>1, <2>2
<1>6. QED
  BY <1>4, <1>5

LEMMA ServedStep ==
  ASSUME Undisturbed
  PROVE  UndisturbedInv /\ ServedInv /\ [Next]_vars => ServedInv'
<1> SUFFICES ASSUME UndisturbedInv, ServedInv, [Next]_vars PROVE ServedInv'
  OBVIOUS
<1>1. /\ StoreTypeOK /\ StoreInv /\ Shared \in Conn /\ stops \in Nat
      /\ seen \in [Inv -> Statuses \cup {"none"}]
      /\ fetched \in [Inv -> {"none", "reading", "report", "stub", "early", "failed"}]
  BY SharedIsConn, ServiceAssumption DEF UndisturbedInv, ServiceInv, TypeOK
<1>2. View(Shared) = Committed(Shared) /\ Committed(Shared) \in Live
  BY <1>1, FreshView, CommittedIsLive DEF UndisturbedInv, CalmInv
<1>3. \A i \in Inv : pc[i] \in Concluding => pc'[i] \in Concluding
  BY ConcludingStays
<1>4. CASE ~Crash /\ UNCHANGED <<stops, seen, fetched>>
  BY <1>3, <1>4, ReadsStay DEF ServedInv, ReportServed
<1>5. ASSUME ReadShared PROVE Live' = Live /\ Committed(Shared)' = Committed(Shared)
  BY <1>1, <1>5 DEF ReadShared, UndisturbedInv, CalmInv, Live, Committed
<1>6. ASSUME NEW i \in Inv, Poll(i) PROVE ServedInv'
  <2>1. /\ Live' = Live /\ Committed(Shared)' = Committed(Shared)
        /\ pc' = pc /\ stops' = stops /\ fetched' = fetched
        /\ seen' = [seen EXCEPT ![i] = Status(Committed(Shared), i)]
        /\ pc[i] \notin HandlerAt \cup {"idle", "rejected"}
        /\ seen[i] # "COMPLETE"
    BY <1>2, <1>5, <1>6 DEF Poll, taskVars, resultVars, Status, Terminal
  <2>2. seen'[i] = "COMPLETE" =>
          /\ pc[i] \in Concluding
          /\ \A t \in Live : Status(t, i) \in {"RUNNING", "COMPLETE"}
          /\ Status(Committed(Shared), i) = "COMPLETE"
    BY <1>1, <2>1, SeenFirst
  <2>3. \A j \in Inv \ {i} : seen'[j] = seen[j]
    BY <1>1, <2>1
  <2>4. QED
    BY <2>1, <2>2, <2>3 DEF ServedInv, ReportServed
<1>7. ASSUME NEW i \in Inv, GetReport(i) \/ ReadReport(i) PROVE ServedInv'
  <2>1. /\ Live' = Live /\ Committed(Shared)' = Committed(Shared)
        /\ pc' = pc /\ stops' = stops /\ seen' = seen
    BY <1>5, <1>7 DEF GetReport, ReadReport, taskVars, resultVars
  <2>2. /\ \A j \in Inv \ {i} : fetched'[j] = fetched[j]
        /\ fetched'[i] \in {"reading", "early", "report"}
        /\ fetched'[i] = "reading" => seen[i] = "COMPLETE" /\ Status(Committed(Shared), i) = "COMPLETE"
        /\ fetched'[i] = "early" => stops > 0
    <3>1. CASE GetReport(i)
      <4> DEFINE s == Status(Committed(Shared), i)
      <4>1. /\ seen[i] = "COMPLETE" /\ s \in {"RUNNING", "COMPLETE"}
            /\ stops = 0 => s = "COMPLETE"
        BY <1>2, <3>1 DEF GetReport, ServedInv
      <4>2. fetched' = [fetched EXCEPT ![i] = CASE s \in {"PENDING", "RUNNING"} -> "early"
                                                [] s = "FAILED" -> "failed"
                                                [] OTHER -> "reading"]
        BY <1>2, <3>1 DEF GetReport, Status
      <4> HIDE DEF s
      <4>3. fetched'[i] = IF s = "RUNNING" THEN "early" ELSE "reading"
        BY <1>1, <4>1, <4>2
      <4>4. QED
        BY <1>1, <4>1, <4>2, <4>3 DEF s
    <3>2. CASE ReadReport(i)
      <4>1. ReportExists(View(Shared), i)
        BY <1>2, <3>2 DEF ReadReport, ServedInv, UndisturbedInv, PublishInv, ReportsFit, Status
      <4>2. fetched' = [fetched EXCEPT ![i] = "report"]
        BY <3>2, <4>1 DEF ReadReport
      <4>3. QED
        BY <1>1, <4>2
    <3>3. QED
      BY <1>7, <3>1, <3>2
  <2>3. QED
    BY <2>1, <2>2 DEF ServedInv, ReportServed
<1>8. CASE Crash
  <2>1. /\ db' = db /\ seen' = seen /\ stops' = stops + 1
        /\ \A c \in Conn : mode'[c] = "closed"
        /\ \A i \in Inv : fetched'[i] # "reading" /\ fetched'[i] \in {"none", fetched[i]}
    BY <1>1, <1>8 DEF Crash, Die
  <2>2. Live' \subseteq Live /\ stops' > 0
    BY <1>1, <2>1 DEF Live
  <2>3. QED
    BY <1>3, <2>1, <2>2 DEF ServedInv, ReportServed
<1>9. CASE ~Crash /\ ~\E i \in Inv : Poll(i) \/ GetReport(i) \/ ReadReport(i)
  <2>1. ASSUME NEW i \in Inv, RepoCall(i) \/ InsertFinding(i) \/ CommitEvidence(i)
        PROVE  UNCHANGED <<stops, seen, fetched>>
    BY <2>1, RepoCallSteps DEF clientVars
  <2>2. ASSUME NEW i \in Inv,
               StartSession(i) \/ LookupReport(i) \/ OpenConnection(i) \/ Analyse(i)
                 \/ CloseConnection(i) \/ DeliverCancel(i) \/ OnTaskDone(i) \/ Receive(i)
        PROVE  UNCHANGED <<stops, seen, fetched>>
    BY <2>2 DEF StartSession, LookupReport, OpenConnection, Analyse, CloseConnection, DeliverCancel,
                OnTaskDone, Receive, clientVars
  <2>3. CASE CloseDb \/ ClearDb \/ CancelSessions \/ Restart \/ UNCHANGED vars
    BY <1>4, <1>9, <2>3 DEF CloseDb, ClearDb, CancelSessions, Restart, clientVars, vars
  <2>4. ~Exit
    BY DEF Exit, UndisturbedInv, UpInv
  <2>5. QED
    BY <1>4, <1>9, <2>1, <2>2, <2>3, <2>4
    DEF Next, Handler, Task, MemoryNode, RepoCall, Client, Lifespan
<1>10. QED
  BY <1>6, <1>7, <1>8, <1>9

\* GET /report/{id}, asked for after a poll that saw COMPLETE on the shared
\* connection, finds the row COMPLETE and, after its second await, the report;
\* only where the process crashed in between may it be refused as too early.
THEOREM ReportsAreServed ==
  ASSUME MaxFaults = 0, ~Stalls, "shutdown" \notin StopKinds
  PROVE  Spec => []ReportServed
<1>1. Init => ServedInv
  BY DEF Init, ServedInv, ReportServed
<1>2. ServedInv => ReportServed
  BY DEF ServedInv
<1>3. Undisturbed
  BY DEF Undisturbed
<1>4. QED
  BY <1>1, <1>2, <1>3, UndisturbedInit, UndisturbedStep, ServedStep, PTL DEF Spec

===============================================================================
