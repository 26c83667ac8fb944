-------------------------- MODULE SqliteStoreProofs --------------------------
(***************************************************************************)
(* Facts about the tables and about one step of the store, used by the     *)
(* proofs about the service: what each statement does to the row it names  *)
(* and that it leaves all others alone, and the four things a step of the  *)
(* store can do to the committed tables and to those being written.        *)
(***************************************************************************)
EXTENDS SqliteStore, TLAPS

-----------------------------------------------------------------------------
(* The statements of the repositories *)

\* A row whose timestamps, score and error agree with its status.
Sound(r) ==
  /\ r.completed <=> r.status \in Terminal
  /\ r.status \in {"RUNNING", "COMPLETE"} => r.started
  /\ r.status = "COMPLETE" => r.risk
  /\ r.error <=> r.status = "FAILED"

\* Only the row of i may differ between t and new.
OneRow(t, new, i) ==
  /\ new.evidence = t.evidence
  /\ new.reports = t.reports
  /\ \A j \in Inv \ {i} : new.investigations[j] = t.investigations[j]

LEMMA NoRowType == NoRow \in Row
  BY DEF NoRow, Row

LEMMA EmptyTablesType == EmptyTables \in Tables
  BY NoRowType DEF EmptyTables, Tables, NoReport

LEMMA RowAt == ASSUME NEW t \in Tables, NEW i \in Inv PROVE t.investigations[i] \in Row
  BY DEF Tables

\* UPDATE ... WHERE id = i.
LEMMA UpdateRowEffect ==
  ASSUME NEW t \in Tables, NEW i \in Inv, NEW row \in Row
  PROVE  /\ UpdateRow(t, i, row) \in Tables
         /\ OneRow(t, UpdateRow(t, i, row), i)
         /\ Exists(t, i) => UpdateRow(t, i, row).investigations[i] = row
<1>1. CASE Exists(t, i)
  <2>1. UpdateRow(t, i, row) = [t EXCEPT !.investigations[i] = row]
    BY <1>1 DEF UpdateRow
  <2>2. QED
    BY <1>1, <2>1 DEF OneRow, Tables
<1>2. CASE ~Exists(t, i)
  BY <1>2 DEF UpdateRow, OneRow
<1>3. QED
  BY <1>1, <1>2

LEMMA InsertInvestigationEffect ==
  ASSUME NEW t \in Tables, NEW i \in Inv
  PROVE  LET new == InsertInvestigation(t, i)
         IN  /\ new \in Tables
             /\ OneRow(t, new, i)
             /\ new.investigations[i].status = "PENDING"
             /\ Sound(new.investigations[i])
<1> DEFINE row == [NoRow EXCEPT !.status = "PENDING"]
<1>1. row \in Row /\ row.status = "PENDING" /\ Sound(row)
  BY DEF NoRow, Row, Statuses, Sound, Terminal
<1>2. InsertInvestigation(t, i) = [t EXCEPT !.investigations[i] = row]
  BY DEF InsertInvestigation
<1> HIDE DEF row
<1>3. QED
  BY <1>1, <1>2 DEF OneRow, Tables

\* update_status keeps a row sound when it comes in the order of the program.
LEMMA SetStatusEffect ==
  ASSUME NEW t \in Tables, NEW i \in Inv, NEW s \in {"RUNNING", "COMPLETE"}
  PROVE  LET new == SetStatus(t, i, s)
             r   == t.investigations[i]
         IN  /\ new \in Tables
             /\ OneRow(t, new, i)
             /\ Exists(t, i) =>
                  LET n == new.investigations[i]
                  IN  /\ n.status = s
                      /\ s = "RUNNING" /\ r.status \in {"PENDING", "RUNNING"} /\ Sound(r) => Sound(n)
                      /\ s = "COMPLETE" /\ r.status \in {"RUNNING", "COMPLETE"} /\ Sound(r) =>
                           Sound([n EXCEPT !.risk = TRUE])
<1> DEFINE r   == t.investigations[i]
           row == [r EXCEPT !.status    = s,
                            !.started   = r.started \/ (r.status # "RUNNING" /\ s = "RUNNING"),
                            !.completed = r.completed \/ s \in Terminal]
<1>1. r \in Row
  BY RowAt
<1>2. row \in Row /\ row.status = s
  BY <1>1 DEF Row, Statuses
<1>3. s = "RUNNING" /\ r.status \in {"PENDING", "RUNNING"} /\ Sound(r) => Sound(row)
  BY <1>1 DEF Row, Sound, Terminal
<1>4. s = "COMPLETE" /\ r.status \in {"RUNNING", "COMPLETE"} /\ Sound(r) =>
        Sound([row EXCEPT !.risk = TRUE])
  BY <1>1 DEF Row, Sound, Terminal
<1>5. SetStatus(t, i, s) = UpdateRow(t, i, row)
  BY DEF SetStatus
<1> HIDE DEF row
<1>6. QED
  BY <1>2, <1>3, <1>4, <1>5, UpdateRowEffect

\* The second half of update_status(COMPLETE) adds the score.
LEMMA SetStatusAndRiskEffect ==
  ASSUME NEW t \in Tables, NEW i \in Inv
  PROVE  LET new == SetStatusAndRisk(t, i, "COMPLETE")
             r   == t.investigations[i]
         IN  /\ new \in Tables
             /\ OneRow(t, new, i)
             /\ Exists(t, i) =>
                  /\ new.investigations[i].status = "COMPLETE"
                  /\ r.status \in {"RUNNING", "COMPLETE"} /\ Sound(r) => Sound(new.investigations[i])
<1> DEFINE u   == SetStatus(t, i, "COMPLETE")
           row == [u.investigations[i] EXCEPT !.risk = TRUE]
<1>1. u \in Tables /\ OneRow(t, u, i)
  BY SetStatusEffect
<1>2. Exists(t, i) =>
        /\ u.investigations[i].status = "COMPLETE"
        /\ t.investigations[i].status \in {"RUNNING", "COMPLETE"} /\ Sound(t.investigations[i])
             => Sound(row)
  BY SetStatusEffect
<1>3. SetStatusAndRisk(t, i, "COMPLETE") = UpdateRow(u, i, row)
  BY DEF SetStatusAndRisk
<1> HIDE DEF u
<1>4. row \in Row /\ row.status = u.investigations[i].status
  BY <1>1, RowAt DEF Row
<1> HIDE DEF row
<1>5. /\ UpdateRow(u, i, row) \in Tables
      /\ OneRow(u, UpdateRow(u, i, row), i)
      /\ Exists(u, i) => UpdateRow(u, i, row).investigations[i] = row
  BY <1>1, <1>4, UpdateRowEffect
<1>6. Exists(t, i) => Exists(u, i)
  BY <1>2 DEF Exists
<1>7. QED
  BY <1>1, <1>2, <1>3, <1>4, <1>5, <1>6 DEF OneRow

\* mark_failed makes every row it finds sound.
LEMMA MarkFailedEffect ==
  ASSUME NEW t \in Tables, NEW i \in Inv
  PROVE  LET new == MarkFailed(t, i)
         IN  /\ new \in Tables
             /\ OneRow(t, new, i)
             /\ Exists(t, i) => /\ new.investigations[i].status = "FAILED"
                                /\ Sound(new.investigations[i])
<1> DEFINE row == [t.investigations[i] EXCEPT !.status    = "FAILED",
                                              !.completed = TRUE,
                                              !.error     = TRUE]
<1>1. row \in Row /\ row.status = "FAILED" /\ Sound(row)
  BY RowAt DEF Row, Statuses, Sound, Terminal
<1>2. MarkFailed(t, i) = UpdateRow(t, i, row)
  BY DEF MarkFailed
<1> HIDE DEF row
<1>3. QED
  BY <1>1, <1>2, UpdateRowEffect

\* update_phase and save_reasoning_log leave the status and its witnesses.
SameStatus(r, s) ==
  /\ s.status = r.status /\ s.started = r.started /\ s.completed = r.completed
  /\ s.risk = r.risk /\ s.error = r.error

LEMMA SetPhaseEffect ==
  ASSUME NEW t \in Tables, NEW i \in Inv, NEW p \in {"INIT", "DONE"}
  PROVE  LET new == SetPhase(t, i, p)
         IN  /\ new \in Tables
             /\ OneRow(t, new, i)
             /\ Exists(t, i) => SameStatus(t.investigations[i], new.investigations[i])
<1> DEFINE row == [t.investigations[i] EXCEPT !.phase = p]
<1>1. row \in Row /\ SameStatus(t.investigations[i], row)
  BY RowAt DEF Row, SameStatus
<1>2. SetPhase(t, i, p) = UpdateRow(t, i, row)
  BY DEF SetPhase
<1> HIDE DEF row
<1>3. QED
  BY <1>1, <1>2, UpdateRowEffect

LEMMA SaveReasoningEffect ==
  ASSUME NEW t \in Tables, NEW i \in Inv
  PROVE  LET new == SaveReasoning(t, i)
         IN  /\ new \in Tables
             /\ OneRow(t, new, i)
             /\ Exists(t, i) => SameStatus(t.investigations[i], new.investigations[i])
<1> DEFINE row == [t.investigations[i] EXCEPT !.reasoning = TRUE]
<1>1. row \in Row /\ SameStatus(t.investigations[i], row)
  BY RowAt DEF Row, SameStatus
<1>2. SaveReasoning(t, i) = UpdateRow(t, i, row)
  BY DEF SaveReasoning
<1> HIDE DEF row
<1>3. QED
  BY <1>1, <1>2, UpdateRowEffect

LEMMA InsertEvidenceEffect ==
  ASSUME NEW t \in Tables, NEW i \in Inv
  PROVE  LET new == InsertEvidence(t, i)
         IN  /\ new \in Tables
             /\ new.investigations = t.investigations
             /\ new.reports = t.reports
             /\ new.evidence = [t.evidence EXCEPT ![i] = @ + 1]
  BY DEF InsertEvidence, Tables

LEMMA InsertReportEffect ==
  ASSUME NEW t \in Tables, NEW i \in Inv, NEW n \in Nat
  PROVE  LET new == InsertReport(t, i, n)
         IN  /\ new \in Tables
             /\ new.investigations = t.investigations
             /\ new.evidence = t.evidence
             /\ new.reports = [t.reports EXCEPT ![i] = n]
  BY DEF InsertReport, Tables

-----------------------------------------------------------------------------
(* The steps of the store *)

\* Only the shared connection holds a read snapshot, a snapshot that is not
\* stale is the committed state, and at most one connection writes.
StoreInv ==
  /\ \A i \in Inv : mode[i] \notin {"read", "stale"}
  /\ mode[Shared] = "read" => snap = db
  /\ \A c, d \in Conn : mode[c] = "write" /\ mode[d] = "write" => c = d

\* A step of connection c, with new the effect of its statement if it has one.
StoreStep(c, new) ==
  \/ Open(c) \/ Close(c)
  \/ Write(c, new) \/ WriteRefused(c) \/ WriteBreaks(c)
  \/ Commit(c) \/ CommitRefused(c) \/ CommitBreaks(c)
  \/ c = Shared /\ ReadShared

\* Nothing is committed and nobody writes anything new.
Rests == db' = db /\ \A d \in Conn : mode'[d] = "write" => mode[d] = "write" /\ work' = work

\* c goes on, or begins, to write.
Drafts(c, new) ==
  /\ db' = db
  /\ work' = new
  /\ LockFree(c)
  /\ \A d \in Conn : mode'[d] = "write" <=> d = c

\* c commits what it has written.
Publishes(c) ==
  /\ mode[c] = "write"
  /\ db' = work
  /\ \A d \in Conn : mode'[d] # "write"

LEMMA SharedIsConn == Shared \in Conn /\ Inv \subseteq Conn /\ Shared \notin Inv
  BY StoreAssumption DEF Conn

LEMMA ViewType == ASSUME StoreTypeOK, NEW c \in Conn PROVE View(c) \in Tables
  BY DEF StoreTypeOK, View

\* A statement that is not refused sees what its own commit would leave.
LEMMA FreshView ==
  ASSUME StoreInv, NEW c \in Conn, mode[c] # "stale"
  PROVE  View(c) = Committed(c)
<1>1. CASE mode[c] = "write"
  BY <1>1 DEF View, Committed
<1>2. CASE mode[c] = "read"
  <2>1. c = Shared
    BY <1>2 DEF StoreInv, Conn
  <2>2. QED
    BY <1>2, <2>1 DEF View, Committed, StoreInv
<1>3. CASE mode[c] \notin {"write", "read"}
  BY <1>3 DEF View, Committed
<1>4. QED
  BY <1>1, <1>2, <1>3

\* The store stays in its types.
LEMMA StoreStepType ==
  ASSUME StoreTypeOK, NEW c \in Conn, NEW new \in Tables, StoreStep(c, new)
  PROVE  StoreTypeOK'
<1> USE EmptyTablesType, SharedIsConn DEF StoreTypeOK, Modes
<1>1. CASE Open(c)
  BY <1>1 DEF Open
<1>2. CASE Close(c)
  BY <1>2 DEF Close, DropWork, DropSnap
<1>3. CASE Write(c, new)
  BY <1>3 DEF Write, DropSnap
<1>4. CASE WriteRefused(c)
  BY <1>4 DEF WriteRefused
<1>5. CASE WriteBreaks(c)
  BY <1>5, ViewType DEF WriteBreaks, DropWork, DropSnap
<1>6. CASE Commit(c)
  BY <1>6 DEF Commit, Committed, DropWork, DropSnap
<1>7. CASE CommitRefused(c)
  BY <1>7 DEF CommitRefused, storeVars
<1>8. CASE CommitBreaks(c)
  BY <1>8 DEF CommitBreaks, DropWork, DropSnap, storeVars
<1>9. CASE c = Shared /\ ReadShared
  BY <1>9 DEF ReadShared
<1>10. QED
  BY <1>1, <1>2, <1>3, <1>4, <1>5, <1>6, <1>7, <1>8, <1>9 DEF StoreStep

\* Every step keeps the invariant, leaves the other connections alone except
\* for ageing their snapshots, and is one of four kinds.
LEMMA StoreStepKind ==
  ASSUME StoreTypeOK, StoreInv, NEW c \in Conn, NEW new \in Tables, StoreStep(c, new)
  PROVE  /\ StoreInv'
         /\ \A d \in Conn \ {c} : mode'[d] = mode[d] \/ (mode[d] = "read" /\ mode'[d] = "stale")
         /\ \/ Rests
            \/ Drafts(c, new) /\ Write(c, new)
            \/ Drafts(c, Committed(c)) /\ WriteBreaks(c)
            \/ Publishes(c) /\ Commit(c)
<1> USE SharedIsConn DEF StoreTypeOK, StoreInv, Rests
<1>1. CASE Open(c)
  BY <1>1 DEF Open
<1>2. CASE Close(c)
  BY <1>2 DEF Close, DropWork, DropSnap
<1>3. CASE Write(c, new)
  BY <1>3 DEF Write, DropSnap, LockFree, Drafts
<1>4. CASE WriteRefused(c)
  BY <1>4 DEF WriteRefused
<1>5. CASE WriteBreaks(c)
  <2>1. CASE mode' = [mode EXCEPT ![c] = "write"] /\ work' = View(c)
    <3>1. work' = Committed(c)
      BY <1>5, <2>1, FreshView DEF WriteBreaks
    <3>2. QED
      BY <1>5, <2>1, <3>1 DEF WriteBreaks, DropSnap, LockFree, Drafts
  <2>2. CASE mode' = [mode EXCEPT ![c] = "auto"] /\ DropWork(c)
    BY <1>5, <2>2 DEF WriteBreaks, DropSnap, DropWork, LockFree
  <2>3. QED
    BY <1>5, <2>1, <2>2 DEF WriteBreaks
<1>6. CASE Commit(c)
  <2>1. CASE mode[c] = "write"
    BY <1>6, <2>1 DEF Commit, Committed, DropWork, DropSnap, Publishes
  <2>2. CASE mode[c] # "write"
    BY <1>6, <2>2 DEF Commit, Committed, DropWork, DropSnap
  <2>3. QED
    BY <2>1, <2>2
<1>7. CASE CommitRefused(c)
  BY <1>7 DEF CommitRefused, storeVars
<1>8. CASE CommitBreaks(c)
  BY <1>8 DEF CommitBreaks, DropWork, DropSnap, storeVars
<1>9. CASE c = Shared /\ ReadShared
  BY <1>9 DEF ReadShared
<1>10. QED
  BY <1>1, <1>2, <1>3, <1>4, <1>5, <1>6, <1>7, <1>8, <1>9 DEF StoreStep
=============================================================================
