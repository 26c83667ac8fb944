------------------------------ MODULE Migrations ------------------------------
(***************************************************************************)
(* _run_migrations: at every start a process creates the schema_version    *)
(* table, reads the versions recorded in it, and for each script that is   *)
(* not recorded runs the script, inserts its version and commits.          *)
(* executescript runs in autocommit mode, so every statement of a script   *)
(* is durable at once, and the version only with its commit.  A process    *)
(* may crash anywhere and be started again; the number of worker processes *)
(* is a setting.                                                           *)
(***************************************************************************)
EXTENDS Naturals, Sequences, SequencesExt

CONSTANTS Workers,      \* processes that open the database
          MaxCrashes

ASSUME CrashAssumption == MaxCrashes \in Nat

\* What each statement creates.  001 says IF NOT EXISTS everywhere; 002 adds
\* a column, which SQLite refuses when the column is there.
Scripts == <<  <<"investigations", "evidence", "reports">>, <<"reasoning">> >>
Idempotent == <<TRUE, FALSE>>
Versions == DOMAIN Scripts

VARIABLES objects,    \* durable schema objects
          recorded,   \* durable schema_version rows
          lock,       \* worker with an uncommitted INSERT, or "nobody"
          pc,         \* stage of each worker's start
          applied,    \* versions the worker read at its start
          version,    \* script the worker is at
          line,       \* next statement of it
          crashes

migrateVars == <<objects, recorded, lock, pc, applied, version, line, crashes>>

SchemaTypeOK ==
  /\ objects \subseteq UNION {ToSet(Scripts[v]) : v \in Versions}
  /\ recorded \subseteq Versions
  /\ lock \in Workers \cup {"nobody"}
  /\ pc \in [Workers -> {"down", "select", "next", "script", "insert", "commit", "ready", "failed"}]
  /\ applied \in [Workers -> SUBSET Versions]
  /\ version \in [Workers -> 1..Len(Scripts) + 1]
  /\ line \in [Workers -> 1..4]
  /\ crashes \in 0..MaxCrashes

MigrateInit ==
  /\ objects = {}
  /\ recorded = {}
  /\ lock = "nobody"
  /\ pc = [w \in Workers |-> "down"]
  /\ applied = [w \in Workers |-> {}]
  /\ version = [w \in Workers |-> 1]
  /\ line = [w \in Workers |-> 1]
  /\ crashes = 0

Goto(w, label) == pc' = [pc EXCEPT ![w] = label]
CanWrite(w) == lock \in {w, "nobody"}

\* init_db up to the creation of schema_version.
Start(w) ==
  /\ pc[w] = "down"
  /\ CanWrite(w)
  /\ Goto(w, "select")
  /\ version' = [version EXCEPT ![w] = 1]
  /\ UNCHANGED <<objects, recorded, lock, applied, line, crashes>>

SelectApplied(w) ==
  /\ pc[w] = "select"
  /\ applied' = [applied EXCEPT ![w] = recorded]
  /\ Goto(w, "next")
  /\ UNCHANGED <<objects, recorded, lock, version, line, crashes>>

\* Mutant of NextScript: the version is inserted before the script runs.
NextScriptInsertsFirst(w) ==
  /\ pc[w] = "next"
  /\ IF version[w] \in Versions \ applied[w]
       THEN Goto(w, "insert") /\ UNCHANGED version
       ELSE /\ version[w] \in applied[w]
            /\ version' = [version EXCEPT ![w] = @ + 1]
            /\ UNCHANGED pc
  /\ UNCHANGED <<objects, recorded, lock, applied, line, crashes>>

\* The head of the loop over the sorted files.
NextScript(w) ==
  /\ pc[w] = "next"
  /\ \/ /\ version[w] \notin Versions
        /\ Goto(w, "ready")
        /\ UNCHANGED <<version, line>>
     \/ /\ version[w] \in applied[w]
        /\ version' = [version EXCEPT ![w] = @ + 1]
        /\ UNCHANGED <<pc, line>>
     \/ /\ version[w] \in Versions \ applied[w]
        /\ Goto(w, "script")
        /\ line' = [line EXCEPT ![w] = 1]
        /\ UNCHANGED version
  /\ UNCHANGED <<objects, recorded, lock, applied, crashes>>

\* Mutant of RunStatement: an error is logged and the loop goes on.
RunStatementIgnoresErrors(w) ==
  /\ pc[w] = "script"
  /\ CanWrite(w)
  /\ LET script == Scripts[version[w]]
         object == script[line[w]]
     IN  IF object \in objects /\ ~Idempotent[version[w]]
           THEN /\ Goto(w, "next")
                /\ version' = [version EXCEPT ![w] = @ + 1]
                /\ UNCHANGED <<objects, line>>
           ELSE /\ objects' = objects \cup {object}
                /\ line' = [line EXCEPT ![w] = @ + 1]
                /\ Goto(w, IF line[w] = Len(script) THEN "insert" ELSE "script")
                /\ UNCHANGED version
  /\ UNCHANGED <<recorded, lock, applied, crashes>>

\* One statement of executescript; an error leaves the loop and the process.
RunStatement(w) ==
  /\ pc[w] = "script"
  /\ CanWrite(w)
  /\ LET script == Scripts[version[w]]
         object == script[line[w]]
     IN  IF object \in objects /\ ~Idempotent[version[w]]
           THEN /\ Goto(w, "failed")
                /\ UNCHANGED <<objects, line>>
           ELSE /\ objects' = objects \cup {object}
                /\ line' = [line EXCEPT ![w] = @ + 1]
                /\ Goto(w, IF line[w] = Len(script) THEN "insert" ELSE "script")
  /\ UNCHANGED <<recorded, lock, applied, version, crashes>>

\* INSERT INTO schema_version: version is the primary key.
InsertVersion(w) ==
  /\ pc[w] = "insert"
  /\ CanWrite(w)
  /\ IF version[w] \in recorded
       THEN Goto(w, "failed") /\ UNCHANGED lock
       ELSE Goto(w, "commit") /\ lock' = w
  /\ UNCHANGED <<objects, recorded, applied, version, line, crashes>>

\* Mutant of CommitVersion: the loop advances twice.
CommitVersionSkips(w) ==
  /\ pc[w] = "commit"
  /\ recorded' = recorded \cup {version[w]}
  /\ lock' = "nobody"
  /\ version' = [version EXCEPT ![w] = @ + 2]
  /\ Goto(w, "next")
  /\ UNCHANGED <<objects, applied, line, crashes>>

CommitVersion(w) ==
  /\ pc[w] = "commit"
  /\ recorded' = recorded \cup {version[w]}
  /\ lock' = "nobody"
  /\ version' = [version EXCEPT ![w] = @ + 1]
  /\ Goto(w, "next")
  /\ UNCHANGED <<objects, applied, line, crashes>>

\* A crash, or the exit of a process whose start failed.
Stop(w) ==
  /\ pc[w] # "down"
  /\ IF pc[w] = "failed" THEN UNCHANGED crashes
                         ELSE crashes < MaxCrashes /\ crashes' = crashes + 1
  /\ Goto(w, "down")
  /\ lock' = IF lock = w THEN "nobody" ELSE lock
  /\ UNCHANGED <<objects, recorded, applied, version, line>>

Migrate(w) ==
  Start(w) \/ SelectApplied(w) \/ NextScript(w) \/ RunStatement(w) \/ InsertVersion(w)
    \/ CommitVersion(w)

MigrateNext == \E w \in Workers : Migrate(w) \/ Stop(w)

MigrateSpec == MigrateInit /\ [][MigrateNext]_migrateVars

-------------------------------------------------------------------------------
(* Properties *)

\* A process that serves requests has the whole schema, all of it recorded.
ReadyMeansMigrated ==
  \A w \in Workers : pc[w] = "ready" =>
    /\ recorded = Versions
    /\ \A v \in Versions : ToSet(Scripts[v]) \subseteq objects

\* No version is recorded before its script took effect: a crash may repeat
\* a script and never lose one.
RecordedMeansApplied ==
  \A v \in recorded : ToSet(Scripts[v]) \subseteq objects
===============================================================================
