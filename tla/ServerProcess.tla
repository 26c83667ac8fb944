----------------------------- MODULE ServerProcess -----------------------------
(***************************************************************************)
(* The two ends of a server process (main.lifespan).  It first migrates    *)
(* the database, at the same time as other workers, and creates its        *)
(* session registry only then; the registry lives in the memory of its     *)
(* process.  The two share no state and never run at once in one process,  *)
(* so a behaviour follows either the start-up of several workers or the    *)
(* registry of one of them.                                                *)
(***************************************************************************)
EXTENDS SessionManager, Migrations

VARIABLE follows  \* what the behaviour is about

processVars == <<follows, vars, migrateVars>>

ProcessInit == Init /\ MigrateInit /\ follows \in {"start-up", "registry"}

StartUp == follows = "start-up" /\ MigrateNext /\ UNCHANGED <<follows, vars>>
Serve == follows = "registry" /\ Next /\ UNCHANGED <<follows, migrateVars>>

\* The fairness is the registry's (SessionManager); none is needed to migrate
\* safely.
ProcessSpec == ProcessInit /\ [][StartUp \/ Serve]_processVars /\ Fairness
===============================================================================
