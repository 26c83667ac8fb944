---------------------------- MODULE MigrationsProofs ----------------------------
(***************************************************************************)
(* The schema that a serving process can rely on, for any number of        *)
(* workers and crashes.                                                    *)
(***************************************************************************)
EXTENDS Migrations, TLAPS

Needs(v) == ToSet(Scripts[v])

\* What a worker has read or passed is recorded; where it stands in a script
\* tells what the script has created.
LoopInv ==
  \A w \in Workers :
    /\ applied[w] \subseteq recorded
    /\ \A v \in Versions : v < version[w] => v \in recorded
    /\ pc[w] = "ready" => version[w] \notin Versions
    /\ pc[w] \in {"script", "insert", "commit"} => version[w] \in Versions
    /\ pc[w] = "script" => /\ line[w] \in DOMAIN Scripts[version[w]]
                           /\ \A i \in 1..line[w] - 1 : Scripts[version[w]][i] \in objects
    /\ pc[w] \in {"insert", "commit"} => Needs(version[w]) \subseteq objects

SchemaInv == SchemaTypeOK /\ RecordedMeansApplied /\ LoopInv

-------------------------------------------------------------------------------
LEMMA TwoScripts ==
  /\ Versions = 1..2 /\ Len(Scripts) = 2
  /\ DOMAIN Scripts[1] = 1..3 /\ Len(Scripts[1]) = 3
  /\ DOMAIN Scripts[2] = 1..1 /\ Len(Scripts[2]) = 1
BY DEF Versions, Scripts

LEMMA ScriptLines ==
  ASSUME NEW v \in Versions
  PROVE  /\ DOMAIN Scripts[v] = 1..Len(Scripts[v]) /\ Len(Scripts[v]) \in 1..3
         /\ Needs(v) = {Scripts[v][i] : i \in 1..Len(Scripts[v])}
         /\ \A i \in DOMAIN Scripts[v] : Scripts[v][i] \in UNION {ToSet(Scripts[u]) : u \in Versions}
<1>1. DOMAIN Scripts[v] = 1..Len(Scripts[v]) /\ Len(Scripts[v]) \in 1..3
  BY TwoScripts
<1>2. Needs(v) = {Scripts[v][i] : i \in DOMAIN Scripts[v]}
  BY DEF Needs, ToSet
<1>3. Needs(v) \in {ToSet(Scripts[u]) : u \in Versions}
  BY DEF Needs
<1> QED BY <1>1, <1>2, <1>3

LEMMA InitSchema == ASSUME MigrateInit PROVE SchemaInv
<1>1. SchemaTypeOK
  BY TwoScripts, CrashAssumption DEF MigrateInit, SchemaTypeOK
<1>2. RecordedMeansApplied
  BY DEF MigrateInit, RecordedMeansApplied
<1>3. LoopInv
  BY TwoScripts DEF MigrateInit, LoopInv
<1> QED BY <1>1, <1>2, <1>3 DEF SchemaInv

\* The schema and its record only grow, so a worker's step disturbs no other.
LEMMA OneWorkerMoves ==
  ASSUME SchemaInv, NEW w \in Workers, SchemaTypeOK', RecordedMeansApplied',
         objects \subseteq objects', recorded \subseteq recorded',
         \A u \in Workers \ {w} : /\ pc'[u] = pc[u] /\ applied'[u] = applied[u]
                                  /\ version'[u] = version[u] /\ line'[u] = line[u],
         applied'[w] \subseteq recorded',
         \A v \in Versions : v < version'[w] => v \in recorded',
         pc'[w] = "ready" => version'[w] \notin Versions,
         pc'[w] \in {"script", "insert", "commit"} => version'[w] \in Versions,
         pc'[w] = "script" => /\ line'[w] \in DOMAIN Scripts[version'[w]]
                              /\ \A i \in 1..line'[w] - 1 : Scripts[version'[w]][i] \in objects',
         pc'[w] \in {"insert", "commit"} => Needs(version'[w]) \subseteq objects'
  PROVE  SchemaInv'
<1>1. ASSUME NEW u \in Workers \ {w}
      PROVE  /\ applied'[u] \subseteq recorded'
             /\ \A v \in Versions : v < version'[u] => v \in recorded'
             /\ pc'[u] = "ready" => version'[u] \notin Versions
             /\ pc'[u] \in {"script", "insert", "commit"} => version'[u] \in Versions
             /\ pc'[u] = "script" => /\ line'[u] \in DOMAIN Scripts[version'[u]]
                                     /\ \A i \in 1..line'[u] - 1 : Scripts[version'[u]][i] \in objects'
             /\ pc'[u] \in {"insert", "commit"} => Needs(version'[u]) \subseteq objects'
  BY DEF SchemaInv, LoopInv
<1>2. LoopInv'
  BY <1>1 DEF LoopInv
<1> QED BY <1>2 DEF SchemaInv

LEMMA StepSchema ==
  ASSUME SchemaInv, [MigrateNext]_migrateVars
  PROVE  SchemaInv'
<1> USE DEF SchemaInv
<1>0. SchemaTypeOK /\ Versions = 1..2 /\ Len(Scripts) = 2
  BY TwoScripts
<1>1. CASE UNCHANGED migrateVars
  BY <1>1 DEF migrateVars, SchemaTypeOK, RecordedMeansApplied, LoopInv
<1>2. ASSUME NEW w \in Workers, Start(w) \/ SelectApplied(w) \/ NextScript(w) \/ Stop(w)
      PROVE  SchemaInv'
  <2>1. objects' = objects /\ recorded' = recorded
    BY <1>2 DEF Start, SelectApplied, NextScript, Stop
  <2>2. RecordedMeansApplied'
    BY <2>1 DEF RecordedMeansApplied
  <2>3. CASE Start(w)
    <3>1. SchemaTypeOK'
      BY <1>0, <2>3 DEF SchemaTypeOK, Start, Goto
    <3> QED BY <1>0, <2>1, <2>2, <2>3, <3>1, OneWorkerMoves DEF SchemaTypeOK, Start, Goto, LoopInv
  <2>4. CASE SelectApplied(w)
    <3>1. SchemaTypeOK'
      BY <1>0, <2>4 DEF SchemaTypeOK, SelectApplied, Goto
    <3> QED BY <1>0, <2>1, <2>2, <2>4, <3>1, OneWorkerMoves DEF SchemaTypeOK, SelectApplied, Goto, LoopInv
  <2>5. CASE NextScript(w)
    <3>1. SchemaTypeOK'
      BY <1>0, <2>5 DEF SchemaTypeOK, NextScript, Goto
    <3>2. pc'[w] = "script" => line'[w] = 1 /\ version'[w] \in Versions
      BY <1>0, <2>5 DEF SchemaTypeOK, NextScript, Goto
    <3>3. pc'[w] = "script" => line'[w] \in DOMAIN Scripts[version'[w]] /\ 1..line'[w] - 1 = {}
      BY <3>2, ScriptLines
    <3>4. /\ \A u \in Workers \ {w} : /\ pc'[u] = pc[u] /\ applied'[u] = applied[u]
                                      /\ version'[u] = version[u] /\ line'[u] = line[u]
          /\ applied'[w] \subseteq recorded'
          /\ pc'[w] = "ready" => version'[w] \notin Versions
          /\ pc'[w] \notin {"insert", "commit"}
      BY <1>0, <2>1, <2>5 DEF SchemaTypeOK, NextScript, Goto, LoopInv
    <3>5. \A v \in Versions : v < version'[w] => v \in recorded'
      BY <1>0, <2>1, <2>5 DEF SchemaTypeOK, NextScript, Goto, LoopInv
    <3> QED BY <2>1, <2>2, <3>1, <3>2, <3>3, <3>4, <3>5, OneWorkerMoves
  <2>6. CASE Stop(w)
    <3>1. SchemaTypeOK'
      <4>1. crashes' \in 0..MaxCrashes
        BY <1>0, <2>6, CrashAssumption DEF SchemaTypeOK, Stop
      <4>2. pc' = [pc EXCEPT ![w] = "down"] /\ lock' \in {lock, "nobody"}
            /\ UNCHANGED <<objects, recorded, applied, version, line>>
        BY <2>6 DEF Stop, Goto
      <4> QED BY <1>0, <4>1, <4>2 DEF SchemaTypeOK
    <3> QED BY <1>0, <2>1, <2>2, <2>6, <3>1, OneWorkerMoves DEF SchemaTypeOK, Stop, Goto, LoopInv
  <2> QED BY <1>2, <2>3, <2>4, <2>5, <2>6
<1>3. ASSUME NEW w \in Workers, RunStatement(w)
      PROVE  SchemaInv'
  <2> DEFINE script == Scripts[version[w]]
             object == script[line[w]]
  <2>1. /\ version[w] \in Versions /\ line[w] \in DOMAIN script /\ pc[w] = "script"
        /\ \A i \in 1..line[w] - 1 : script[i] \in objects
    BY <1>3 DEF RunStatement, LoopInv
  <2>2. /\ DOMAIN script = 1..Len(script) /\ Len(script) \in 1..3
        /\ Needs(version[w]) = {script[i] : i \in 1..Len(script)}
        /\ object \in UNION {ToSet(Scripts[u]) : u \in Versions}
    BY <2>1, ScriptLines
  <2>3. recorded' = recorded /\ objects \subseteq objects' /\ applied' = applied /\ version' = version
    BY <1>3 DEF RunStatement
  <2>4. RecordedMeansApplied'
    BY <2>3 DEF RecordedMeansApplied
  <2>5. CASE object \in objects /\ ~Idempotent[version[w]]
    <3>1. pc' = [pc EXCEPT ![w] = "failed"] /\ UNCHANGED <<objects, line, lock, crashes>>
      BY <1>3, <2>5 DEF RunStatement, Goto
    <3>2. SchemaTypeOK'
      BY <1>0, <2>3, <3>1 DEF SchemaTypeOK
    <3> QED BY <1>0, <2>3, <2>4, <3>1, <3>2, OneWorkerMoves DEF SchemaTypeOK, LoopInv
  <2>6. CASE ~(object \in objects /\ ~Idempotent[version[w]])
    <3>1. /\ objects' = objects \cup {object} /\ line' = [line EXCEPT ![w] = line[w] + 1]
          /\ pc' = [pc EXCEPT ![w] = IF line[w] = Len(script) THEN "insert" ELSE "script"]
          /\ UNCHANGED <<lock, crashes>>
      BY <1>3, <2>6 DEF RunStatement, Goto
    <3> HIDE DEF script, object
    <3>2. line[w] \in 1..3 /\ line'[w] = line[w] + 1
      BY <1>0, <2>1, <2>2, <3>1 DEF SchemaTypeOK
    <3>3. SchemaTypeOK'
      BY <1>0, <2>2, <2>3, <3>1, <3>2 DEF SchemaTypeOK
    <3>4. \A i \in 1..line'[w] - 1 : script[i] \in objects'
      BY <2>1, <3>1, <3>2 DEF object
    <3>5. pc'[w] = IF line[w] = Len(script) THEN "insert" ELSE "script"
      BY <1>0, <3>1 DEF SchemaTypeOK
    <3>6. pc'[w] = "insert" => Needs(version[w]) \subseteq objects'
      BY <2>2, <3>2, <3>4, <3>5
    <3>7. pc'[w] = "script" => line'[w] \in DOMAIN script
      BY <2>1, <2>2, <3>2, <3>5
    <3>8. /\ \A u \in Workers \ {w} : pc'[u] = pc[u] /\ line'[u] = line[u]
          /\ applied[w] \subseteq recorded /\ \A v \in Versions : v < version[w] => v \in recorded
      BY <1>0, <3>1 DEF SchemaTypeOK, LoopInv
    <3> QED BY <2>1, <2>3, <2>4, <3>3, <3>4, <3>5, <3>6, <3>7, <3>8, OneWorkerMoves DEF script
  <2> QED BY <2>5, <2>6
<1>4. ASSUME NEW w \in Workers, InsertVersion(w)
      PROVE  SchemaInv'
  <2>1. UNCHANGED <<objects, recorded, applied, version, line>> /\ pc[w] = "insert"
    BY <1>4 DEF InsertVersion
  <2>2. SchemaTypeOK' /\ RecordedMeansApplied'
    BY <1>0, <1>4 DEF SchemaTypeOK, RecordedMeansApplied, InsertVersion, Goto
  <2>3. pc'[w] \in {"failed", "commit"} /\ \A u \in Workers \ {w} : pc'[u] = pc[u]
    BY <1>0, <1>4 DEF SchemaTypeOK, InsertVersion, Goto
  <2> QED BY <2>1, <2>2, <2>3, OneWorkerMoves DEF LoopInv
<1>5. ASSUME NEW w \in Workers, CommitVersion(w)
      PROVE  SchemaInv'
  <2>1. /\ version[w] \in Versions /\ Needs(version[w]) \subseteq objects
        /\ applied[w] \subseteq recorded /\ \A v \in Versions : v < version[w] => v \in recorded
    BY <1>5 DEF CommitVersion, LoopInv
  <2>2. /\ UNCHANGED <<objects, applied, line>> /\ recorded' = recorded \cup {version[w]}
        /\ version'[w] = version[w] + 1 /\ pc'[w] = "next"
        /\ \A u \in Workers \ {w} : pc'[u] = pc[u] /\ version'[u] = version[u]
    BY <1>0, <1>5 DEF CommitVersion, Goto, SchemaTypeOK
  <2>3. SchemaTypeOK'
    <3>1. /\ pc' = [pc EXCEPT ![w] = "next"] /\ version' = [version EXCEPT ![w] = version[w] + 1]
          /\ lock' = "nobody" /\ UNCHANGED crashes
      BY <1>5 DEF CommitVersion, Goto
    <3>2. version[w] + 1 \in 1..Len(Scripts) + 1
      BY <1>0, <2>1
    <3>3. version' \in [Workers -> 1..Len(Scripts) + 1]
      BY <1>0, <3>1, <3>2 DEF SchemaTypeOK
    <3> QED BY <1>0, <2>1, <2>2, <3>1, <3>3 DEF SchemaTypeOK
  <2>4. RecordedMeansApplied'
    BY <2>1, <2>2 DEF RecordedMeansApplied, Needs
  <2>5. \A v \in Versions : v < version'[w] => v \in recorded'
    BY <1>0, <2>1, <2>2
  <2> QED BY <2>1, <2>2, <2>3, <2>4, <2>5, OneWorkerMoves
<1> QED BY <1>1, <1>2, <1>3, <1>4, <1>5 DEF MigrateNext, Migrate

-------------------------------------------------------------------------------
(* The theorems *)

LEMMA SchemaHolds == MigrateSpec => []SchemaInv
<1>1. MigrateInit => SchemaInv
  BY InitSchema
<1>2. SchemaInv /\ [MigrateNext]_migrateVars => SchemaInv'
  BY StepSchema
<1> QED BY <1>1, <1>2, PTL DEF MigrateSpec

\* Types, for any number of workers: no worker runs past the end of a script or
\* of the list of scripts.
THEOREM MigrationTypes == MigrateSpec => []SchemaTypeOK
<1>1. SchemaInv => SchemaTypeOK
  BY DEF SchemaInv
<1> QED BY <1>1, SchemaHolds, PTL

\* A version is recorded only after its whole script took effect, however many
\* workers migrate at once and wherever they crash (_run_migrations).
THEOREM NothingRecordedUnapplied == MigrateSpec => []RecordedMeansApplied
<1>1. SchemaInv => RecordedMeansApplied
  BY DEF SchemaInv
<1> QED BY <1>1, SchemaHolds, PTL

\* A worker that left the loop serves on the whole schema, whoever created it.
THEOREM ReadyWorkersAreMigrated == MigrateSpec => []ReadyMeansMigrated
<1>1. SchemaInv => ReadyMeansMigrated
  <2>1. ASSUME SchemaInv, NEW w \in Workers, pc[w] = "ready"
        PROVE  recorded = Versions /\ \A v \in Versions : ToSet(Scripts[v]) \subseteq objects
    <3>1. version[w] \in 1..3 /\ version[w] \notin 1..2 /\ recorded \subseteq Versions /\ Versions = 1..2
      BY <2>1, TwoScripts DEF SchemaInv, SchemaTypeOK, LoopInv
    <3>2. \A v \in Versions : v < version[w]
      BY <3>1
    <3>3. recorded = Versions
      BY <2>1, <3>1, <3>2 DEF SchemaInv, LoopInv
    <3> QED BY <2>1, <3>3 DEF SchemaInv, RecordedMeansApplied
  <2> QED BY <2>1 DEF ReadyMeansMigrated
<1> QED BY <1>1, SchemaHolds, PTL
===============================================================================
