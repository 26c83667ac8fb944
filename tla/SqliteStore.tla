----------------------------- MODULE SqliteStore -----------------------------
(***************************************************************************)
(* The SQLite database in WAL mode, as the application uses it: one        *)
(* connection shared by every request handler and every memory_node, and   *)
(* one private connection per investigation task (named like the           *)
(* investigation).  Python's sqlite3 issues BEGIN before the first DML     *)
(* statement of a transaction and never rolls back by itself, so a failed  *)
(* statement leaves its connection inside a transaction.                   *)
(***************************************************************************)
EXTENDS Repositories

CONSTANTS Shared,     \* the module-level singleton _db
          Stalls,     \* may a wait for the write lock outlast busy_timeout?
          Rollbacks   \* may a failing statement or commit undo its transaction?

ASSUME StoreAssumption == /\ Shared \notin Inv
                          /\ Stalls \in BOOLEAN
                          /\ Rollbacks \in BOOLEAN

VARIABLES db,        \* committed tables
          work,      \* tables as the connection holding the write lock sees them
          mode,      \* transaction state of every connection
          snap       \* tables the shared connection's read transaction sees

storeVars == <<db, work, mode, snap>>

Conn == Inv \cup {Shared}

\* "auto": no transaction; "begun": BEGIN issued, no lock; "read": a read
\* snapshot of the latest commit is held; "stale": so is one of an older
\* commit; "write": the write lock is held.
Modes == {"closed", "auto", "begun", "read", "stale", "write"}

StoreTypeOK ==
  /\ db \in Tables
  /\ work \in Tables
  /\ mode \in [Conn -> Modes]
  /\ snap \in Tables

StoreInit ==
  /\ db = EmptyTables
  /\ work = EmptyTables
  /\ mode = [c \in Conn |-> IF c = Shared THEN "auto" ELSE "closed"]
  /\ snap = EmptyTables

\* What a statement on connection c sees.
View(c) ==
  CASE mode[c] = "write" -> work
    [] mode[c] \in {"read", "stale"} -> snap
    [] OTHER -> db

\* What commit() on connection c leaves committed.
Committed(c) == IF mode[c] = "write" THEN work ELSE db

LockFree(c) == \A d \in Conn \ {c} : mode[d] # "write"

\* work and snap are blank whenever no transaction gives them a meaning.
DropWork(c) == work' = IF mode[c] = "write" THEN EmptyTables ELSE work
DropSnap(c) == snap' = IF c = Shared THEN EmptyTables ELSE snap

Open(c) ==
  /\ mode[c] = "closed"
  /\ mode' = [mode EXCEPT ![c] = "auto"]
  /\ UNCHANGED <<db, work, snap>>

\* Closing a connection rolls back what it has not committed.
Close(c) ==
  /\ mode' = [mode EXCEPT ![c] = "closed"]
  /\ DropWork(c)
  /\ DropSnap(c)
  /\ UNCHANGED db

\* A DML statement that succeeds; new is its effect on View(c).
Write(c, new) ==
  /\ mode[c] \in {"auto", "begun", "read", "write"}
  /\ LockFree(c)
  /\ mode' = [mode EXCEPT ![c] = "write"]
  /\ work' = new
  /\ DropSnap(c)
  /\ UNCHANGED db

\* Mutant of WriteRefused: no busy_timeout ends the wait for the lock.
WriteRefusedOnlyAtOnce(c) ==
  /\ mode[c] \in {"closed", "stale"} \/ (mode[c] = "read" /\ ~LockFree(c))
  /\ UNCHANGED storeVars

\* A DML statement that raises before it runs: the connection is closed, its
\* snapshot is out of date (SQLITE_BUSY_SNAPSHOT), or the lock is taken.  Only
\* a connection without a snapshot waits for the lock, and keeps its BEGIN.
WriteRefused(c) ==
  /\ \/ mode[c] \in {"closed", "stale"}
     \/ mode[c] = "read" /\ ~LockFree(c)
     \/ Stalls /\ mode[c] \in {"auto", "begun"} /\ ~LockFree(c)
  /\ mode' = [mode EXCEPT ![c] = IF @ = "auto" THEN "begun" ELSE @]
  /\ UNCHANGED <<db, work, snap>>

\* A DML statement that raises while it runs: a constraint error undoes the
\* statement and keeps the transaction and its lock, a full disk or an I/O
\* error may roll the whole transaction back.
WriteBreaks(c) ==
  /\ mode[c] \in {"auto", "begun", "read", "write"}
  /\ LockFree(c)
  /\ \/ /\ mode' = [mode EXCEPT ![c] = "write"]
        /\ work' = View(c)
     \/ /\ Rollbacks
        /\ mode' = [mode EXCEPT ![c] = "auto"]
        /\ DropWork(c)
  /\ DropSnap(c)
  /\ UNCHANGED db

\* commit(): ends whatever transaction the connection is in, its own or the
\* one another coroutine began on the same connection.
Commit(c) ==
  /\ mode[c] # "closed"
  /\ db' = Committed(c)
  /\ mode' = [d \in Conn |->
       IF d = c THEN "auto"
       ELSE IF mode[c] = "write" /\ mode[d] = "read" THEN "stale"
       ELSE mode[d]]
  /\ DropWork(c)
  /\ DropSnap(c)

CommitRefused(c) == mode[c] = "closed" /\ UNCHANGED storeVars

\* A commit() that raises and leaves the transaction open, or rolls it back.
CommitBreaks(c) ==
  /\ mode[c] = "write"
  /\ \/ UNCHANGED storeVars
     \/ /\ Rollbacks
        /\ mode' = [mode EXCEPT ![c] = "auto"]
        /\ DropWork(c)
        /\ DropSnap(c)
        /\ UNCHANGED db

\* A SELECT on the shared connection: inside a begun transaction it takes
\* the snapshot that every later SELECT sees until the next commit.
ReadShared ==
  /\ mode[Shared] # "closed"
  /\ IF mode[Shared] = "begun"
       THEN /\ mode' = [mode EXCEPT ![Shared] = "read"]
            /\ snap' = db
       ELSE UNCHANGED <<mode, snap>>
  /\ UNCHANGED <<db, work>>
=============================================================================
