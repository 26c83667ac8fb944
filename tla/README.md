# Verification of the blockchain investigator

TLA+ models of the investigation service in `src/backend`, the TLC runs that check them on small
instances, and TLAPS proofs of the properties that matter for every instance.

## 1. The system and its parts

A FastAPI process accepts an Ethereum address (`POST /investigate`), stores a row in SQLite, and
starts an asyncio task that runs a linear LangGraph agent: profiler, trace scorer, planner,
detector, reporter, memory. The memory node stores evidence, report, reasoning log and final
status. Clients poll `GET /investigate/{id}` and then ask for `GET /report/{id}`. One event loop
runs every handler and every task; each `await` is a place where all others may run.

| component | state | operations | talks to | what makes it correct |
|---|---|---|---|---|
| investigation router, `_run_agent` (`api/routers/investigation.py`) | position of each coroutine, its own connection | create row, start session, RUNNING, INIT, run the graph, COMPLETE, DONE, FAILED, close | repositories over its own connection, session manager, memory node | a task has a durable row; it ends in one terminal status; no step undoes a later one |
| memory node (`agent/nodes/memory_node.py`) | findings, evidence total | evidence batch, report, reasoning log, status, phase; three `try` blocks that swallow | repositories over the shared connection | what it reports as stored is stored |
| repositories (`persistence/repositories`) | rows of three tables | one statement, one commit, one read-back each | aiosqlite | the lifecycle columns agree with each other |
| connections (`persistence/database.py`) | shared connection, one private connection per task | open, close, implicit BEGIN, commit | SQLite in WAL mode | the write lock is not left behind; readers see consistent rows |
| migrations | `schema_version`, schema | read applied versions, run script, insert version, commit | SQLite | a process that serves has the whole schema |
| session manager (`agent/session_manager.py`) | registry of records and tasks | start, cancel, done-callback, shutdown | asyncio tasks | one live task per identifier; a record tells its own task's outcome; shutdown reaches every live task |
| lifespan (`main.py`) | stage of the process | init_db, limiter, close_db, close_session_manager | all of the above | the order of its steps |
| clients (API users, `frontend/app.js`) | last status seen | poll, ask for the report | endpoints | a client told COMPLETE gets the report |
| agent graph, planner, detector, reporter | accumulated `AgentState` with reducers | one node after the other | LLM, engines, client | nothing lost or duplicated; planner falls back |
| Etherscan client, rate limiter | token bucket, attempts of a request | acquire, attempt, back off, classify | HTTP service | bounded attempts; rate respected |
| tracer (`tools/tracing_engine.py`, `forensics/pruning_engine.py`, `forensics/trace_scorer.py`) | queue, wallets traced, edges, node count | rank the first hop, visit, fetch, evaluate, enqueue | client | what it draws are paths from the root; within its budget nobody in reach is missed |
| AML rules and risk scorer (`forensics/engine.py`, `forensics/rules`) | none | seven rules over a profile, weighted sum, level | detector | level agrees with score; an alarm does not vanish because the wallet goes on |
| rug-pull tool, extractor, rules, scorer (`tools/rugpull_tool.py`, `forensics/rugpull`) | one run: two lists, counterparties' ages | fetch, extract, evaluate 28 rules, score | client, funder table | gates and overrides in their documented order; no acquittal without data |
| funding graph (`forensics/rugpull/funding_graph.py`) | `funder_links`, a SQLite file shared with the batch scripts | record a wallet's funders, look for other wallets of a funder | rug-pull tool | two wallets of one funder are recognised, whoever is looked at first |
| history, graph, health endpoints, middleware, settings, schemas, scripts | none | queries, validation, formatting | | |

The hard behaviour is in the first seven rows and in the funder table: coroutines of many investigations interleave on
**one** shared SQLite connection, whose transaction any of them may commit; exceptions are
swallowed there and recorded elsewhere; cancellation, shutdown, crashes and lock timeouts cut in
anywhere. Runs of the rug-pull tool, of the server and of the scripts, meet in the funder table, and
read a chain that grows while they read it. `PROJECT.json` lists each hazard with its line and the properties that cover it.

## 2. Modules

| module | models | kind |
|---|---|---|
| `Repositories` | the tables and the effect of each SQL statement | operators |
| `SqliteStore` | connections, snapshots, the write lock, BEGIN / commit / close, failing statements | state (external semantics, as aiosqlite and SQLite behave for the calls in `src/`) |
| `InvestigationService` | handlers, tasks, memory node, registry status, clients, lifespan, crash and restart | component, composed over `SqliteStore` |
| `InvestigationLifecycle` | what the database promises to its readers | abstract specification |
| `SessionManager` | the registry alone, with reused identifiers and arbitrary cancel calls | component |
| `Migrations` | `_run_migrations` under crashes and several workers | component |
| `Scoring` | `compute_risk_score` of the AML findings and `compute_score` of the rug-pull rules with its overrides | operators |
| `AgentGraph` | one run of the six nodes: fetches, LLM calls and engines that answer or raise, and who swallows what | component, uses `Scoring` |
| `RugpullRules` | the 28 rug-pull rules over a vector of features | operators |
| `FundingGraph` | funding features of one history, the forward and backward search, the funder table | operators |
| `RugpullFeatures` | the extractors of `extractor.py` and `exit_features.py`: every feature a rule reads | operators |
| `RugpullTool` | concurrent runs of the tool over a growing chain and one funder table, with failing fetches and dying processes | component, uses the three above and `Scoring` |
| `AmlRules` | the seven AML rules and `ForensicsEngine.run` over one profile | operators |
| `Tracing` | candidates and their ranking, pruning decisions, the breadth-first search with failing fetches | component |
| `EtherscanClient` | rate limiter, retries, classification of answers, for concurrent requests in discrete time | component |
| `AgentTools` | `AgentGraph`, `RugpullTool`, `AmlRules` and `Tracing` in one state space | composition |
| `ServerProcess` | `Migrations` and `SessionManager` in one state space | composition |
| `MCInvestigationService`, `MCEtherscanClient`, `MCAgentGraph`, `MCTracing`, `MCAgentTools` | symmetry sets, default weights, scaled thresholds, the ledger, profiles and transfers tried, for TLC | |
| `SqliteStoreProofs`, `InvestigationServiceProofs`, `SessionManagerProofs`, `EtherscanClientProofs`, `AgentGraphProofs`, `RugpullToolProofs`, `TracingProofs`, `MigrationsProofs` | theorems | |

### Rows and connections

A row keeps its status, its phase and whether each of `started_at`, `completed_at`, `risk_score`,
`reasoning_log` and `error_message` is set. Evidence is counted per investigation; a report is the
`evidence_count` it was written with (`NoReport` if there is none).

A connection is `closed`, `auto` (no transaction), `begun` (Python issued BEGIN, no lock yet),
`read` (a snapshot is held), `stale` (the snapshot is older than the latest commit) or `write`.
`sqlite3` issues BEGIN before the first DML statement and never rolls back by itself, so a
statement that fails on a busy lock leaves `begun`; the next SELECT pins a snapshot; a later write
from a stale snapshot fails at once. `Write`, `WriteRefused` and `WriteBreaks` are the three ends
of `await conn.execute(...)`; `Commit`, `CommitRefused`, `CommitBreaks` those of
`await conn.commit()`. `Stalls` says whether waiting for the lock may outlast the busy timeout,
`Rollbacks` whether an error may roll the whole transaction back (disk full, I/O error) instead of
only the statement.

### Coroutines

`pc[i]` is the point of the coroutine of investigation `i`: `insert`, `start` in the handler;
`open` .. `donePhase`, `failing` and the three `close*` labels in `_run_agent`; `evidence` ..
`savedPhase` in the memory node. A repository method is `Call`: the statement in one step, commit
and read-back in the next (the read-back changes nothing), `sent[i]` between the two. `handler`
names the label an exception leads to: `failing` in `_run_agent`, the next `try` block in the
memory node. The statement and commit of every coroutine on the shared connection may therefore
interleave with those of every other.

`DeliverCancel` raises CancelledError at any await: no `except Exception` sees it, only `finally`
runs. `CloseDb`, `ClearDb`, `CancelSessions`, `Exit` are the shutdown in the order of the
lifespan; `Crash` may come anywhere and keeps only the committed tables; `Restart` is the next
process, which resumes nothing. uvicorn drains requests before the lifespan ends, so `CloseDb`
waits for handlers (not for tasks).

### The agent's run

`AgentGraph` models what a run of the graph decides and what it may rest on. `next` is the await
the run is at: three fetches of the profiler, `scorer`, `planner`, `rules` (the AML engine), two
fetches of the rug-pull tool, `engine`, `reporter`, `memory`. `fetched` keeps what each fetch gave:
of a history only matters whether it is empty, whether it has transactions, and whether the wallet
sent something to another address. `aml` and `rug` are the ratings of the two engines, `risk` what
the detector makes of them, `errors` the failures recorded in `AgentState.errors`, `report` what
`condense_state` hands to the report generator. Findings are counted per severity, with the rules
that have an override of their own (RUG-FP4, RUG-NEW-A, RUG-NEW-B) as flags. The `Analyse` step
of `InvestigationService` stands for everything up to the memory node: the two models share no
state but the run's outcome. Weights and thresholds are constants; a threshold of 0 or a verdict
threshold above 100, which the settings' validators allow, is excluded by `ScoringAssumption`.

The findings the AML engine may return are a constant set of `AgentGraph`; in the runs it is what
`AmlRules` makes of profiles that, between them, set off each of the seven rules at each severity it
has. A counterparty that the entity table lists without a `label` (`Unlabelled`) stops the profiler
with a KeyError that none of its `try` blocks covers.

### Rules, features, histories

A history is a set of transactions with unique times, so sorting it is comparing `ts`. Times are
minutes; amounts are small numbers, and the sums the code names (dust, 0.1 ETH, structuring) are
fields of `Eth` in the code's order. A ratio is a pair compared by cross-multiplication, a coefficient of
variation is kept as its square and the Shannon entropy of the nonce gaps as `<<n, prod c^c>>`, so
that no comparison is rounded. A selector is one of a few names; `Stripped` is what
`lstrip("0x")` leaves of it, which is wrong for `0x02751cec`. A feature is `None` where the code
leaves it `None`, and each rule treats that as its own early return does. All features that a rule
reads are there, all rules are there; features which only the narrative shows are not.

### The rug-pull tool

`job[w]` is wallet `w`'s run: the phases are its awaits (`normal`, `internal`, `ages`, `record`,
`judge`) with what it has read so far. `Transact` mines the ledger in order, so the two lists of
one run may be of different moments; `Page` keeps the oldest `PageSize` transactions, as the request
of `get_transactions` does. The look-ups of the counterparties' ages are gathered and ages
never change, so they are one step in which up to `MaxMissed` fail. `links` is the table
`funder_links`, which survives everything; `RecordFunders` commits before `Judge` looks.
`Abandon` is a process that dies, or a table that stays locked, at any step. `reports[w]` is the last
outcome, with the funders and lists it rests on (`NotRun` before the first).

### The tracer

`queue` holds what the deque holds; `Visit` is one turn of the loop, whose fetch succeeds or fails
(`failed` is known to the log only). `score_and_rank` keeps the four layers as a weighted sum times
log(1 + max), with the logarithm and the decay as tables. `Is` compares a `PruneResult` with a
`PruneDecision` and is therefore FALSE: `evaluate` decides, and nothing follows from it. That is a bug
and no requirement, so the properties do not rest on it. `BudgetIsKept` states the node budget, which the
code breaks. `ReachIsTraced` promises only wallets that a search with working decisions would reach too:
`reached` goes on behind readable wallets that are no entity and have no crowd around them
(`Followed`), by transfers that are no dust (`WorthTracing`), while the budget lasts. With
`Is(result, decision) == result = decision` in its place, which is no run of this project, TLC finds all
four properties to hold.
`withTx` distinguishes seeds of `trace_scorer` from those of `tracer_node`, which have no
transaction and are all dropped.

### One state space for the three

`AgentTools` puts the graph, the tool and the tracer side by side. They share no variable, and
`runs` picks the one that moves in a behaviour: it is a union of three state spaces, not an
interleaving. The composition that matters is in the operators: the graph's AML findings are
those of `AmlRules`, the tool's rating is `Scoring`'s.

`ServerProcess` does the same for start-up and registry: a process creates its registry after
it has migrated the database, so the two never run at once in it, and `follows` says which one a
behaviour is about.

### Requests and time

A request of `EtherscanClient` goes `idle`, `acquire`, `attempt`, `inFlight`, `backoff`, `done`;
`log[q]` holds the answers of its attempts. The service may give any answer of `Answers` to any
attempt, also JSON that is no object (`notObject`), whose AttributeError leaves the client as it is. Time passes in ticks in which the bucket leaks one unit of a token (`Cost` units), so a
non-integral rate like 4.5 per second stays exact; `admitted[k]` counts the tokens taken in the
last `k` ticks, for every `k` up to a second, so that `BucketBounds` speaks of each such stretch.
`requests_per_second` is `Second / Cost`.

## 3. What the runs check

| run | instance | what it shows |
|---|---|---|
| `ServiceCrash` | 2 investigations, 2 findings, 1 client, 1 crash and restart, fair | types; every commit is a step of `InvestigationLifecycle` (no status skipped, none left behind, COMPLETE only with its report); a client told COMPLETE gets the report; what is started finishes unless its process dies |
| `ServiceShutdown` | 2 investigations, 1 shutdown anywhere | a cancelled task leaves no write lock behind, no terminal row changes, a COMPLETE session has a terminal row |
| `ServiceFaults` | 2 investigations, 2 findings, 1 fault, lock waits may time out | a task has its committed row; a report never claims evidence that is not committed, although other coroutines commit the batch half-way; FAILED is final; nothing reopens |
| `ServiceEnds` | 2 investigations, 1 fault that may roll the shared transaction back, fair | no task hangs on an abandoned lock; the timestamps agree with the status |
| `Process` | start-up: 2 workers, 2 crashes; registry: 2 identifiers, 3 tasks, fair | start-up: ready means migrated; recorded means applied. Registry: duplicates refused; a record tells its own task's outcome; no cancellation is lost; shutdown cancels every task that still runs, also those that outlast its 30 seconds, returns, and in the end none runs |
| `Agent` | the three machines of `AgentTools`; graph: depths 1 and 2, default weights and thresholds, the findings of the AML rules and rug-pull findings that reach every level, verdict and override, 3 attempts, fair; tool: 2 wallets, a ledger of 9 transactions, 3 runs, pages of 3; tracer: 4 accounts with two cycles, one closed by dust only, up to 3 hops | graph: no judgement without data, neither engine's evidence is softened by the other, the report is written from every recorded failure, the run ends. Tool: two wallets of one funder do not both pass; the link always names another wallet; no CLEAN without data; a cluster link stays; AML alarms outlast new transactions. Tracer: edges are paths from the root, shallow ones first; within the node budget, what stops the search at one wallet hides nobody that another path leads to |
| `Requests` | 3 requests, burst 2, 2 attempts, a second of 2 ticks, 4 answers, fair | the bucket's bound over any stretch up to a second; answers decide outcomes; every request ends |

Bounds. Two investigations are enough for every pairwise race on the shared connection: a third
coroutine could only take a turn one of the two also takes. Two findings are the smallest batch
that can be split. One fault is placed everywhere. Three tasks of two identifiers let an
identifier be reused while another one's task lives. The graph's
part of `Agent` tries the findings at which the default bands and overrides change, and all outcomes of
all fetches. Its tool's part has one funder that pays both wallets, one of them by a contract, and a
mixer that pays both, so that a wallet has funders in both lists; two wallets are the smallest
cluster, and three runs let one wallet be judged again after the other. Counts in the thresholds are
scaled down to histories of this length (`ScaledCfg`, `ScaledAml`), severities keep their order;
pages of 3 make the cut happen and leave room for an alarm to arise before the page is full: each of
the rules that `AmlAlarmsStay` names has set off its alarm on some profile that a later transaction
changes (`LastingAlarmsMeetChanges`, an assumption that TLC evaluates on the ledger). Look-ups of ages do not fail there (`MaxMissed = 0`): FP4 does not
read ages, and CleanRestsOnData does not depend on them. The tracer's graph has a cycle through the
root, one that only dust closes, a transfer to itself, an exchange and a mixer; three hops go round the
cycle, and 30 nodes are more than any search of the run `Agent` draws (`PruningIgnored` has 4). Three
requests are one more than the burst, so
one has to wait while two retry. Symmetry over `Inv` and `Requests` is used only in runs without
liveness properties. Deadlock is not checked where the system may stop: all requests done, or no
process started again.

What a run does not check is as telling. `EvidenceBehindReport` is false once a failure rolls the
whole shared transaction back (the batch's owner does not notice), so `ServiceFaults` keeps
`Rollbacks` off and `ServiceEnds` does not state it. `TerminalIsFinal` is false with one fault: the
task's own second `update_status` may fail after `memory_node` committed COMPLETE, and
`mark_failed` then overwrites it; `TerminalNeverReopens` and `FailedIsFinal` are what remains.
`ReportServed` allows "come back later" after a crash, because a poll reads `memory_node`'s
uncommitted COMPLETE on the shared connection.

Fairness. The event loop runs each ready coroutine, so `Handler(i)`, `Task(i)`, `OnTaskDone(i)` are
weakly fair, and a shutdown once begun goes on. No fairness for requests, polls, crashes, restarts
or faults. In `SessionManager` a task that was not cancelled need never finish; one that was does at
some time, not necessarily within the 30 seconds of `asyncio.wait`, which returns then or earlier. In
`EtherscanClient` time passes and each request's next step is weakly fair; httpx answers or times
out within its timeout. In `AgentGraph` the event loop runs the task and whatever it awaits answers,
raises or times out, so `Next` is weakly fair (`GraphStep` in `AgentTools`; the tool and the tracer are
checked for safety only).

### Where the code and its documents disagree

Each is a run that checks one statement of a comment or docstring and ends in a counterexample
(the quoted lines are in `PROJECT.json`):

| run | statement | what happens |
|---|---|---|
| `CancelUnrecorded` | a cancelled investigation writes FAILED | CancelledError passes every `except Exception` |
| `CompleteWithoutReport` | the report is there when the task writes COMPLETE | shutdown closes the shared connection first, `memory_node` swallows the errors |
| `ExchangeUnlabelled` | the entity table maps an address to label, type and note | the 47 inferred exchanges have a name instead: the KeyError ends the investigation of every wallet that dealt with one |
| `PruningIgnored` | the trace ends when the node budget is hit | `PruningEngine.evaluate` returns a `PruneResult`, which equals no `PruneDecision`: neither SKIP nor HALT is ever carried out |
| `DepthTwo` | a request may ask for depth 2 (the default) | `PruneDecision.TRACE` does not exist: the run of any wallet with an outgoing transfer ends in an AttributeError |

Met on the way, and visible in the models without a run of their own: `create_batch` says "in a
single transaction" (`evidence_repo.py:56`), but another coroutine may commit between two of its
INSERTs; `cancel_session` answers True for a task that has ended and whose callback has not run
(`session_manager.py:199-200` says otherwise; `NoCancelIsLost` is what holds).

Visible without a model: `SessionManager` never evicts a record
(`agent/session_manager.py:21-23` says it does); a crash between the script of migration 002 and
its version makes every later start fail on the existing column; closing the database rolls
pending writes back (`main.py:170` speaks of flushing them); a batch that fails half-way leaves rows that
a later commit makes durable while the report counts 0; the bands in the head of
`forensics/rugpull/scorer.py:16-21` are not those of the settings (20, 36, 50, 100); with RUG-NEW-A and
only MEDIUM rules the reported score may be 50 (HIGH by the AML thresholds) and the level LOW; failures
of the rug-pull fetches never reach `AgentState.errors` (`agent/state.py:13-14` says errors accumulate
across nodes); the report's template, used when the LLM fails, does not mention errors at all.

The limiter keeps what its docstring promises of the bucket, not what `etherscan_client.py:11-12` says
of the free tier: a bucket of 5 refilled at 4.5 per second admits up to 9 requests in its first
second, and retries take no token.

In the rug-pull tool and its rules:

- the tool fetches the wallet's own two lists only, so the victims' inflow is empty and POST-1, POST-2,
  POST-7, EXIT-1, EXIT-4 cannot fire, although `rules.py:1091-1092`, `1152-1153` and `2039` describe
  the drained projects they flag (proved: `DepositsAreUnseen`); for the same reason FP2 knows no
  distance but 0 and 1;
- only the oldest 1000 transactions of each list are read, and the two lists may be of different
  moments; `isError` is ignored by every feature of value;
- a lone removeLiquidity sent to a DEX router is both dump and swap, with a latency of 0, and POST-6 is
  CRITICAL; the settings of RUG_003 and VS-4 exist a second time as constants of the extractor;
- F5 is "not a severity trigger" (`settings/base.py:536`) and yet fires RUG-005 as LOW; FP3's docstring
  says more than, its code at least; FP1's names mixer or bridge, its code mixer or fresh wallet;
- `record_funders` stores every wallet that is investigated, not only those found guilty, so the
  second client of a busy and unlisted funder is flagged.

In the AML engine and the tracer: the types of `known_entities.json` (CEX, DEX, MIXER, BRIDGE) are not
the names that `forensics/engine.py:44-46` and the pruning engine compare with, so no mixer bonus is ever
given; windows without a transaction are left out of RULE-005's baseline, and a new transaction may
silence RULE-005 and RULE-007 (`AmlAlarmsStay` names the rules that do stay); the profile starts at
a block estimated at 6500 a day, which moves with the date; `tracer_node`, which is not in the compiled
graph, hands on seeds without a transaction, all of which are dropped.

## 4. What is proved

Every safety invariant and action property of the runs, for every set of investigations,
wallets and requests and every value of the bounds (assumptions `StoreAssumption`,
`ServiceAssumption`, `TasksAssumption`, `CrashAssumption`, `TraceAssumption`, `ScoringAssumption`,
`GraphAssumption`, `RugpullAssumption`, `FundingAssumption`, `FeatureAssumption`, `AmlAssumption`,
`ToolAssumption`, `ClientAssumption`: identifiers differ from the shared connection's name, bounds
are naturals, weights are positive, thresholds lie in the ranges the settings accept, times of
transactions are naturals and unique).

### The store and the service

`SqliteStoreProofs`: what each statement of the repositories does to one row and to no other
(`Statement`: tables to tables, no row lost); what a connection may see (`FreshView`, `ViewType`);
and `StoreStepKind`: a step of the store rests, drafts one more statement, or publishes a draft.

`InvestigationServiceProofs` rests on one inductive invariant,

    ServiceInv == TypeOK /\ StoreInv /\ SentInv /\ FindingsInv /\ StageInv

`StoreInv`: at most one writer, only the shared connection holds a snapshot, a fresh snapshot
equals the committed tables, what a writer sees extends the committed rows. `StageInv` speaks of
`Live`, the committed tables and those that some commit could make so: in each of them a row is sound
and its status is one its coroutine may have left (`RowsFit`); no draft takes a committed
status back (`DraftKeeps`); a task finds its own pending statement (`OwnDraft`); a task that returned
has left a terminal row (`Returned`). Speaking of the committed tables alone would not be
inductive: that a commit by *another* coroutine cannot undo a row follows only from what is known of the
draft it commits. `CallKeepsInv` proves the step of a repository method once for all ten callers.

| theorem | property | hypotheses | further invariant |
|---|---|---|---|
| `ServiceTypes`, `RowBeforeTask`, `TimestampsFit` | `TypeOK`, `TaskHasCommittedRow`, `LifecycleTimestamps` | none | |
| `FailedStays`, `FinishedStays` | `FailedIsFinal`, `TerminalNeverReopens` | none | (`CommitKeepsRows`) |
| `SessionsAgree` | `SessionAgreesWithRow` | no faults | |
| `LockIsOwned` | `LockHasOwner` | no faults | `AppInv`: where the shutdown stands |
| `ReportsBacked` | `EvidenceBehindReport` | no rollback of a whole transaction | `CountInv`, `EvidenceInv`: each table that is or may be committed holds the evidence its coroutine has inserted |
| `OutcomesStay` | `TerminalIsFinal` | no faults, no lock timeouts | `Opened`, `CalmInv`: a task that fails does so before COMPLETE |
| `CompletesWithReport` | `CompleteHasReport` | no faults, no lock timeouts, no shutdown | `UpInv`, `PublishInv`: a draft moves each row by at most one stage of the lifecycle, and COMPLETE is drafted only with the report |
| `CommitsFollowLifecycle` | `ImplementsLifecycle` | the same | the same: each step of the service is a step of `InvestigationLifecycle` on the committed tables, or none |
| `ReportsAreServed` | `ReportServed` | the same | `ServedInv`: what a poll has shown, and that the shared connection still sees it |

None of the hypotheses can be dropped: without it TLC refutes the property on two investigations. *No
faults* (`MaxFaults = 0`): a task that cannot open its connection returns with its row PENDING and its
session COMPLETE; an INSERT or commit that raises leaves the shared connection's transaction open, and its
handler is gone; a failing INSERT of the report is swallowed, and COMPLETE follows. *No rollback*
(`~Rollbacks`): the owner of a batch does not notice that it is gone and reports its evidence. *No
lock timeouts* (`~Stalls`): the task's own second `update_status` may time out after `memory_node`
committed COMPLETE, and `mark_failed` overwrites it; and the report may be refused while the status is
not. *No shutdown*: it closes the shared connection, `memory_node` skips the report, and the task writes
COMPLETE on its own (run `CompleteWithoutReport`). Failing analyses, the interleavings of all
coroutines, and crashes and restarts remain in every theorem. The runs that check
these properties satisfy the hypotheses.

### The other components

- `SessionTypes`, `NoDuplicateSessions`, `RecordsAreTheirTasks`, `ShutdownReachesEveryone`,
  `CancelsArrive` (`SessionManagerProofs`), from one invariant that ties each live task to its
  record and each record to its task. `AnswerInv` adds that the task an answer was about exists;
  `RefusalIsSafe` is why a refusal never concerns a live task.
- `AnswersJustified`, `BucketHolds`, `ClientTypes` (`EtherscanClientProofs`). `ClientInv` says what the
  log of a request may hold at each point of its coroutine; time and the bucket do not occur in
  it. `BucketInv` says that what was admitted in the last `k` ticks is in the bucket still, except for
  what leaked since. `BackoffBound` (the powers of two up to the last attempt) bounds the timers.
- `ScoresInRange`, `NoJudgementWithoutData`, `EnginesAreNotSoftened`, `FailuresAreReported`
  (`AgentGraphProofs`), for all weights, thresholds and findings. `GraphInv` adds to the properties
  what has not been written yet at each node and that a score of 0 is LOW (`Consistent`): without it
  the guard `score > 0` in the detector could drop a level. `AmlRatingType` and `RugRatingType`
  prove the two scores once; thresholds need not be ordered for any of it.
- `RugpullToolProofs`, for every set of wallets, ledger, page size, threshold and number of
  concurrent runs:
  - `SharersDoNotPass`, `NoSelfMadeCluster`. `ClusterInv` adds to the two properties that a run about to be
    judged, and every report, has its funders in the table (`RunsAreRecorded`,
    `ReportsAreRecorded`): with two reports that share a funder, the later of the two judgements found
    the other's row. `FlagIsReported` carries the flag through the features, rule FP4 and the
    override of the scorer, whatever the other 27 rules say.
  - `LinksStay`: the chain is mined in order (`MinedInOrder`), so a page of its oldest transactions only
    grows (`PageGrows`) and so do the funders read from it (`FundersGrow`). `MemoryInv` says that a run
    has read at least what the last report rests on if that report was there when it began, although
    runs overlap and their two lists are of different moments; with that, the funder that flagged the
    wallet is found again.
  - `AlarmsStay`: a step of the chain extends the page a profile is made of (`PageIsExtended`), counts
    only rise (`MoreIsCounted`), grades rise with them (`GradesRise`), rule by rule (`AlarmsOutlast`).
  - `DepositsAreUnseen` has an invariant of its own (`OwnInv`: what a run holds has its wallet at one
    end), and so has `AcquittalsRestOnData` (`DataInv`: a run goes on past its fetches only with a
    transaction in hand).
  - `ComponentsRunAlone`: a behaviour of `AgentTools` is one of `AgentGraph`, of `RugpullTool` and of
    `Tracing`, so what is proved of each holds in the composition that the run `Agent` checks.
- `TracedEdgesArePaths`, `ShallowFirst`, `ReachIsDrawn` (`TracingProofs`), for every graph of transfers,
  all weights and tables whose values are naturals. `TraceInv` adds what the queue must be: each entry was
  reached by an edge one level above it, and the queue holds at most two levels, the shallower one first,
  none shallower than an edge drawn. All that the proofs use of `Is` is that a decision tells what was
  decided (`IsMeans`), so all three hold as the code stands and once its comparison is repaired. The
  invariant of the third, `ReachInv`, says that no entry waits beyond the hops asked for, that who is
  traced is drawn, and that, while the budget lasts, everyone behind a wallet at which nothing stops
  the search is drawn or waits in the queue; the recursion over the hops, at most three, is written
  out (`ReachedByHops`). `RanksAreTaken` (in a finite total order every rank occurs, by counting an
  injection) is what makes the sort and the selection of transfers sequences.
- `MigrationTypes`, `NothingRecordedUnapplied`, `ReadyWorkersAreMigrated` (`MigrationsProofs`), for any
  number of workers and crashes. `LoopInv` ties each worker's place in the loop to what is recorded and
  created; `OneWorkerMoves` uses that schema and record only grow, so that the write lock does not
  occur in the argument.

Only model-checked: liveness (`StartedFinishes`, `TaskEnds`, `ShutdownEndsAll`, `EveryRequestEnds`,
`GraphCompletes`), which is outside the prover's reach.

## 5. Plan, and what is not modelled

What the runs check for safety is proved, so the next things worth doing are, in this order:

1. Weaker hypotheses where a fault does harm in a few places only: `SessionAgreesWithRow` may need
   no more than that a task's connection opens, and `LockHasOwner` that no call on the shared
   connection raises; TLC should try both first.
2. Token transfers in the VS features, once a caller passes them in.
3. `Pagination` of the history endpoint and `StateCondenser`: what they keep and drop.

Not modelled, and not planned: history, graph and health endpoints, middleware, schemas, logging,
prompts and report wording (queries, validation and formatting without a state of their own); the
front end; command-line scripts and data-set tools, which run offline and touch the service only through the
funder table (their runs are among those of `RugpullTool`); settings, except those that are CONSTANTs here;
features that only the narrative shows.
`get_contract_info`, `filter_candidates`, `jaccard_similarity` and `get_funders` have no caller.
