------------------------------ MODULE RugpullTool ------------------------------
(***************************************************************************)
(* The rug-pull tool over a chain that grows while it works.  Wallets are  *)
(* investigated concurrently, by processes of the server and of the batch  *)
(* scripts that share one funder table; a process may die between any two  *)
(* steps, and every fetch may fail.                                        *)
(***************************************************************************)
EXTENDS RugpullFeatures

CONSTANTS Wallets,    \* the wallets that are investigated
          Ledger,     \* the transactions that will be mined
          PageSize,   \* get_transactions' offset: the oldest 1000 by default
          Now,        \* the time of every analysis, later than the ledger
          MaxRuns, MaxMissed  \* bounds: runs, failed age look-ups of one run

ASSUME ToolAssumption ==
  /\ Wallets \subseteq Addr /\ PageSize \in Nat \ {0}
  /\ \A t \in Ledger : t.from \in Addr /\ t.to \in Addr \cup {None} /\ t.ts \in Nat /\ t.ts < Now
  /\ \A t, u \in Ledger : t.ts = u.ts => t = u
  /\ {MaxRuns, MaxMissed} \subseteq Nat

VARIABLES chain,   \* the transactions mined so far
          links,   \* the rows of funder_links: <<funder, wallet>>
          job,     \* each wallet's run in progress
          reports   \* each wallet's latest report, NotRun before the first

toolVars == <<chain, links, job, reports>>

Attempts == 3
Idle == [phase |-> "idle", runs |-> 0, tries |-> 0, complete |-> TRUE, nor |-> {}, int |-> {},
         ages |-> None, funders |-> {}]
NotRun == [verdict |-> "NOT_RUN", score |-> 0, fired |-> {}, funders |-> {}, complete |-> FALSE,
           fetched |-> {}]

ToolInit ==
  /\ chain = {} /\ links = {}
  /\ job = [w \in Wallets |-> Idle]
  /\ reports = [w \in Wallets |-> NotRun]

----------------------------------------------------------------------------
(* What the block explorer answers. *)

\* The explorer lists a transaction with the wallets at its two ends.
Listed(w, kind) == {t \in chain : t.kind = kind /\ w \in {t.from, t.to}}
\* Mutant of Page: sorted from the newest down.
NewestPage(txs) == {t \in txs : Cardinality({u \in txs : u.ts > t.ts}) < PageSize}
Page(txs) == {t \in txs : Cardinality({u \in txs : u.ts < t.ts}) < PageSize}
FirstSeen(a) == IF Listed(a, "normal") = {} THEN None ELSE Earliest(Listed(a, "normal")).ts

Transact(t) ==
  /\ t \notin chain
  /\ \A u \in Ledger \ chain : t.ts <= u.ts
  /\ chain' = chain \cup {t}
  /\ UNCHANGED <<links, job, reports>>

----------------------------------------------------------------------------
(* RugpullTool.run *)

At(w, phase) == job[w].phase = phase
EndRun(w) == job' = [job EXCEPT ![w] = [Idle EXCEPT !.runs = job[w].runs]]

StartRun(w) ==
  /\ At(w, "idle") /\ MapThenSumSet(LAMBDA v : job[v].runs, Wallets) < MaxRuns
  /\ job' = [job EXCEPT ![w].phase = "normal", ![w].runs = @ + 1]
  /\ UNCHANGED <<chain, links, reports>>

GetTransactions(w) ==
  /\ At(w, "normal")
  /\ job' = [job EXCEPT ![w].phase = "internal", ![w].tries = 0, ![w].nor = Page(Listed(w, "normal"))]
  /\ UNCHANGED <<chain, links, reports>>

\* Three attempts, counted while they are made; after the last the run goes on
\* without the list.
NormalFails(w) ==
  LET tries == job[w].tries + 1
  IN  /\ At(w, "normal")
      /\ job' = IF tries < Attempts THEN [job EXCEPT ![w].tries = tries]
                ELSE [job EXCEPT ![w].tries = 0, ![w].phase = "internal", ![w].complete = FALSE]
      /\ UNCHANGED <<chain, links, reports>>

\* Mutant of NoData: the score of an empty history.
ScoreOfNothing == [verdict |-> "CLEAN", score |-> 0, fired |-> {}, funders |-> {},
                   complete |-> FALSE, fetched |-> {}]

\* With no transaction at all the run ends: a score would be a false CLEAN.
NoData == [verdict |-> "INSUFFICIENT_DATA", score |-> 0, fired |-> {}, funders |-> {},
           complete |-> FALSE, fetched |-> {}]

AfterInternal(w, fetched, complete) ==
  /\ At(w, "internal")
  /\ IF job[w].nor \cup fetched = {}
       THEN /\ reports' = [reports EXCEPT ![w] = NoData]
            /\ EndRun(w)
       ELSE /\ job' = [job EXCEPT ![w].phase = "ages", ![w].int = fetched, ![w].complete = complete]
            /\ UNCHANGED reports
  /\ UNCHANGED <<chain, links>>

GetInternalTransactions(w) == AfterInternal(w, Page(Listed(w, "internal")), job[w].complete)
InternalFails(w) == AfterInternal(w, {}, FALSE)

\* Without a deployment, the last transaction of the concatenated lists.
DeployTs(w) ==
  LET d == FirstDeployment(w, job[w].nor)
      last == IF job[w].int # {} THEN job[w].int ELSE job[w].nor
  IN  IF d # None THEN d.ts ELSE Latest(last).ts

Contacts(w) ==
  LET txs == job[w].nor \cup job[w].int
  IN  {t.from : t \in {u \in Inbound(w, txs) : u.ts <= DeployTs(w)}}
        \cup {t.to : t \in {u \in Outgoing(w, txs) : /\ u.to # None /\ u.value > 0
                                                     /\ u.creates = None /\ u.ts >= DeployTs(w)}}

\* One look-up per counterparty, concurrently; the age of an address never
\* changes once it has one, so they are one step.  A failed one leaves None.
LookUpAges(w) ==
  /\ At(w, "ages")
  /\ \E missed \in SUBSET Contacts(w) :
       /\ Cardinality(missed) <= MaxMissed
       /\ job' = [job EXCEPT ![w].phase = "record",
                             ![w].ages = [a \in Addr |-> IF a \in Contacts(w) \ missed
                                                         THEN FirstSeen(a) ELSE None]]
  /\ UNCHANGED <<chain, links, reports>>

RecordFunders(w) ==
  LET funders == get_upstream_funders_bfs(w, job[w].nor \cup job[w].int)
  IN  /\ At(w, "record")
      /\ links' = record_funders(links, w, funders)
      /\ job' = [job EXCEPT ![w].phase = "judge", ![w].funders = funders]
      /\ UNCHANGED <<chain, reports>>

\* The rest of extract_funding_provenance and RugpullEngine.run.
Judged(w) ==
  LET j == job[w]
      shared == shared_upstream_funders_flag(links, w, j.funders)
      results == evaluate_all(features(w, j.nor, j.int, DeployTs(w), j.ages, shared, Now))
      rating == RugRating(Found(results))
  IN  [verdict |-> rating.verdict, score |-> rating.score,
       fired |-> {id \in RuleIds : results[id] # NotTriggered},
       funders |-> j.funders, complete |-> j.complete, fetched |-> j.nor \cup j.int]

Judge(w) ==
  /\ At(w, "judge")
  /\ reports' = [reports EXCEPT ![w] = Judged(w)]
  /\ EndRun(w)
  /\ UNCHANGED <<chain, links>>

\* The process dies, or the table stays locked and the detector logs the
\* exception: no report comes of the run.
Abandon(w) ==
  /\ ~At(w, "idle")
  /\ EndRun(w)
  /\ UNCHANGED <<chain, links, reports>>

ToolNext ==
  \/ \E t \in Ledger : Transact(t)
  \/ \E w \in Wallets :
       \/ StartRun(w) \/ GetTransactions(w) \/ NormalFails(w) \/ GetInternalTransactions(w) \/ InternalFails(w)
       \/ LookUpAges(w) \/ RecordFunders(w) \/ Judge(w) \/ Abandon(w)

ToolSpec == ToolInit /\ [][ToolNext]_toolVars

----------------------------------------------------------------------------
(* Properties *)

Reported(w) == reports[w] # NotRun
Flagged(w) == Reported(w) /\ reports[w].verdict = "HIGH_CONFIDENCE_RUGPULL" /\ "FP4" \in reports[w].fired

\* Two wallets with a common upstream funder cannot both pass unnoticed, in
\* whatever order and by whatever processes they are investigated: each run
\* commits its funders before it looks for others (extract_funding_provenance).
LastSharerIsFlagged ==
  \A v, w \in Wallets :
    (v # w /\ Reported(v) /\ Reported(w) /\ reports[v].funders \cap reports[w].funders # {})
      => Flagged(v) \/ Flagged(w)

\* The strongest verdict rests on another wallet: FP4 never fires on the rows a
\* wallet wrote itself in an earlier run, nor on a public address as the link.
FlaggedWithAnother ==
  \A w \in Wallets : Reported(w) /\ "FP4" \in reports[w].fired =>
    \E v \in Wallets \ {w} : \E f \in reports[w].funders : <<f, v>> \in links /\ Eligible(f)

\* A wallet is declared CLEAN only on transactions that were read: a failure of
\* the explorer is not an acquittal (the early return of RugpullTool.run).
CleanRestsOnData ==
  \A w \in Wallets : Reported(w) /\ reports[w].verdict = "CLEAN" => reports[w].fetched # {}

\* A cluster link is final: while the chain and the table grow, a later run that
\* could read both lists does not drop what an earlier one found.
ClusterLinkStays ==
  [][\A w \in Wallets : Flagged(w) /\ reports'[w].complete => Flagged(w)']_toolVars

\* The tool asks for the wallet's own lists only, so no deposit that somebody
\* else made into a contract is ever among what a run has read: the victims'
\* inflow of extract_cashout_features is 0 for every wallet, and the rules on
\* drained projects (POST-1, POST-2, POST-7, EXIT-1, EXIT-4) cannot fire.
NoDepositIsRead ==
  \A w \in Wallets : \A c \in Addr \ {w} : Deposits(w, c, job[w].nor \cup job[w].int) = {}
===============================================================================
