--------------------------- MODULE RugpullToolProofs ---------------------------
(***************************************************************************)
(* What the funder table and the fetched pages promise, for every ledger,  *)
(* every number of wallets and every order of their runs; and that the     *)
(* composition of AgentTools inherits what is proved of its components.    *)
(***************************************************************************)
EXTENDS AgentTools, FiniteSetTheorems, TLAPS

\* What the proof needs to know of the runs' and the reports' types.
Shapes ==
  /\ DOMAIN job = Wallets /\ DOMAIN reports = Wallets
  /\ \A w \in Wallets : DOMAIN job[w] = DOMAIN Idle

\* A link names the investigated wallet second.
LinksOfWallets == \A l \in links : l = <<l[1], l[2]>> /\ l[2] \in Wallets

\* What a run or a report relies on is in the table, and stays there.
Recorded(w, funders) == \A f \in funders : <<f, w>> \in links /\ Eligible(f)
RunsAreRecorded == \A w \in Wallets : At(w, "judge") => Recorded(w, job[w].funders)
ReportsAreRecorded == \A w \in Wallets : Reported(w) => Recorded(w, reports[w].funders)

ClusterInv ==
  /\ Shapes /\ LinksOfWallets /\ RunsAreRecorded /\ ReportsAreRecorded
  /\ LastSharerIsFlagged /\ FlaggedWithAnother

-------------------------------------------------------------------------------
(* The operators *)

\* The search returns only addresses that may link two wallets.
LEMMA FundersAreEligible ==
  ASSUME NEW w, NEW txs, NEW f \in get_upstream_funders_bfs(w, txs)
  PROVE  Eligible(f)
BY DEF get_upstream_funders_bfs

\* The flag is the existence of another wallet in the table.
LEMMA FlagMeansAnother ==
  ASSUME NEW w, NEW funders, LinksOfWallets,
         shared_upstream_funders_flag(links, w, funders)
  PROVE  \E v \in Wallets \ {w} : \E f \in funders : <<f, v>> \in links
<1>1. PICK f \in funders : get_wallets_by_funder(links, f) \ {w} # {}
  BY DEF shared_upstream_funders_flag
<1>2. PICK l \in links : l[1] = f /\ l[2] # w
  BY <1>1 DEF get_wallets_by_funder
<1>3. l = <<f, l[2]>> /\ l[2] \in Wallets
  BY <1>2 DEF LinksOfWallets
<1> QED BY <1>2, <1>3

LEMMA AnotherMeansFlag ==
  ASSUME NEW w, NEW funders, NEW f \in funders, NEW v, v # w, <<f, v>> \in links
  PROVE  shared_upstream_funders_flag(links, w, funders)
<1>1. v \in get_wallets_by_funder(links, f)
  BY DEF get_wallets_by_funder
<1> QED BY <1>1 DEF shared_upstream_funders_flag

\* The flag reaches rule FP4 through all the other features.
LEMMA FlagIsAFeature ==
  ASSUME NEW w, NEW nor, NEW int, NEW deployTs, NEW ages, NEW shared, NEW now
  PROVE  features(w, nor, int, deployTs, ages, shared, now).sharedFunders = shared
BY DEF features, WithFlag

LEMMA RuleFP4 ==
  ASSUME NEW fv, fv.sharedFunders \in BOOLEAN
  PROVE  evaluate_all(fv)["FP4"] # NotTriggered <=> fv.sharedFunders
BY DEF evaluate_all, RuleIds, rule_fp4_shared_funders, Graded, NotTriggered

\* A run that meets its own funders in the table beside another wallet ends in
\* the strongest verdict, whatever else it found.
LEMMA FlagIsReported ==
  ASSUME NEW w \in Wallets
  PROVE  /\ Judged(w).funders = job[w].funders
         /\ shared_upstream_funders_flag(links, w, job[w].funders)
              <=> "FP4" \in Judged(w).fired
         /\ "FP4" \in Judged(w).fired => Judged(w).verdict = "HIGH_CONFIDENCE_RUGPULL"
<1> DEFINE j == job[w]
           shared == shared_upstream_funders_flag(links, w, j.funders)
           fv == features(w, j.nor, j.int, DeployTs(w), j.ages, shared, Now)
           results == evaluate_all(fv)
           found == Found(results)
           rating == RugRating(found)
           fired == {id \in RuleIds : results[id] # NotTriggered}
<1>1. shared \in BOOLEAN
  BY DEF shared_upstream_funders_flag
<1>2. fv.sharedFunders = shared
  BY FlagIsAFeature
<1> HIDE DEF fv
<1>3. results["FP4"] # NotTriggered <=> shared
  BY <1>1, <1>2, RuleFP4
<1> HIDE DEF results
<1>4. "FP4" \in fired <=> shared
  BY <1>3 DEF RuleIds
<1>5. found.fp4 <=> shared
  BY <1>3 DEF Found
<1> HIDE DEF found
<1>6. shared => rating.verdict = "HIGH_CONFIDENCE_RUGPULL"
  BY <1>5 DEF RugRating
<1> HIDE DEF rating, fired, shared
<1>7. Judged(w) = [verdict |-> rating.verdict, score |-> rating.score, fired |-> fired,
                   funders |-> j.funders, complete |-> j.complete, fetched |-> j.nor \cup j.int]
  BY DEF Judged, rating, fired, found, results, fv, shared
<1>8. Judged(w).funders = j.funders /\ Judged(w).fired = fired /\ Judged(w).verdict = rating.verdict
  BY <1>7
<1> QED BY <1>4, <1>6, <1>8 DEF shared

-------------------------------------------------------------------------------
(* The steps *)

LEMMA InitClusters == ASSUME ToolInit PROVE ClusterInv
<1>1. \A w \in Wallets : ~Reported(w) /\ ~At(w, "judge")
  BY DEF ToolInit, Reported, At, Idle
<1>2. Shapes /\ LinksOfWallets
  BY DEF ToolInit, Shapes, LinksOfWallets
<1> QED BY <1>1, <1>2 DEF ClusterInv, RunsAreRecorded, ReportsAreRecorded,
            LastSharerIsFlagged, FlaggedWithAnother

\* A step that neither links nor reports, nor brings a run to its judgement.
LEMMA QuietStep ==
  ASSUME ClusterInv, Shapes', UNCHANGED <<links, reports>>,
         \A w \in Wallets : job'[w].phase = "judge" => job'[w] = job[w]
  PROVE  ClusterInv'
<1>1. LinksOfWallets'
  BY DEF ClusterInv, LinksOfWallets
<1>2. RunsAreRecorded'
  BY DEF ClusterInv, RunsAreRecorded, Recorded, At
<1>3. ReportsAreRecorded' /\ LastSharerIsFlagged' /\ FlaggedWithAnother'
  BY DEF ClusterInv, ReportsAreRecorded, LastSharerIsFlagged, FlaggedWithAnother, Recorded, Reported,
         Flagged
<1> QED BY <1>1, <1>2, <1>3 DEF ClusterInv

\* The run of one wallet moves on; the others stand still.
LEMMA OneRunMoves ==
  ASSUME Shapes, NEW w \in Wallets, NEW changed, job' = [job EXCEPT ![w] = changed],
         DOMAIN changed = DOMAIN Idle, reports' = reports, changed.phase # "judge"
  PROVE  /\ Shapes'
         /\ \A v \in Wallets : job'[v].phase = "judge" => job'[v] = job[v]
<1>1. DOMAIN job' = Wallets /\ job'[w] = changed /\ \A v \in Wallets \ {w} : job'[v] = job[v]
  BY DEF Shapes
<1>2. Shapes'
  BY <1>1 DEF Shapes
<1> QED BY <1>1, <1>2

\* A new report that is truthful about the table keeps every promise.
LEMMA NewReport ==
  ASSUME ClusterInv, NEW w \in Wallets, NEW r, reports' = [reports EXCEPT ![w] = r], links' = links,
         Recorded(w, r.funders),
         (\E v \in Wallets \ {w} : \E f \in r.funders : <<f, v>> \in links) <=> "FP4" \in r.fired,
         "FP4" \in r.fired => r.verdict = "HIGH_CONFIDENCE_RUGPULL"
  PROVE  ReportsAreRecorded' /\ LastSharerIsFlagged' /\ FlaggedWithAnother'
<1>1. reports'[w] = r /\ \A v \in Wallets \ {w} : reports'[v] = reports[v]
  BY DEF ClusterInv, Shapes
<1>2. ReportsAreRecorded'
  BY <1>1 DEF ClusterInv, ReportsAreRecorded, Reported, Recorded
<1>3. LastSharerIsFlagged'
  <2>1. ASSUME NEW u \in Wallets \ {w}, Reported(u)', Reported(w)',
               reports'[u].funders \cap r.funders # {}
        PROVE  Flagged(w)'
    <3>1. PICK f \in r.funders : f \in reports[u].funders
      BY <1>1, <2>1
    <3>2. <<f, u>> \in links
      BY <1>1, <2>1, <3>1 DEF ClusterInv, ReportsAreRecorded, Reported, Recorded
    <3>3. "FP4" \in r.fired
      BY <3>1, <3>2
    <3> QED BY <1>1, <2>1, <3>3 DEF Flagged, Reported
  <2>2. ASSUME NEW u \in Wallets \ {w}, NEW v \in Wallets \ {w}, u # v, Reported(u)', Reported(v)',
               reports'[u].funders \cap reports'[v].funders # {}
        PROVE  Flagged(u)' \/ Flagged(v)'
    BY <1>1, <2>2 DEF ClusterInv, LastSharerIsFlagged, Flagged, Reported
  <2>3. SUFFICES ASSUME NEW u \in Wallets, NEW v \in Wallets, u # v, Reported(u)', Reported(v)',
                        reports'[u].funders \cap reports'[v].funders # {}
                 PROVE  Flagged(u)' \/ Flagged(v)'
    BY DEF LastSharerIsFlagged
  <2>4. CASE u = w
    BY <1>1, <2>1, <2>3, <2>4
  <2>5. CASE v = w
    BY <1>1, <2>1, <2>3, <2>5
  <2> QED BY <2>2, <2>3, <2>4, <2>5
<1>4. FlaggedWithAnother'
  <2>1. ASSUME NEW u \in Wallets, Reported(u)', "FP4" \in reports'[u].fired
        PROVE  \E v \in Wallets \ {u} : \E f \in reports'[u].funders : <<f, v>> \in links /\ Eligible(f)
    <3>1. CASE u = w
      BY <1>1, <2>1, <3>1 DEF Recorded
    <3>2. CASE u # w
      BY <1>1, <2>1, <3>2 DEF ClusterInv, FlaggedWithAnother, Reported
    <3> QED BY <3>1, <3>2
  <2> QED BY <2>1 DEF FlaggedWithAnother
<1> QED BY <1>2, <1>3, <1>4

\* No step of a run, of another run or of the chain breaks a promise.
LEMMA StepClusters ==
  ASSUME ClusterInv, [ToolNext]_toolVars
  PROVE  ClusterInv'
<1> USE DEF Idle
<1>0. Shapes
  BY DEF ClusterInv
<1>1. CASE UNCHANGED toolVars
  <2>1. Shapes' /\ links' = links /\ reports' = reports /\ job' = job
    BY <1>0, <1>1 DEF toolVars, Shapes
  <2> QED BY <2>1, QuietStep
<1>2. CASE \E t \in Ledger : Transact(t)
  <2>1. Shapes' /\ links' = links /\ reports' = reports /\ job' = job
    BY <1>0, <1>2 DEF Transact, Shapes
  <2> QED BY <2>1, QuietStep
<1>3. ASSUME NEW w \in Wallets,
             \/ StartRun(w) \/ GetTransactions(w) \/ NormalFails(w) \/ LookUpAges(w) \/ Abandon(w)
      PROVE  ClusterInv'
  <2>1. links' = links /\ reports' = reports
    BY <1>3 DEF StartRun, GetTransactions, NormalFails, LookUpAges, Abandon
  <2>2. Shapes' /\ \A v \in Wallets : job'[v].phase = "judge" => job'[v] = job[v]
    <3>1. CASE StartRun(w)
      <4> DEFINE changed == [job[w] EXCEPT !.phase = "normal", !.runs = @ + 1]
      <4>1. DOMAIN changed = DOMAIN Idle /\ changed.phase # "judge"
        BY <1>0 DEF Shapes
      <4>2. job' = [job EXCEPT ![w] = changed]
        BY <3>1 DEF StartRun
      <4> HIDE DEF changed
      <4> QED BY <1>0, <2>1, <4>1, <4>2, OneRunMoves
    <3>2. CASE GetTransactions(w)
      <4> DEFINE changed == [job[w] EXCEPT !.phase = "internal", !.tries = 0,
                                      !.nor = Page(Listed(w, "normal"))]
      <4>1. DOMAIN changed = DOMAIN Idle /\ changed.phase # "judge"
        BY <1>0 DEF Shapes
      <4>2. job' = [job EXCEPT ![w] = changed]
        BY <3>2 DEF GetTransactions
      <4> HIDE DEF changed
      <4> QED BY <1>0, <2>1, <4>1, <4>2, OneRunMoves
    <3>3. CASE NormalFails(w) /\ job[w].tries + 1 < Attempts
      <4> DEFINE changed == [job[w] EXCEPT !.tries = job[w].tries + 1]
      <4>1. DOMAIN changed = DOMAIN Idle /\ changed.phase # "judge"
        BY <1>0, <3>3 DEF Shapes, NormalFails, At
      <4>2. job' = [job EXCEPT ![w] = changed]
        BY <3>3 DEF NormalFails
      <4> HIDE DEF changed
      <4> QED BY <1>0, <2>1, <4>1, <4>2, OneRunMoves
    <3>4. CASE NormalFails(w) /\ ~(job[w].tries + 1 < Attempts)
      <4> DEFINE changed == [job[w] EXCEPT !.tries = 0, !.phase = "internal", !.complete = FALSE]
      <4>1. DOMAIN changed = DOMAIN Idle /\ changed.phase # "judge"
        BY <1>0 DEF Shapes
      <4>2. job' = [job EXCEPT ![w] = changed]
        BY <3>4 DEF NormalFails
      <4> HIDE DEF changed
      <4> QED BY <1>0, <2>1, <4>1, <4>2, OneRunMoves
    <3>5. CASE LookUpAges(w)
      <4>1. PICK found : job' = [job EXCEPT ![w].phase = "record", ![w].ages = found]
        BY <3>5 DEF LookUpAges
      <4> DEFINE changed == [job[w] EXCEPT !.phase = "record", !.ages = found]
      <4>2. DOMAIN changed = DOMAIN Idle /\ changed.phase # "judge"
        BY <1>0 DEF Shapes
      <4>3. job' = [job EXCEPT ![w] = changed]
        BY <4>1
      <4> HIDE DEF changed
      <4> QED BY <1>0, <2>1, <4>2, <4>3, OneRunMoves
    <3>6. CASE Abandon(w)
      <4> DEFINE changed == [Idle EXCEPT !.runs = job[w].runs]
      <4>1. DOMAIN changed = DOMAIN Idle /\ changed.phase # "judge"
        BY <1>0 DEF Shapes
      <4>2. job' = [job EXCEPT ![w] = changed]
        BY <3>6 DEF Abandon, EndRun
      <4> HIDE DEF changed
      <4> QED BY <1>0, <2>1, <4>1, <4>2, OneRunMoves
    <3> QED BY <1>3, <3>1, <3>2, <3>3, <3>4, <3>5, <3>6
  <2> QED BY <2>1, <2>2, QuietStep
<1>4. ASSUME NEW w \in Wallets, NEW txs, NEW complete, AfterInternal(w, txs, complete)
      PROVE  ClusterInv'
  <2>1. links' = links
    BY <1>4 DEF AfterInternal
  <2>2. CASE job[w].nor \cup txs = {}
    <3>1. /\ reports' = [reports EXCEPT ![w] = NoData]
          /\ job' = [job EXCEPT ![w] = [Idle EXCEPT !.runs = job[w].runs]]
      BY <1>4, <2>2 DEF AfterInternal, EndRun
    <3>2. /\ DOMAIN job' = Wallets /\ job'[w] = [Idle EXCEPT !.runs = job[w].runs]
          /\ \A v \in Wallets \ {w} : job'[v] = job[v]
      BY <1>0, <3>1 DEF Shapes
    <3>3. Shapes'
      BY <1>0, <3>1, <3>2 DEF Shapes
    <3>4. RunsAreRecorded'
      BY <2>1, <3>2 DEF ClusterInv, RunsAreRecorded, Recorded, At
    <3>5. ReportsAreRecorded' /\ LastSharerIsFlagged' /\ FlaggedWithAnother'
      <4>1. NoData.funders = {} /\ NoData.fired = {}
        BY DEF NoData
      <4>2. Recorded(w, NoData.funders)
        BY <4>1 DEF Recorded
      <4> QED BY <2>1, <3>1, <4>1, <4>2, NewReport
    <3> QED BY <2>1, <3>3, <3>4, <3>5 DEF ClusterInv, LinksOfWallets
  <2>3. CASE job[w].nor \cup txs # {}
    <3>1. /\ job' = [job EXCEPT ![w] = [job[w] EXCEPT !.phase = "ages", !.int = txs,
                                                     !.complete = complete]]
          /\ reports' = reports
      BY <1>4, <2>3 DEF AfterInternal
    <3>2. Shapes' /\ \A v \in Wallets : job'[v].phase = "judge" => job'[v] = job[v]
      <4> DEFINE changed == [job[w] EXCEPT !.phase = "ages", !.int = txs, !.complete = complete]
      <4>1. DOMAIN changed = DOMAIN Idle /\ changed.phase # "judge"
        BY <1>0 DEF Shapes
      <4> HIDE DEF changed
      <4> QED BY <1>0, <3>1, <4>1, OneRunMoves DEF changed
    <3> QED BY <2>1, <3>1, <3>2, QuietStep
  <2> QED BY <2>2, <2>3
<1>5. ASSUME NEW w \in Wallets, RecordFunders(w)
      PROVE  ClusterInv'
  <2> DEFINE funders == get_upstream_funders_bfs(w, job[w].nor \cup job[w].int)
  <2>1. /\ links' = links \cup (funders \X {w}) /\ reports' = reports
        /\ job' = [job EXCEPT ![w].phase = "judge", ![w].funders = funders]
    BY <1>5 DEF RecordFunders, record_funders
  <2>2. \A f \in funders : Eligible(f)
    BY FundersAreEligible
  <2> HIDE DEF funders
  <2>3. Shapes'
    BY <1>0, <2>1 DEF Shapes
  <2>4. job'[w].funders = funders /\ \A v \in Wallets \ {w} : job'[v] = job[v]
    BY <1>0, <2>1 DEF Shapes
  <2>5. LinksOfWallets'
    BY <2>1 DEF ClusterInv, LinksOfWallets
  <2>6. RunsAreRecorded'
    BY <2>1, <2>2, <2>4 DEF ClusterInv, RunsAreRecorded, Recorded, At
  <2>7. ReportsAreRecorded' /\ LastSharerIsFlagged'
    BY <2>1 DEF ClusterInv, ReportsAreRecorded, LastSharerIsFlagged, Recorded, Reported, Flagged
  <2>8. FlaggedWithAnother'
    BY <2>1 DEF ClusterInv, FlaggedWithAnother, Reported
  <2> QED BY <2>3, <2>5, <2>6, <2>7, <2>8 DEF ClusterInv
<1>6. ASSUME NEW w \in Wallets, Judge(w)
      PROVE  ClusterInv'
  <2>1. /\ links' = links /\ reports' = [reports EXCEPT ![w] = Judged(w)] /\ At(w, "judge")
        /\ job' = [job EXCEPT ![w] = [Idle EXCEPT !.runs = job[w].runs]]
    BY <1>6 DEF Judge, EndRun
  <2>2. /\ DOMAIN job' = Wallets /\ job'[w] = [Idle EXCEPT !.runs = job[w].runs]
        /\ \A v \in Wallets \ {w} : job'[v] = job[v]
    BY <1>0, <2>1 DEF Shapes
  <2>3. Shapes'
    BY <1>0, <2>1, <2>2 DEF Shapes
  <2>4. RunsAreRecorded'
    BY <2>1, <2>2 DEF ClusterInv, RunsAreRecorded, Recorded, At
  <2>5. ReportsAreRecorded' /\ LastSharerIsFlagged' /\ FlaggedWithAnother'
    <3>1. Judged(w).funders = job[w].funders
      BY FlagIsReported
    <3>2. Recorded(w, Judged(w).funders)
      BY <2>1, <3>1 DEF ClusterInv, RunsAreRecorded
    <3>3. (\E v \in Wallets \ {w} : \E f \in Judged(w).funders : <<f, v>> \in links)
            <=> shared_upstream_funders_flag(links, w, job[w].funders)
      BY <3>1, FlagMeansAnother, AnotherMeansFlag DEF ClusterInv
    <3> QED BY <2>1, <3>2, <3>3, FlagIsReported, NewReport
  <2> QED BY <2>1, <2>3, <2>4, <2>5 DEF ClusterInv, LinksOfWallets
<1> QED BY <1>1, <1>2, <1>3, <1>4, <1>5, <1>6 DEF ToolNext, GetInternalTransactions, InternalFails

\* Every transaction a run holds has its wallet at one end.
OwnInv ==
  /\ Shapes
  /\ \A w \in Wallets : \A t \in job[w].nor \cup job[w].int : w \in {t.from, t.to}

LEMMA ListedIsOwn ==
  ASSUME NEW w, NEW kind, NEW t \in Page(Listed(w, kind))
  PROVE  w \in {t.from, t.to}
BY DEF Page, Listed

LEMMA StepOwn ==
  ASSUME OwnInv, [ToolNext]_toolVars
  PROVE  OwnInv'
<1> USE DEF Idle
<1>0. Shapes
  BY DEF OwnInv
<1>1. CASE UNCHANGED <<job, reports>>
  BY <1>1 DEF OwnInv, Shapes
<1>2. ASSUME NEW w \in Wallets, DOMAIN job' = Wallets, DOMAIN reports' = Wallets,
             DOMAIN job'[w] = DOMAIN Idle, \A v \in Wallets \ {w} : job'[v] = job[v],
             \A t \in job'[w].nor \cup job'[w].int : w \in {t.from, t.to}
      PROVE  OwnInv'
  BY <1>2 DEF OwnInv, Shapes
<1>3. ASSUME NEW w \in Wallets, EndRun(w), DOMAIN reports' = Wallets
      PROVE  OwnInv'
  <2>1. /\ DOMAIN job' = Wallets /\ job'[w] = [Idle EXCEPT !.runs = job[w].runs]
        /\ \A v \in Wallets \ {w} : job'[v] = job[v]
    BY <1>0, <1>3 DEF EndRun, Shapes
  <2>2. job'[w].nor = {} /\ job'[w].int = {} /\ DOMAIN job'[w] = DOMAIN Idle
    BY <2>1
  <2>3. \A t \in job'[w].nor \cup job'[w].int : w \in {t.from, t.to}
    BY <2>2
  <2>4. DOMAIN job'[w] = DOMAIN Idle /\ DOMAIN reports' = Wallets
    BY <1>3, <2>2
  <2> HIDE DEF Idle
  <2> QED BY <1>2, <2>1, <2>3, <2>4
<1>4. ASSUME NEW w \in Wallets, StartRun(w) \/ NormalFails(w) \/ LookUpAges(w) \/ RecordFunders(w)
      PROVE  OwnInv'
  <2>1. /\ DOMAIN job' = Wallets /\ reports' = reports /\ DOMAIN job'[w] = DOMAIN Idle
        /\ \A v \in Wallets \ {w} : job'[v] = job[v]
        /\ job'[w].nor = job[w].nor /\ job'[w].int = job[w].int
    BY <1>0, <1>4 DEF StartRun, NormalFails, LookUpAges, RecordFunders, Shapes
  <2> QED BY <1>2, <2>1 DEF OwnInv, Shapes
<1>5. ASSUME NEW w \in Wallets, GetTransactions(w)
      PROVE  OwnInv'
  <2>1. /\ DOMAIN job' = Wallets /\ reports' = reports /\ DOMAIN job'[w] = DOMAIN Idle
        /\ \A v \in Wallets \ {w} : job'[v] = job[v]
        /\ job'[w].nor = Page(Listed(w, "normal")) /\ job'[w].int = job[w].int
    BY <1>0, <1>5 DEF GetTransactions, Shapes
  <2> QED BY <1>2, <2>1, ListedIsOwn DEF OwnInv, Shapes
<1>6. ASSUME NEW w \in Wallets, NEW txs, NEW complete, AfterInternal(w, txs, complete),
             \A t \in txs : w \in {t.from, t.to}
      PROVE  OwnInv'
  <2>1. CASE job[w].nor \cup txs = {}
    <3>1. EndRun(w) /\ DOMAIN reports' = Wallets
      BY <1>0, <1>6, <2>1 DEF AfterInternal, Shapes
    <3> QED BY <1>3, <3>1
  <2>2. CASE job[w].nor \cup txs # {}
    <3>1. /\ DOMAIN job' = Wallets /\ reports' = reports /\ DOMAIN job'[w] = DOMAIN Idle
          /\ \A v \in Wallets \ {w} : job'[v] = job[v]
          /\ job'[w].nor = job[w].nor /\ job'[w].int = txs
      BY <1>0, <1>6, <2>2 DEF AfterInternal, Shapes
    <3> QED BY <1>2, <1>6, <3>1 DEF OwnInv, Shapes
  <2> QED BY <2>1, <2>2
<1>7. ASSUME NEW w \in Wallets, GetInternalTransactions(w) \/ InternalFails(w)
      PROVE  OwnInv'
  <2>1. PICK txs, complete : /\ AfterInternal(w, txs, complete)
                             /\ \A t \in txs : w \in {t.from, t.to}
    <3>1. CASE GetInternalTransactions(w)
      <4>1. AfterInternal(w, Page(Listed(w, "internal")), job[w].complete)
        BY <3>1 DEF GetInternalTransactions
      <4>2. \A t \in Page(Listed(w, "internal")) : w \in {t.from, t.to}
        BY ListedIsOwn
      <4> QED BY <4>1, <4>2, Zenon
    <3>2. CASE InternalFails(w)
      <4> DEFINE none == {}
      <4>1. AfterInternal(w, none, FALSE)
        BY <3>2 DEF InternalFails
      <4>2. \A t \in none : w \in {t.from, t.to}
        OBVIOUS
      <4> HIDE DEF none
      <4> QED BY <4>1, <4>2, Zenon
    <3> QED BY <1>7, <3>1, <3>2
  <2> QED BY <1>6, <2>1
<1>8. ASSUME NEW w \in Wallets, Judge(w) \/ Abandon(w)
      PROVE  OwnInv'
  <2>1. EndRun(w) /\ DOMAIN reports' = Wallets
    BY <1>0, <1>8 DEF Judge, Abandon, Shapes
  <2> QED BY <1>3, <2>1
<1> QED BY <1>1, <1>4, <1>5, <1>7, <1>8 DEF ToolNext, Transact, toolVars

\* A run goes on past the fetches only with a transaction in hand.
DataInv ==
  /\ Shapes
  /\ \A w \in Wallets : job[w].phase \in {"ages", "record", "judge"} => job[w].nor \cup job[w].int # {}
  /\ CleanRestsOnData

LEMMA StepData ==
  ASSUME DataInv, [ToolNext]_toolVars
  PROVE  DataInv'
<1>0. Shapes
  BY DEF DataInv
<1>1. CASE UNCHANGED <<job, reports>>
  BY <1>1 DEF DataInv, Shapes, CleanRestsOnData, Reported
<1>2. ASSUME NEW w \in Wallets, DOMAIN job' = Wallets, DOMAIN job'[w] = DOMAIN Idle,
             \A v \in Wallets \ {w} : job'[v] = job[v],
             DOMAIN reports' = Wallets, \A v \in Wallets \ {w} : reports'[v] = reports[v],
             job'[w].phase \in {"ages", "record", "judge"} => job'[w].nor \cup job'[w].int # {},
             reports'[w] # reports[w] /\ reports'[w].verdict = "CLEAN" => reports'[w].fetched # {}
      PROVE  DataInv'
  BY <1>2 DEF DataInv, Shapes, CleanRestsOnData, Reported
<1>3. ASSUME NEW w \in Wallets, EndRun(w)
      PROVE  /\ DOMAIN job' = Wallets /\ DOMAIN job'[w] = DOMAIN Idle /\ job'[w].phase = "idle"
             /\ \A v \in Wallets \ {w} : job'[v] = job[v]
  BY <1>0, <1>3 DEF EndRun, Idle, Shapes
<1>4. ASSUME NEW w \in Wallets,
             \/ StartRun(w) \/ GetTransactions(w) \/ NormalFails(w) \/ LookUpAges(w) \/ RecordFunders(w)
      PROVE  DataInv'
  <2>1. /\ DOMAIN job' = Wallets /\ DOMAIN job'[w] = DOMAIN Idle /\ reports' = reports
        /\ \A v \in Wallets \ {w} : job'[v] = job[v]
    BY <1>0, <1>4 DEF StartRun, GetTransactions, NormalFails, LookUpAges, RecordFunders, Shapes, Idle
  <2>2. job'[w].phase \in {"ages", "record", "judge"} => job'[w].nor \cup job'[w].int # {}
    <3>1. CASE StartRun(w) \/ GetTransactions(w) \/ NormalFails(w)
      <4>1. job'[w].phase \in {"normal", "internal"}
        BY <1>0, <3>1 DEF StartRun, GetTransactions, NormalFails, Shapes, Idle, At
      <4> QED BY <4>1
    <3>2. CASE LookUpAges(w) \/ RecordFunders(w)
      <4>1. job'[w].nor = job[w].nor /\ job'[w].int = job[w].int /\ job[w].phase \in {"ages", "record"}
        BY <1>0, <3>2 DEF LookUpAges, RecordFunders, Shapes, Idle, At
      <4> QED BY <4>1 DEF DataInv
    <3> QED BY <1>4, <3>1, <3>2
  <2> QED BY <1>0, <1>2, <2>1, <2>2 DEF Shapes
<1>5. ASSUME NEW w \in Wallets, NEW txs, NEW complete, AfterInternal(w, txs, complete)
      PROVE  DataInv'
  <2>1. CASE job[w].nor \cup txs = {}
    <3>1. EndRun(w) /\ reports' = [reports EXCEPT ![w] = NoData]
      BY <1>5, <2>1 DEF AfterInternal
    <3>2. /\ DOMAIN reports' = Wallets /\ reports'[w] = NoData
          /\ \A v \in Wallets \ {w} : reports'[v] = reports[v]
      BY <1>0, <3>1 DEF Shapes
    <3>3. NoData.verdict # "CLEAN"
      BY DEF NoData
    <3> QED BY <1>2, <1>3, <3>1, <3>2, <3>3
  <2>2. CASE job[w].nor \cup txs # {}
    <3>1. /\ DOMAIN job' = Wallets /\ DOMAIN job'[w] = DOMAIN Idle /\ reports' = reports
          /\ \A v \in Wallets \ {w} : job'[v] = job[v]
          /\ job'[w].nor = job[w].nor /\ job'[w].int = txs
      BY <1>0, <1>5, <2>2 DEF AfterInternal, Shapes, Idle
    <3> QED BY <1>0, <1>2, <2>2, <3>1 DEF Shapes
  <2> QED BY <2>1, <2>2
<1>6. ASSUME NEW w \in Wallets, Judge(w)
      PROVE  DataInv'
  <2>1. /\ DOMAIN reports' = Wallets /\ reports'[w] = Judged(w)
        /\ \A v \in Wallets \ {w} : reports'[v] = reports[v]
    BY <1>0, <1>6 DEF Judge, Shapes
  <2>2. Judged(w).fetched = job[w].nor \cup job[w].int
    BY DEF Judged
  <2>3. Judged(w).fetched # {} /\ EndRun(w)
    BY <1>6, <2>2 DEF DataInv, Judge, At
  <2> QED BY <1>2, <1>3, <2>1, <2>3
<1>7. ASSUME NEW w \in Wallets, Abandon(w)
      PROVE  DataInv'
  BY <1>0, <1>2, <1>3, <1>7 DEF Abandon, Shapes
<1>8. ASSUME NEW w \in Wallets, GetInternalTransactions(w) \/ InternalFails(w)
      PROVE  DataInv'
  <2>1. CASE GetInternalTransactions(w)
    BY <1>5, <2>1 DEF GetInternalTransactions
  <2>2. CASE InternalFails(w)
    BY <1>5, <2>2 DEF InternalFails
  <2> QED BY <1>8, <2>1, <2>2
<1> QED BY <1>1, <1>4, <1>6, <1>7, <1>8 DEF ToolNext, Transact, toolVars

-------------------------------------------------------------------------------
(* What later runs read *)

\* The search finds no less in more transactions.
LEMMA FundersGrow ==
  ASSUME NEW w, NEW few, NEW many, few \subseteq many
  PROVE  get_upstream_funders_bfs(w, few) \subseteq get_upstream_funders_bfs(w, many)
<1> DEFINE further(txs, near) == near \cup {a \in UNION {SendersTo(b, txs) : b \in near} : Eligible(a)}
<1>1. ASSUME NEW S, NEW T, S \subseteq T
      PROVE  further(few, S) \subseteq further(many, T)
  <2>1. \A b : SendersTo(b, few) \subseteq SendersTo(b, many)
    BY DEF SendersTo
  <2> QED BY <1>1, <2>1
<1>2. \A txs : get_upstream_funders_bfs(w, txs) = further(txs, further(txs, further(txs, {w}))) \ {w}
  BY DEF get_upstream_funders_bfs
<1> HIDE DEF further
<1>3. further(few, {w}) \subseteq further(many, {w})
  BY <1>1
<1>4. further(few, further(few, {w})) \subseteq further(many, further(many, {w}))
  BY <1>1, <1>3
<1>5. further(few, further(few, further(few, {w}))) \subseteq further(many, further(many, further(many, {w})))
  BY <1>1, <1>4
<1> QED BY <1>2, <1>5

\* The ledger is mined in the order of its times.
MinedInOrder ==
  chain \subseteq Ledger /\ \A t \in chain : \A u \in Ledger \ chain : t.ts < u.ts

\* The steps of the runs leave the chain alone.
LEMMA ChainMoves ==
  ASSUME [ToolNext]_toolVars
  PROVE  chain' = chain \/ \E n \in Ledger : Transact(n)
<1>1. ASSUME NEW w \in Wallets, NEW txs, NEW complete, AfterInternal(w, txs, complete)
      PROVE  chain' = chain
  BY <1>1 DEF AfterInternal
<1> QED
  BY <1>1
  DEF ToolNext, toolVars, StartRun, GetTransactions, NormalFails, GetInternalTransactions, InternalFails,
      LookUpAges, RecordFunders, Judge, Abandon

LEMMA StepMines ==
  ASSUME MinedInOrder, [ToolNext]_toolVars
  PROVE  MinedInOrder'
<1>1. ASSUME NEW n \in Ledger, Transact(n) PROVE MinedInOrder'
  <2>1. n \notin chain /\ chain' = chain \cup {n} /\ \A u \in Ledger \ chain : n.ts <= u.ts
    BY <1>1 DEF Transact
  <2>2. \A u \in Ledger : u.ts \in Nat /\ (u.ts = n.ts => u = n)
    BY ToolAssumption DEF ToolAssumption
  <2>3. \A u \in Ledger \ chain' : n.ts < u.ts
    BY <2>1, <2>2
  <2> QED BY <2>1, <2>3 DEF MinedInOrder
<1>2. CASE UNCHANGED chain
  BY <1>2 DEF MinedInOrder
<1> QED BY <1>1, <1>2, ChainMoves

\* A page of the oldest transactions keeps what it has: what is mined later is
\* younger than all of it.
LEMMA PageGrows ==
  ASSUME MinedInOrder, NEW n \in Ledger, Transact(n), NEW w, NEW kind
  PROVE  Page(Listed(w, kind)) \subseteq Page(Listed(w, kind))'
<1>1. n \notin chain /\ chain' = chain \cup {n}
  BY DEF Transact
<1>2. \A t \in chain : t.ts < n.ts /\ t.ts \in Nat /\ n.ts \in Nat
  BY <1>1, ToolAssumption DEF MinedInOrder, ToolAssumption
<1> DEFINE before(t) == {u \in Listed(w, kind) : u.ts < t.ts}
           later(t) == {u \in Listed(w, kind)' : u.ts < t.ts}
<1>3. ASSUME NEW t \in Listed(w, kind)
      PROVE  t \in Listed(w, kind)' /\ before(t) = later(t)
  <2>1. Listed(w, kind) \subseteq chain /\ Listed(w, kind) \subseteq Listed(w, kind)'
    BY <1>1 DEF Listed
  <2>2. \A u \in Listed(w, kind)' : u \in Listed(w, kind) \/ u = n
    BY <1>1 DEF Listed
  <2>3. ~(n.ts < t.ts)
    BY <1>2, <2>1
  <2> QED BY <2>1, <2>2, <2>3
<1> QED BY <1>3 DEF Page

\* A page has transactions of one kind.
LEMMA PageIsOfKind == \A w, kind : \A t \in Page(Listed(w, kind)) : t.kind = kind
BY DEF Page, Listed

Explored(w) == Page(Listed(w, "normal")) \cup Page(Listed(w, "internal"))

\* What is in a run or a report is still listed, and a run that could read a
\* list has from it whatever the report before had.
Remembers(w) ==
  /\ job[w].nor \subseteq Page(Listed(w, "normal")) /\ job[w].int \subseteq Page(Listed(w, "internal"))
  /\ reports[w].fetched \subseteq Explored(w)
  /\ reports[w].funders \subseteq get_upstream_funders_bfs(w, reports[w].fetched)
  /\ At(w, "judge") => job[w].funders = get_upstream_funders_bfs(w, job[w].nor \cup job[w].int)
  /\ At(w, "internal") /\ job[w].complete =>
       \A t \in reports[w].fetched : t.kind = "normal" => t \in job[w].nor
  /\ job[w].phase \in {"ages", "record", "judge"} /\ job[w].complete =>
       reports[w].fetched \subseteq job[w].nor \cup job[w].int

MemoryInv == Shapes /\ \A w \in Wallets : Remembers(w)

\* What is remembered stays so where the wallet's run and report stay as they are.
LEMMA StillRemembers ==
  ASSUME NEW w, Remembers(w), chain' = chain, job'[w] = job[w], reports'[w] = reports[w]
  PROVE  Remembers(w)'
<1> DEFINE nor == Page(Listed(w, "normal"))
           int == Page(Listed(w, "internal"))
<1>1. nor' = nor /\ int' = int /\ Explored(w)' = Explored(w)
  BY DEF Explored, Page, Listed
<1> QED BY <1>1 DEF Remembers, At

\* A new record of a run is as good as its old one.
LEMMA OneRunRemembers ==
  ASSUME MemoryInv, NEW w \in Wallets, DOMAIN job' = Wallets, DOMAIN job'[w] = DOMAIN Idle,
         \A v \in Wallets \ {w} : job'[v] = job[v],
         DOMAIN reports' = Wallets, \A v \in Wallets \ {w} : reports'[v] = reports[v],
         chain' = chain, Remembers(w)'
  PROVE  MemoryInv'
<1>1. \A v \in Wallets \ {w} : Remembers(v)'
  BY StillRemembers DEF MemoryInv
<1> QED BY <1>1 DEF MemoryInv, Shapes

LEMMA StepRemembers ==
  ASSUME MemoryInv, MinedInOrder, [ToolNext]_toolVars
  PROVE  MemoryInv'
<1>0. Shapes
  BY DEF MemoryInv
<1> DEFINE NorPage(w) == Page(Listed(w, "normal"))
           IntPage(w) == Page(Listed(w, "internal"))
<1>1. CASE UNCHANGED toolVars
  BY <1>1, StillRemembers DEF toolVars, MemoryInv, Shapes
<1>2. ASSUME NEW n \in Ledger, Transact(n) PROVE MemoryInv'
  <2>1. job' = job /\ reports' = reports
    BY <1>2 DEF Transact
  <2>2. ASSUME NEW w \in Wallets PROVE Remembers(w)'
    <3>1. NorPage(w) \subseteq NorPage(w)' /\ IntPage(w) \subseteq IntPage(w)'
      BY <1>2, PageGrows
    <3> QED BY <2>1, <3>1 DEF MemoryInv, Remembers, Explored, At
  <2> QED BY <2>1, <2>2 DEF MemoryInv, Shapes
<1>3. ASSUME NEW w \in Wallets, chain' = chain
      PROVE  NorPage(w)' = NorPage(w) /\ IntPage(w)' = IntPage(w) /\ Explored(w)' = Explored(w)
  BY <1>3 DEF Explored, Page, Listed
<1>4. ASSUME NEW w \in Wallets, EndRun(w)
      PROVE  /\ DOMAIN job' = Wallets /\ DOMAIN job'[w] = DOMAIN Idle
             /\ \A v \in Wallets \ {w} : job'[v] = job[v]
             /\ job'[w].phase = "idle" /\ job'[w].nor = {} /\ job'[w].int = {}
  BY <1>0, <1>4 DEF EndRun, Idle, Shapes
<1>5. ASSUME NEW w \in Wallets,
             \/ StartRun(w) \/ GetTransactions(w) \/ NormalFails(w) \/ LookUpAges(w) \/ RecordFunders(w)
      PROVE  MemoryInv'
  <2>1. /\ DOMAIN job' = Wallets /\ DOMAIN job'[w] = DOMAIN Idle /\ reports' = reports /\ chain' = chain
        /\ \A v \in Wallets \ {w} : job'[v] = job[v]
    BY <1>0, <1>5 DEF StartRun, GetTransactions, NormalFails, LookUpAges, RecordFunders, Shapes, Idle
  <2>2. NorPage(w)' = NorPage(w) /\ IntPage(w)' = IntPage(w) /\ Explored(w)' = Explored(w)
    BY <1>3, <2>1
  <2>3. CASE StartRun(w)
    <3>1. job'[w].phase = "normal" /\ job'[w].nor = job[w].nor /\ job'[w].int = job[w].int
      BY <1>0, <2>3 DEF StartRun, Shapes, Idle
    <3>2. Remembers(w)'
      BY <2>1, <2>2, <3>1 DEF MemoryInv, Remembers, At
    <3> QED BY <1>0, <2>1, <3>2, OneRunRemembers DEF Shapes
  <2>4. CASE GetTransactions(w)
    <3>1. job'[w].phase = "internal" /\ job'[w].nor = NorPage(w) /\ job'[w].int = job[w].int
      BY <1>0, <2>4 DEF GetTransactions, Shapes, Idle
    <3>2. \A t \in reports[w].fetched : t.kind = "normal" => t \in NorPage(w)
      BY PageIsOfKind DEF MemoryInv, Remembers, Explored
    <3>3. Remembers(w)'
      BY <2>1, <2>2, <3>1, <3>2 DEF MemoryInv, Remembers, At
    <3> QED BY <1>0, <2>1, <3>3, OneRunRemembers DEF Shapes
  <2>5. CASE NormalFails(w)
    <3>1. /\ job'[w].nor = job[w].nor /\ job'[w].int = job[w].int
          /\ job'[w].phase = "normal" \/ (job'[w].phase = "internal" /\ job'[w].complete = FALSE)
      BY <1>0, <2>5 DEF NormalFails, Shapes, Idle, At
    <3>2. Remembers(w)'
      BY <2>1, <2>2, <3>1 DEF MemoryInv, Remembers, At
    <3> QED BY <1>0, <2>1, <3>2, OneRunRemembers DEF Shapes
  <2>6. CASE LookUpAges(w)
    <3>1. /\ job'[w].nor = job[w].nor /\ job'[w].int = job[w].int /\ job'[w].complete = job[w].complete
          /\ job[w].phase = "ages" /\ job'[w].phase = "record"
      BY <1>0, <2>6 DEF LookUpAges, Shapes, Idle, At
    <3>2. Remembers(w)'
      BY <2>1, <2>2, <3>1 DEF MemoryInv, Remembers, At
    <3> QED BY <1>0, <2>1, <3>2, OneRunRemembers DEF Shapes
  <2>7. CASE RecordFunders(w)
    <3>1. /\ job'[w].nor = job[w].nor /\ job'[w].int = job[w].int /\ job'[w].complete = job[w].complete
          /\ job[w].phase = "record" /\ job'[w].phase = "judge"
          /\ job'[w].funders = get_upstream_funders_bfs(w, job[w].nor \cup job[w].int)
      BY <1>0, <2>7 DEF RecordFunders, Shapes, Idle, At
    <3>2. Remembers(w)'
      BY <2>1, <2>2, <3>1 DEF MemoryInv, Remembers, At
    <3> QED BY <1>0, <2>1, <3>2, OneRunRemembers DEF Shapes
  <2> QED BY <1>5, <2>3, <2>4, <2>5, <2>6, <2>7
<1>6. ASSUME NEW w \in Wallets, NEW txs, NEW complete, AfterInternal(w, txs, complete),
             txs \subseteq IntPage(w), complete => job[w].complete /\ txs = IntPage(w)
      PROVE  MemoryInv'
  <2>1. chain' = chain /\ At(w, "internal")
    BY <1>6 DEF AfterInternal
  <2>2. NorPage(w)' = NorPage(w) /\ IntPage(w)' = IntPage(w) /\ Explored(w)' = Explored(w)
    BY <1>3, <2>1
  <2>3. CASE job[w].nor \cup txs = {}
    <3>1. EndRun(w) /\ reports' = [reports EXCEPT ![w] = NoData]
      BY <1>6, <2>3 DEF AfterInternal
    <3>2. /\ DOMAIN reports' = Wallets /\ reports'[w].fetched = {} /\ reports'[w].funders = {}
          /\ \A v \in Wallets \ {w} : reports'[v] = reports[v]
      BY <1>0, <3>1 DEF Shapes, NoData
    <3>3. Remembers(w)'
      BY <1>4, <3>1, <3>2 DEF Remembers, At
    <3> QED BY <1>4, <2>1, <3>1, <3>2, <3>3, OneRunRemembers
  <2>4. CASE job[w].nor \cup txs # {}
    <3>1. /\ DOMAIN job' = Wallets /\ DOMAIN job'[w] = DOMAIN Idle /\ reports' = reports
          /\ \A v \in Wallets \ {w} : job'[v] = job[v]
          /\ job'[w].phase = "ages" /\ job'[w].nor = job[w].nor /\ job'[w].int = txs
          /\ job'[w].complete = complete
      BY <1>0, <1>6, <2>4 DEF AfterInternal, Shapes, Idle
    <3>2. complete => reports[w].fetched \subseteq job[w].nor \cup txs
      <4>1. reports[w].fetched \subseteq NorPage(w) \cup IntPage(w)
        BY DEF MemoryInv, Remembers, Explored
      <4>2. complete => \A t \in reports[w].fetched : t.kind = "normal" => t \in job[w].nor
        BY <1>6, <2>1 DEF MemoryInv, Remembers
      <4>3. \A t \in NorPage(w) : t.kind = "normal"
        BY PageIsOfKind
      <4> HIDE DEF NorPage, IntPage
      <4> QED BY <1>6, <4>1, <4>2, <4>3
    <3>3. Remembers(w)'
      BY <1>6, <2>2, <3>1, <3>2 DEF MemoryInv, Remembers, At
    <3> QED BY <1>0, <2>1, <3>1, <3>3, OneRunRemembers DEF Shapes
  <2> QED BY <2>3, <2>4
<1>7. ASSUME NEW w \in Wallets, Judge(w) PROVE MemoryInv'
  <2>1. /\ DOMAIN reports' = Wallets /\ reports'[w] = Judged(w) /\ EndRun(w) /\ chain' = chain
        /\ \A v \in Wallets \ {w} : reports'[v] = reports[v]
        /\ At(w, "judge")
    BY <1>0, <1>7 DEF Judge, Shapes
  <2>2. Judged(w).fetched = job[w].nor \cup job[w].int /\ Judged(w).funders = job[w].funders
    BY DEF Judged
  <2>3. NorPage(w)' = NorPage(w) /\ IntPage(w)' = IntPage(w) /\ Explored(w)' = Explored(w)
    BY <1>3, <2>1
  <2>4. Remembers(w)'
    BY <1>4, <2>1, <2>2, <2>3 DEF MemoryInv, Remembers, Explored, At
  <2> QED BY <1>4, <2>1, <2>4, OneRunRemembers
<1>8. ASSUME NEW w \in Wallets, Abandon(w) PROVE MemoryInv'
  <2>1. EndRun(w) /\ chain' = chain /\ reports' = reports
    BY <1>8 DEF Abandon
  <2>2. Remembers(w)'
    BY <1>3, <1>4, <2>1 DEF MemoryInv, Remembers, At
  <2> QED BY <1>0, <1>4, <2>1, <2>2, OneRunRemembers DEF Shapes
<1>9. ASSUME NEW w \in Wallets, GetInternalTransactions(w) \/ InternalFails(w) PROVE MemoryInv'
  <2>1. CASE GetInternalTransactions(w)
    BY <1>6, <2>1 DEF GetInternalTransactions
  <2>2. CASE InternalFails(w)
    BY <1>6, <2>2 DEF InternalFails
  <2> QED BY <1>9, <2>1, <2>2
<1> QED BY <1>1, <1>2, <1>5, <1>7, <1>8, <1>9 DEF ToolNext

\* The report of a wallet that was flagged, written from both lists, flags it
\* again: the links behind the flag are in the table and in the lists.
LEMMA StepKeepsLinks ==
  ASSUME ClusterInv, MemoryInv, [ToolNext]_toolVars,
         NEW w \in Wallets, Flagged(w), reports'[w].complete
  PROVE  Flagged(w)'
<1>0. DOMAIN reports = Wallets
  BY DEF ClusterInv, Shapes
<1>1. CASE Judge(w)
  <2>1. reports'[w] = Judged(w) /\ At(w, "judge")
    BY <1>0, <1>1 DEF Judge
  <2>2. /\ Judged(w).complete = job[w].complete /\ Judged(w).funders = job[w].funders
        /\ Judged(w).fetched = job[w].nor \cup job[w].int
    BY DEF Judged
  <2>3. reports[w].fetched \subseteq job[w].nor \cup job[w].int
    BY <2>1, <2>2 DEF MemoryInv, Remembers, At
  <2>4. reports[w].funders \subseteq job[w].funders
    <3>1. get_upstream_funders_bfs(w, reports[w].fetched)
            \subseteq get_upstream_funders_bfs(w, job[w].nor \cup job[w].int)
      BY <2>3, FundersGrow
    <3> QED BY <2>1, <3>1 DEF MemoryInv, Remembers
  <2>5. PICK v \in Wallets \ {w} : \E f \in reports[w].funders : <<f, v>> \in links
    BY DEF ClusterInv, FlaggedWithAnother, Flagged
  <2>6. shared_upstream_funders_flag(links, w, job[w].funders)
    BY <2>4, <2>5, AnotherMeansFlag
  <2>7. "FP4" \in Judged(w).fired /\ Judged(w).verdict = "HIGH_CONFIDENCE_RUGPULL"
    BY <2>6, FlagIsReported
  <2> QED BY <2>1, <2>7 DEF Flagged, Reported, NotRun
<1>2. CASE reports'[w] = reports[w]
  BY <1>2 DEF Flagged, Reported
<1>3. CASE reports'[w] = NoData
  BY <1>3 DEF NoData
<1>4. Judge(w) \/ reports'[w] = reports[w] \/ reports'[w] = NoData
  <2>1. ASSUME NEW v \in Wallets, NEW txs, NEW complete, AfterInternal(v, txs, complete)
        PROVE  reports'[w] = reports[w] \/ reports'[w] = NoData
    BY <1>0, <2>1 DEF AfterInternal
  <2>2. ASSUME NEW v \in Wallets, Judge(v), v # w PROVE reports'[w] = reports[w]
    BY <1>0, <2>2 DEF Judge
  <2>3. ASSUME NEW v \in Wallets,
               \/ StartRun(v) \/ GetTransactions(v) \/ NormalFails(v) \/ LookUpAges(v) \/ RecordFunders(v)
               \/ Abandon(v)
        PROVE  reports' = reports
    BY <2>3 DEF StartRun, GetTransactions, NormalFails, LookUpAges, RecordFunders, Abandon
  <2> QED
    BY <2>1, <2>2, <2>3 DEF ToolNext, toolVars, Transact, GetInternalTransactions, InternalFails
<1> QED BY <1>1, <1>2, <1>3, <1>4

-------------------------------------------------------------------------------
(* Alarms on a growing profile *)

\* A rule whose conditions can only become true does not sink.
LEMMA GradesRise ==
  ASSUME NEW c \in BOOLEAN, NEW h \in BOOLEAN, NEW m \in BOOLEAN,
         NEW c2 \in BOOLEAN, NEW h2 \in BOOLEAN, NEW m2 \in BOOLEAN,
         c => c2, h => h2, m => m2
  PROVE  Weight(Graded(c2, h2, m2, FALSE)) >= Weight(Graded(c, h, m, FALSE))
<1>1. CASE c
  BY <1>1 DEF Graded, Weight
<1>2. CASE ~c /\ h
  BY <1>2 DEF Graded, Weight
<1>3. CASE ~c /\ ~h /\ m
  BY <1>3 DEF Graded, Weight
<1>4. CASE ~c /\ ~h /\ ~m
  BY <1>4 DEF Graded, Weight, NotTriggered
<1> QED BY <1>1, <1>2, <1>3, <1>4

\* A threshold that a set reaches is reached by every larger one.
LEMMA MoreIsCounted ==
  ASSUME NEW T, IsFiniteSet(T), NEW S \in SUBSET T, NEW n \in Int, Cardinality(S) >= n
  PROVE  Cardinality(T) >= n
<1>1. IsFiniteSet(S) /\ Cardinality(S) <= Cardinality(T)
  BY FS_Subset
<1> QED BY <1>1, FS_CardinalityType

\* The five rules that no later transaction can silence.
LEMMA AlarmsOutlast ==
  ASSUME NEW w, NEW now, NEW many, IsFiniteSet(many), NEW few \in SUBSET many,
         \A t \in many : t.ts \in Nat,
         \A t \in few : \A u \in many \ few : t.ts < u.ts
  PROVE  Outlasts(AmlResults(w, many, now), AmlResults(w, few, now))
<1>1. Sent(w, few) \in SUBSET Sent(w, many) /\ IsFiniteSet(Sent(w, many))
  BY FS_Subset DEF Sent
<1>2. /\ Aml.large \in Nat /\ Aml.rapid \in Nat /\ Aml.fanout \in Nat /\ Aml.dormancy \in Nat
      /\ Aml.roundMin \in Nat
  BY AmlAssumption DEF AmlAssumption
<1>3. Weight(large_transfer(w, many)) >= Weight(large_transfer(w, few))
  <2> DEFINE reaches(profile, n) == \E t \in Sent(w, profile) : t.value >= n * Aml.large
  <2>1. \A n : reaches(few, n) => reaches(many, n)
    BY <1>1
  <2>2. \A profile : large_transfer(w, profile) = Graded(reaches(profile, 10), reaches(profile, 1), FALSE, FALSE)
    BY DEF large_transfer
  <2>3. \A profile, n : reaches(profile, n) \in BOOLEAN
    OBVIOUS
  <2> HIDE DEF reaches
  <2> QED BY <2>1, <2>2, <2>3, GradesRise
<1>4. Weight(rapid_transfer(w, many)) >= Weight(rapid_transfer(w, few))
  <2> DEFINE burst(profile, t) == {u \in Sent(w, profile) : t.ts <= u.ts /\ u.ts <= t.ts + Aml.rapidWindow}
             reaches(profile, n) == \E t \in Sent(w, profile) : Cardinality(burst(profile, t)) >= n * Aml.rapid
  <2>1. ASSUME NEW n \in Int, reaches(few, n) PROVE reaches(many, n)
    <3>1. PICK t \in Sent(w, few) : Cardinality(burst(few, t)) >= n * Aml.rapid
      BY <2>1
    <3>2. burst(few, t) \in SUBSET burst(many, t) /\ IsFiniteSet(burst(many, t))
      <4>1. burst(many, t) \in SUBSET Sent(w, many) /\ burst(few, t) \in SUBSET burst(many, t)
        BY <1>1
      <4> HIDE DEF burst
      <4> QED BY <1>1, <4>1, FS_Subset
    <3>3. n * Aml.rapid \in Int
      BY <1>2
    <3> HIDE DEF burst
    <3>4. Cardinality(burst(many, t)) >= n * Aml.rapid
      BY <3>1, <3>2, <3>3, MoreIsCounted
    <3> QED BY <1>1, <3>4
  <2>2. \A profile : rapid_transfer(w, profile) = Graded(reaches(profile, 3), reaches(profile, 1), FALSE, FALSE)
    BY DEF rapid_transfer
  <2>3. \A profile, n : reaches(profile, n) \in BOOLEAN
    OBVIOUS
  <2> HIDE DEF reaches
  <2>4. (reaches(few, 1) => reaches(many, 1)) /\ (reaches(few, 3) => reaches(many, 3))
    BY <2>1
  <2> QED BY <2>2, <2>3, <2>4, GradesRise
<1>5. Weight(high_fanout(w, many)) >= Weight(high_fanout(w, few))
  <2> DEFINE to(profile) == {t.to : t \in Sent(w, profile)} \ {None}
             all == {t.to : t \in Sent(w, many)}
             reaches(profile, n) == Cardinality(to(profile)) >= n * Aml.fanout
  <2>1. IsFiniteSet(all)
    <3> DEFINE recipient == [t \in Sent(w, many) |-> t.to]
    <3>1. recipient \in Surjection(Sent(w, many), all)
      BY DEF Surjection
    <3> QED BY <1>1, <3>1, FS_Surjection
  <2>2. to(few) \in SUBSET to(many) /\ to(many) \in SUBSET all
    BY <1>1
  <2>3. IsFiniteSet(to(many))
    <3> HIDE DEF to, all
    <3> QED BY <2>1, <2>2, FS_Subset
  <2>4. ASSUME NEW n \in Int, reaches(few, n) PROVE reaches(many, n)
    <3> HIDE DEF to, all
    <3> QED BY <1>2, <2>2, <2>3, <2>4, MoreIsCounted
  <2>5. \A profile : high_fanout(w, profile)
                       = Graded(reaches(profile, 3), Cardinality(to(profile)) >= Aml.fanout, FALSE, FALSE)
    BY DEF high_fanout
  <2>6. \A profile : (Cardinality(to(profile)) >= Aml.fanout) = reaches(profile, 1)
    BY <1>2
  <2>7. \A profile, n : reaches(profile, n) \in BOOLEAN
    OBVIOUS
  <2> HIDE DEF reaches, to, all
  <2>8. (reaches(few, 1) => reaches(many, 1)) /\ (reaches(few, 3) => reaches(many, 3))
    BY <2>4
  <2>9. \A profile : high_fanout(w, profile) = Graded(reaches(profile, 3), reaches(profile, 1), FALSE, FALSE)
    BY <2>5, <2>6
  <2> QED BY <2>7, <2>8, <2>9, GradesRise
<1>6. Weight(dormant_activation(many)) >= Weight(dormant_activation(few))
  <2> DEFINE reaches(profile, n) == \E p \in Neighbours(profile) : p[2].ts - p[1].ts >= n * Aml.dormancy
  <2>1. Neighbours(few) \subseteq Neighbours(many)
    <3> SUFFICES ASSUME NEW p \in Neighbours(few) PROVE p \in Neighbours(many)
      OBVIOUS
    <3>1. p \in few \X few /\ p[1].ts < p[2].ts /\ ~\E t \in few : p[1].ts < t.ts /\ t.ts < p[2].ts
      BY DEF Neighbours
    <3>2. p \in many \X many /\ p[1] \in few /\ p[2] \in few
      BY <3>1
    <3>3. ASSUME NEW t \in many, p[1].ts < t.ts, t.ts < p[2].ts PROVE FALSE
      <4>1. t \notin few
        BY <3>1, <3>3
      <4>2. p[2].ts < t.ts /\ p[2].ts \in Nat /\ t.ts \in Nat
        BY <3>2, <4>1
      <4> QED BY <3>3, <4>2
    <3> QED BY <3>1, <3>2, <3>3 DEF Neighbours
  <2>2. \A n : reaches(few, n) => reaches(many, n)
    BY <2>1
  <2>3. \A profile : dormant_activation(profile) = Graded(reaches(profile, 2), reaches(profile, 1), FALSE, FALSE)
    BY DEF dormant_activation
  <2>4. \A profile, n : reaches(profile, n) \in BOOLEAN
    OBVIOUS
  <2> HIDE DEF reaches
  <2> QED BY <2>2, <2>3, <2>4, GradesRise
<1>7. Weight(round_numbers(w, many)) >= Weight(round_numbers(w, few))
  <2> DEFINE isRound(v) == \E sum \in RoundSums : (v - sum) * 10000 < sum /\ (sum - v) * 10000 < sum
             round(profile) == {t \in Sent(w, profile) : t.value >= Eth.cent /\ isRound(t.value)}
             reaches(profile, n) == Cardinality(round(profile)) >= n * Aml.roundMin
  <2>1. round(few) \in SUBSET round(many) /\ round(many) \in SUBSET Sent(w, many)
    BY <1>1
  <2>2. \A profile : round_numbers(w, profile)
                       = Graded(FALSE, reaches(profile, 3), Cardinality(round(profile)) >= Aml.roundMin, FALSE)
    BY DEF round_numbers
  <2> HIDE DEF round
  <2>3. IsFiniteSet(round(many))
    BY <1>1, <2>1, FS_Subset
  <2>4. ASSUME NEW n \in Int, reaches(few, n) PROVE reaches(many, n)
    BY <1>2, <2>1, <2>3, <2>4, MoreIsCounted
  <2>5. \A profile : (Cardinality(round(profile)) >= Aml.roundMin) = reaches(profile, 1)
    BY <1>2
  <2>6. \A profile, n : reaches(profile, n) \in BOOLEAN
    OBVIOUS
  <2> HIDE DEF reaches
  <2>7. (reaches(few, 1) => reaches(many, 1)) /\ (reaches(few, 3) => reaches(many, 3))
    BY <2>4
  <2>8. \A profile : round_numbers(w, profile) = Graded(FALSE, reaches(profile, 3), reaches(profile, 1), FALSE)
    BY <2>2, <2>5
  <2> QED BY <2>6, <2>7, <2>8, GradesRise
<1>8. LastingRules = {"RULE-001", "RULE-002", "RULE-003", "RULE-004", "RULE-006"}
  BY DEF LastingRules, AmlRuleIds
<1>9. \A profile :
        /\ AmlResults(w, profile, now)["RULE-001"] = large_transfer(w, profile)
        /\ AmlResults(w, profile, now)["RULE-002"] = rapid_transfer(w, profile)
        /\ AmlResults(w, profile, now)["RULE-003"] = high_fanout(w, profile)
        /\ AmlResults(w, profile, now)["RULE-004"] = dormant_activation(profile)
        /\ AmlResults(w, profile, now)["RULE-006"] = round_numbers(w, profile)
  BY DEF AmlResults, AmlRuleIds
<1> QED BY <1>3, <1>4, <1>5, <1>6, <1>7, <1>8, <1>9 DEF Outlasts

\* A new transaction comes after all of the page it is added to.
LEMMA PageIsExtended ==
  ASSUME MinedInOrder, IsFiniteSet(chain), NEW n \in Ledger, Transact(n), NEW w, NEW kind
  PROVE  LET page == Page(Listed(w, kind))
         IN  /\ page \subseteq page' /\ IsFiniteSet(page')
             /\ \A t \in page' : t.ts \in Nat
             /\ \A t \in page : \A u \in page' \ page : t.ts < u.ts
<1> DEFINE page == Page(Listed(w, kind))
           older(txs, t) == {u \in txs : u.ts < t.ts}
<1>1. n \notin chain /\ chain' = chain \cup {n} /\ chain' \subseteq Ledger
  BY DEF Transact, MinedInOrder
<1>2. \A t \in chain : t.ts < n.ts
  BY <1>1 DEF MinedInOrder
<1>3. IsFiniteSet(chain') /\ \A t \in chain' : t.ts \in Nat
  BY <1>1, FS_AddElement, ToolAssumption DEF ToolAssumption
<1>4. page' \subseteq chain' /\ page \subseteq chain /\ Listed(w, kind)' \subseteq chain'
  BY DEF Page, Listed
<1>5. ASSUME NEW u \in page', u \in chain PROVE u \in page
  <2>1. u \in Listed(w, kind)' /\ Cardinality(older(Listed(w, kind)', u)) < PageSize
    BY <1>5 DEF Page
  <2>2. u \in Listed(w, kind)
    BY <1>5, <2>1 DEF Listed
  <2>3. /\ older(Listed(w, kind), u) \in SUBSET older(Listed(w, kind)', u)
        /\ older(Listed(w, kind)', u) \in SUBSET chain'
    BY <1>1, <1>4 DEF Listed
  <2>4. Page(Listed(w, kind)) = {t \in Listed(w, kind) : Cardinality(older(Listed(w, kind), t)) < PageSize}
    BY DEF Page
  <2> DEFINE old == older(Listed(w, kind), u)
             new == older(Listed(w, kind)', u)
  <2> HIDE DEF older
  <2>5. IsFiniteSet(new) /\ Cardinality(new) \in Nat
    BY <1>3, <2>3, FS_Subset, FS_CardinalityType
  <2>6. Cardinality(old) <= Cardinality(new) /\ Cardinality(old) \in Nat
    BY <2>3, <2>5, FS_Subset, FS_CardinalityType
  <2>7. PageSize \in Nat
    BY ToolAssumption DEF ToolAssumption
  <2>8. Cardinality(old) < PageSize
    BY <2>1, <2>5, <2>6, <2>7
  <2> QED BY <2>2, <2>4, <2>8
<1>6. \A t \in page : \A u \in page' \ page : t.ts < u.ts
  <2> HIDE DEF page
  <2>1. \A u \in page' \ page : u = n
    BY <1>1, <1>4, <1>5
  <2> QED BY <1>2, <1>4, <2>1
<1>7. page \subseteq page'
  BY PageGrows
<1>8. IsFiniteSet(page') /\ \A t \in page' : t.ts \in Nat
  <2> HIDE DEF page
  <2> QED BY <1>3, <1>4, FS_Subset
<1> QED BY <1>6, <1>7, <1>8

-------------------------------------------------------------------------------
(* The theorems *)

LEMMA ClustersHold == ToolSpec => []ClusterInv
<1>1. ToolInit => ClusterInv
  BY InitClusters
<1>2. ClusterInv /\ [ToolNext]_toolVars => ClusterInv'
  BY StepClusters
<1> QED BY <1>1, <1>2, PTL DEF ToolSpec

\* Two wallets with a common upstream funder never both pass unnoticed, however
\* many runs of the server and the batch scripts overlap, die or start again
\* (extract_funding_provenance commits a run's funders before it looks for others).
THEOREM SharersDoNotPass == ToolSpec => []LastSharerIsFlagged
<1>1. ClusterInv => LastSharerIsFlagged
  BY DEF ClusterInv
<1> QED BY <1>1, ClustersHold, PTL

\* FP4, which alone decides the verdict, always has another wallet to show, and
\* no public address links the two.
THEOREM NoSelfMadeCluster == ToolSpec => []FlaggedWithAnother
<1>1. ClusterInv => FlaggedWithAnother
  BY DEF ClusterInv
<1> QED BY <1>1, ClustersHold, PTL

\* No run ever reads a deposit that somebody else made into a contract, so the
\* rules that compare withdrawals with the victims' deposits have nothing to
\* compare (RugpullTool.run fetches the two lists of the wallet itself).
THEOREM DepositsAreUnseen == ToolSpec => []NoDepositIsRead
<1>1. ToolInit => OwnInv
  BY DEF ToolInit, OwnInv, Shapes, Idle
<1>2. OwnInv /\ [ToolNext]_toolVars => OwnInv'
  BY StepOwn
<1>3. OwnInv => NoDepositIsRead
  BY DEF OwnInv, NoDepositIsRead, Deposits
<1> QED BY <1>1, <1>2, <1>3, PTL DEF ToolSpec

\* No wallet is acquitted on a history that could not be read: with both lists
\* empty the run ends with INSUFFICIENT_DATA (the early return of RugpullTool.run).
THEOREM AcquittalsRestOnData == ToolSpec => []CleanRestsOnData
<1>1. ToolInit => DataInv
  BY DEF ToolInit, DataInv, Shapes, Idle, CleanRestsOnData, Reported
<1>2. DataInv /\ [ToolNext]_toolVars => DataInv'
  BY StepData
<1>3. DataInv => CleanRestsOnData
  BY DEF DataInv
<1> QED BY <1>1, <1>2, <1>3, PTL DEF ToolSpec

\* A cluster link is final: once flagged, a wallet is flagged by every later run
\* that could read both of its lists, although each list is cut to its oldest
\* page (RugpullTool.run) and the table is shared.
THEOREM LinksStay == ToolSpec => ClusterLinkStays
<1>1. ToolInit => MemoryInv /\ MinedInOrder
  BY DEF ToolInit, MemoryInv, MinedInOrder, Remembers, Shapes, Idle, NotRun, At
<1>2. MemoryInv /\ MinedInOrder /\ [ToolNext]_toolVars => MemoryInv' /\ MinedInOrder'
  BY StepRemembers, StepMines
<1>3. ClusterInv /\ MemoryInv /\ [ToolNext]_toolVars =>
        [\A w \in Wallets : Flagged(w) /\ reports'[w].complete => Flagged(w)']_toolVars
  BY StepKeepsLinks
<1> QED BY <1>1, <1>2, <1>3, ClustersHold, PTL DEF ToolSpec, ClusterLinkStays

\* While the chain grows, no later transaction silences an AML alarm on amounts,
\* speed, fan-out, dormancy or round sums, although the profile is cut to a page
\* and every rule looks at it afresh (profiler_node, forensics/rules.py).
THEOREM AlarmsStay == ToolSpec => AmlAlarmsStay
<1>1. ToolInit => MinedInOrder /\ IsFiniteSet(chain)
  BY FS_EmptySet DEF ToolInit, MinedInOrder
<1>2. MinedInOrder /\ IsFiniteSet(chain) /\ [ToolNext]_toolVars => MinedInOrder' /\ IsFiniteSet(chain)'
  <2> SUFFICES ASSUME MinedInOrder, IsFiniteSet(chain), [ToolNext]_toolVars
               PROVE  MinedInOrder' /\ IsFiniteSet(chain)'
    OBVIOUS
  <2>1. MinedInOrder'
    BY StepMines
  <2>2. chain' = chain \/ \E n \in Ledger : chain' = chain \cup {n}
    BY ChainMoves DEF Transact
  <2> QED BY <2>1, <2>2, FS_AddElement
<1> DEFINE profile(w) == Page(Listed(w, "normal"))
           Step == \A w \in Wallets : LET p == Page(Listed(w, "normal"))
                     IN  p' # p => Outlasts(AmlResults(w, p', Now), AmlResults(w, p, Now))
<1>3. MinedInOrder /\ IsFiniteSet(chain) /\ [ToolNext]_toolVars => [Step]_chain
  <2> SUFFICES ASSUME MinedInOrder, IsFiniteSet(chain), [ToolNext]_toolVars, chain' # chain, NEW w \in Wallets
               PROVE  Outlasts(AmlResults(w, profile(w)', Now), AmlResults(w, profile(w), Now))
    OBVIOUS
  <2>1. PICK n \in Ledger : Transact(n)
    BY ChainMoves
  <2>2. /\ profile(w) \subseteq profile(w)' /\ IsFiniteSet(profile(w)')
        /\ \A t \in profile(w)' : t.ts \in Nat
        /\ \A t \in profile(w) : \A u \in profile(w)' \ profile(w) : t.ts < u.ts
    BY <2>1, PageIsExtended
  <2> HIDE DEF profile
  <2> QED BY <2>2, AlarmsOutlast
<1> QED BY <1>1, <1>2, <1>3, PTL DEF ToolSpec, AmlAlarmsStay

\* In the composition each component runs as it does alone, so what is proved of
\* the graph, the tool and the tracer holds there.
THEOREM ComponentsRunAlone == ToolsSpec => Spec /\ ToolSpec /\ TraceSpec
<1>1. ToolsInit => Init /\ ToolInit /\ TraceInit
  BY DEF ToolsInit, GraphWaits, TracerWaits
<1>2. [GraphStep \/ ToolStep \/ TracerStep]_allVars =>
        [Next]_vars /\ [ToolNext]_toolVars /\ [TraceNext]_traceVars
  BY DEF GraphStep, ToolStep, TracerStep, allVars
<1> QED BY <1>1, <1>2, PTL DEF ToolsSpec, Spec, ToolSpec, TraceSpec
===============================================================================
