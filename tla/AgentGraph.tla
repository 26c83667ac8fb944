------------------------------ MODULE AgentGraph ------------------------------
(***************************************************************************)
(* One run of the investigation graph: profiler, trace scorer, planner,    *)
(* detector (with the rug-pull tool), reporter, memory.  Each await of a   *)
(* node is a step, and what it waits for may answer or raise; which        *)
(* exceptions a node swallows decides what the report can be trusted for.  *)
(*                                                                         *)
(* Of a wallet's history only matters whether it is empty, whether the     *)
(* wallet sent anything to another address (a candidate to trace), and     *)
(* whether a counterparty is listed without a label.                       *)
(* Cancellation is a matter of InvestigationService.                       *)
(***************************************************************************)
EXTENDS Scoring

CONSTANTS Depths,       \* depths a request may ask for
          AmlFindings,  \* what the AML rules may find in a history
          RugFindings,  \* what the rug-pull rules may find
          RugAttempts   \* attempts of the rug-pull tool to fetch the history

Strategies == {"FORWARD_ONLY", "BACKWARD_ONLY", "BIDIRECTIONAL", "FORWARD_THEN_PIVOT", "SKIP"}

ASSUME GraphAssumption ==
  /\ Depths \subseteq 1..3
  /\ AmlFindings \subseteq AmlFound
  /\ RugFindings \subseteq RugFound
  /\ RugAttempts \in Nat \ {0}

VARIABLES next,       \* the await the run is at
          depth,      \* of the request
          fetched,    \* what each fetch gave
          attempt,    \* failed attempts of the rug-pull tool
          directive,  \* TraceDirective of the planner
          aml, rug,   \* ratings of the two engines
          risk,       \* risk_score and risk_level
          errors,     \* the fetches AgentState.errors names
          report      \* what the report is written from

vars == <<next, depth, fetched, attempt, directive, aml, rug, risk, errors, report>>

ProfileFetches == {"transactions", "tokens", "balance"}
RugFetches == {"normal", "internal"}
\* "inferred": among the counterparties is an inferred exchange.
Histories == {"empty", "received", "sent", "inferred"}
Nodes == {"transactions", "tokens", "balance", "scorer", "planner", "rules", "normal",
          "internal", "engine", "reporter", "memory", "end", "failed"}

NoRating == [score |-> 0, verdict |-> "none"]
NoDirective == [strategy |-> "FORWARD_ONLY", hops |-> 0, fallback |-> FALSE]
NoReport == [errors |-> {}, risk |-> [score |-> 0, level |-> "none"]]

TypeOK ==
  /\ next \in Nodes
  /\ depth \in Depths
  /\ fetched \in [ProfileFetches \cup RugFetches -> Histories \cup {"no", "failed"}]
  /\ attempt \in 0..RugAttempts
  /\ directive \in [strategy: Strategies, hops: 0..3, fallback: BOOLEAN]
  /\ aml \in [score: 0..100, level: Levels]
  /\ rug \in [score: 0..100, verdict: Verdicts \cup {"none"}]
  /\ risk \in [score: 0..100, level: Levels]
  /\ errors \subseteq ProfileFetches
  /\ report \in [errors: SUBSET ProfileFetches,
                 risk: [score: 0..100, level: Levels \cup {"none"}]]

Init ==
  /\ next = "transactions"
  /\ depth \in Depths
  /\ fetched = [f \in ProfileFetches \cup RugFetches |-> "no"]
  /\ attempt = 0
  /\ directive = NoDirective
  /\ aml = [score |-> 0, level |-> "LOW"]
  /\ rug = NoRating
  /\ risk = [score |-> 0, level |-> "LOW"]
  /\ errors = {}
  /\ report = NoReport

Get(f, answer) == fetched' = [fetched EXCEPT ![f] = answer]
-------------------------------------------------------------------------------
(* profiler_node: three fetches, each with an except clause of its own *)

FetchTransactions ==
  /\ next = "transactions"
  /\ \E answer \in Histories \cup {"failed"} : Get("transactions", answer)
  /\ next' = "tokens"
  /\ UNCHANGED <<depth, attempt, directive, aml, rug, risk, errors, report>>

FetchTokens ==
  /\ next = "tokens"
  /\ \E answer \in (Histories \ {"sent"}) \cup {"failed"} : Get("tokens", answer)
  /\ next' = "balance"
  /\ UNCHANGED <<depth, attempt, directive, aml, rug, risk, errors, report>>

\* normalize_transaction reads entity["label"] of every listed counterparty, and
\* known_entities.json gives the inferred exchanges none.
Unlabelled == "inferred" \in {fetched["transactions"], fetched["tokens"]}

\* Mutant of FetchBalance: the list of errors starts again with the balance.
FetchBalanceForgets ==
  /\ next = "balance"
  /\ \E answer \in {"received", "failed"} : Get("balance", answer)
  /\ IF Unlabelled THEN next' = "failed" /\ UNCHANGED errors
     ELSE /\ errors' = errors \cup {f \in {"balance"} : fetched'[f] = "failed"}
          /\ next' = "scorer"
  /\ UNCHANGED <<depth, attempt, directive, aml, rug, risk, report>>

\* The node returns after the balance: the profile, and the failed fetches; or
\* it raises the KeyError of a missing label.
FetchBalance ==
  /\ next = "balance"
  /\ \E answer \in {"received", "failed"} : Get("balance", answer)
  /\ IF Unlabelled THEN next' = "failed" /\ UNCHANGED errors
     ELSE /\ errors' = errors \cup {f \in ProfileFetches : fetched'[f] = "failed"}
          /\ next' = "scorer"
  /\ UNCHANGED <<depth, attempt, directive, aml, rug, risk, report>>

\* trace_scorer_node.  Below depth 2 it returns at once.  Otherwise the first
\* candidate (an outgoing transfer, the strategy still being FORWARD_ONLY) is
\* compared with PruneDecision.TRACE, which the enumeration does not have, and
\* the AttributeError ends the run.
ScoreCandidates ==
  /\ next = "scorer"
  /\ next' = IF depth >= 2 /\ fetched["transactions"] = "sent" THEN "failed" ELSE "planner"
  /\ UNCHANGED <<depth, fetched, attempt, directive, aml, rug, risk, errors, report>>
-------------------------------------------------------------------------------
(* planner_node *)

HasTransactions == fetched["transactions"] \in {"received", "sent"}

Fallback == [strategy |-> "FORWARD_ONLY", hops |-> 2, fallback |-> TRUE]

\* Mutant of Plan: a call that raises, or a strategy of the LLM's own, is not
\* caught.
PlanUncaught ==
  /\ next = "planner"
  /\ IF HasTransactions
       THEN \/ /\ \E s \in Strategies :
                    directive' = [strategy |-> s, hops |-> depth, fallback |-> FALSE]
               /\ next' = "rules"
            \/ next' = "failed" /\ UNCHANGED directive
       ELSE directive' = Fallback /\ next' = "rules"
  /\ UNCHANGED <<depth, fetched, attempt, aml, rug, risk, errors, report>>

\* The LLM is asked only about a wallet with transactions; whatever it raises
\* or answers outside the five strategies becomes the fallback.
Plan ==
  /\ next = "planner"
  /\ \/ directive' = Fallback
     \/ /\ HasTransactions
        /\ \E s \in Strategies : directive' = [strategy |-> s, hops |-> depth, fallback |-> FALSE]
  /\ next' = "rules"
  /\ UNCHANGED <<depth, fetched, attempt, aml, rug, risk, errors, report>>
-------------------------------------------------------------------------------
(* detector_node and RugpullTool.run *)

NoFindings == [count |-> [s \in Severities |-> 0], mixer |-> FALSE]

\* ForensicsEngine.run and compute_risk_score: every rule and the mixer flag
\* look at the profile's transactions; a rule that raises finds nothing.
ApplyRules ==
  /\ next = "rules"
  /\ \E found \in IF HasTransactions THEN AmlFindings ELSE {NoFindings} :
       aml' = AmlRating(found)
  /\ next' = "normal"
  /\ UNCHANGED <<depth, fetched, attempt, directive, rug, risk, errors, report>>

\* Up to RugAttempts requests for the history, with a pause between them.
FetchNormal ==
  /\ next = "normal"
  /\ \E answer \in {"empty", "received", "failed"} : Get("normal", answer)
  /\ IF fetched'["normal"] = "failed"
       THEN /\ attempt' = attempt + 1
            /\ next' = IF attempt' < RugAttempts THEN "normal" ELSE "internal"
       ELSE next' = "internal" /\ UNCHANGED attempt
  /\ UNCHANGED <<depth, directive, aml, rug, risk, errors, report>>

\* Mutant of Escalated: a strong pattern sets the level instead of raising it.
EscalatedOrLowered(level, verdict) ==
  CASE verdict = "HIGH_CONFIDENCE_RUGPULL" -> "CRITICAL"
    [] verdict = "STRONG_PATTERN" -> "HIGH"
    [] verdict = "MODERATE_PATTERN" /\ level = "LOW" -> "MEDIUM"
    [] OTHER -> level

Escalated(level, verdict) ==
  CASE verdict = "HIGH_CONFIDENCE_RUGPULL" -> "CRITICAL"
    [] verdict = "STRONG_PATTERN" /\ level \in {"LOW", "MEDIUM"} -> "HIGH"
    [] verdict = "MODERATE_PATTERN" /\ level = "LOW" -> "MEDIUM"
    [] OTHER -> level

\* The rest of detector_node, with the rug-pull rating or without: the scores'
\* maximum and the escalated level, unless the score is 0.
Combine(rating) ==
  LET score == IF rating.score > aml.score THEN rating.score ELSE aml.score
  IN  /\ rug' = rating
      /\ risk' = IF score > 0
                   THEN [score |-> score, level |-> Escalated(aml.level, rating.verdict)]
                   ELSE risk
      /\ next' = "reporter"

\* Mutant of FetchInternal: the engine scores whatever was fetched.
FetchInternalNoExit ==
  /\ next = "internal"
  /\ \E answer \in {"empty", "received", "failed"} : Get("internal", answer)
  /\ next' = "engine"
  /\ UNCHANGED <<depth, attempt, directive, aml, rug, risk, errors, report>>

\* Internal transactions, one attempt; without any transaction at all the tool
\* returns INSUFFICIENT_DATA.
FetchInternal ==
  /\ next = "internal"
  /\ \E answer \in {"empty", "received", "failed"} : Get("internal", answer)
  /\ IF \A f \in RugFetches : fetched'[f] # "received"
       THEN Combine([score |-> 0, verdict |-> "INSUFFICIENT_DATA"])
       ELSE next' = "engine" /\ UNCHANGED <<rug, risk>>
  /\ UNCHANGED <<depth, attempt, directive, aml, errors, report>>

\* The wallet ages, whose failures are swallowed one by one, the funding graph
\* and RugpullEngine.run; the detector swallows whatever they raise.
RunEngine ==
  /\ next = "engine"
  /\ \/ \E found \in RugFindings : Combine(RugRating(found))
     \/ Combine(NoRating)
  /\ UNCHANGED <<depth, fetched, attempt, directive, aml, errors, report>>
-------------------------------------------------------------------------------
(* reporter_node and memory_node *)

\* condense_state, then the LLM or, whatever it raises, the template, then the
\* graph.  ReportContext refuses a score above 100.
Report ==
  /\ next = "reporter"
  /\ IF risk.score <= 100
       THEN next' = "memory" /\ report' = [errors |-> errors, risk |-> risk]
       ELSE next' = "failed" /\ UNCHANGED report
  /\ UNCHANGED <<depth, fetched, attempt, directive, aml, rug, risk, errors>>

\* memory_node swallows its errors (InvestigationService) and ends the run.
Persist ==
  /\ next = "memory"
  /\ next' = "end"
  /\ UNCHANGED <<depth, fetched, attempt, directive, aml, rug, risk, errors, report>>

Next ==
  \/ FetchTransactions \/ FetchTokens \/ FetchBalance \/ ScoreCandidates \/ Plan
  \/ ApplyRules \/ FetchNormal \/ FetchInternal \/ RunEngine \/ Report \/ Persist

Spec == Init /\ [][Next]_vars

\* The event loop runs the task; requests and LLM calls answer or time out.
FairSpec == Spec /\ WF_vars(Next)
-------------------------------------------------------------------------------
(* Properties *)

\* No judgement without data: the LLM chose a strategy only for a wallet whose
\* transactions were fetched, and a rug-pull verdict other than
\* INSUFFICIENT_DATA rests on at least one transaction, whichever of the
\* fetches and attempts failed.
JudgementsNeedData ==
  /\ directive # NoDirective /\ ~directive.fallback => HasTransactions
  /\ aml.score > 0 => HasTransactions
  /\ rug.verdict \in Verdicts \ {"INSUFFICIENT_DATA"} =>
       \E f \in RugFetches : fetched[f] = "received"

Severe == [LOW |-> 0, MEDIUM |-> 1, HIGH |-> 2, CRITICAL |-> 3]
Demanded == [v \in Verdicts \cup {"none"} |->
  CASE v = "HIGH_CONFIDENCE_RUGPULL" -> "CRITICAL"
    [] v = "STRONG_PATTERN" -> "HIGH"
    [] v = "MODERATE_PATTERN" -> "MEDIUM"
    [] OTHER -> "LOW"]

\* Two engines and one report: neither engine's evidence is softened by the
\* other.  The reported score is not below either score, and the level not
\* below the AML level or the one the verdict demands.
NeitherEngineIsSoftened ==
  next \in {"reporter", "memory", "end"} =>
    /\ risk.score >= aml.score /\ risk.score >= rug.score
    /\ Severe[risk.level] >= Severe[aml.level]
    /\ Severe[risk.level] >= Severe[Demanded[rug.verdict]]

\* A wallet that could not be read is not reported as an empty one: what the
\* report is written from names every fetch of the profile that failed, although
\* each failure was swallowed and replaced by empty data three nodes earlier.
ReportNamesFailures ==
  report # NoReport =>
    /\ report.errors = {f \in ProfileFetches : fetched[f] = "failed"}
    /\ report.risk = risk

\* What the graph runs into on the wallet's own transfers.
StopsAtCandidates == next = "failed" /\ depth >= 2 /\ fetched["transactions"] = "sent"
StopsAtLabel == next = "failed" /\ Unlabelled

\* "The investigation is never blocked": nothing the service, the LLM or the
\* engines do keeps a run from its end.
Completes == <>(next = "end" \/ StopsAtCandidates \/ StopsAtLabel)

\* "Trace depth. 1 = direct transactions only. 3 = two hops.": a request may
\* ask for depth 2, the default, for a wallet that has sent something.
DepthIsServed == ~StopsAtCandidates

\* "Known Ethereum entity labels. address -> {label, type, risk_note}."
\* (known_entities.json:2): no entry of the table keeps the profile from being
\* built.
EntitiesAreLabelled == ~StopsAtLabel
===============================================================================
