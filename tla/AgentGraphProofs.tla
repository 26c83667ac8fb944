---------------------------- MODULE AgentGraphProofs ----------------------------
(***************************************************************************)
(* A report of the investigation graph can be trusted for what it says:    *)
(* for every choice of weights, thresholds, findings and retry budget.     *)
(***************************************************************************)
EXTENDS AgentGraph, TLAPS

LowRisk == [score |-> 0, level |-> "LOW"]
Demanding == {"MODERATE_PATTERN", "STRONG_PATTERN", "HIGH_CONFIDENCE_RUGPULL"}

Profiling == {"transactions", "tokens", "balance"}
Rated == {"reporter", "memory", "end", "failed"}

\* What has not been written before the node that writes it; a retry is left
\* while the history is fetched, and the engine has transactions to look at.
Untouched ==
  /\ next \in Profiling \cup {"scorer", "planner"} => directive = NoDirective
  /\ next \in Profiling \cup {"scorer", "planner", "rules"} => aml = LowRisk
  /\ next \notin Rated => rug = NoRating /\ risk = LowRisk
  /\ next \notin {"memory", "end"} => report = NoReport
  /\ next \notin Rated \cup {"internal", "engine"} => attempt < RugAttempts
  /\ next = "engine" => \E f \in RugFetches : fetched[f] = "received"

\* From the profiler's return on, errors names the failed fetches; a run that
\* stopped in the profiler has named none.
ErrorsInv ==
  /\ next \in Profiling => errors = {}
  /\ next \notin Profiling \cup {"failed"} => errors = {f \in ProfileFetches : fetched[f] = "failed"}

\* Nothing found, nothing claimed.
Consistent == aml.score = 0 => aml.level = "LOW"

GraphInv ==
  /\ TypeOK /\ Untouched /\ ErrorsInv /\ Consistent
  /\ JudgementsNeedData /\ NeitherEngineIsSoftened /\ ReportNamesFailures

-------------------------------------------------------------------------------
(* The ratings *)

\* A weighted sum of counts is a natural number.
LEMMA PointsType ==
  ASSUME NEW weights \in [Severities -> Nat], NEW count \in [Severities -> Nat]
  PROVE  Points(weights, count) \in Nat
<1>1. \A a, b \in Nat : a * b \in Nat
  OBVIOUS
<1>2. \A s \in Severities : weights[s] * count[s] \in Nat
  BY <1>1
<1>3. /\ weights["LOW"] * count["LOW"] \in Nat
      /\ weights["MEDIUM"] * count["MEDIUM"] \in Nat
      /\ weights["HIGH"] * count["HIGH"] \in Nat
      /\ weights["CRITICAL"] * count["CRITICAL"] \in Nat
  BY <1>2 DEF Severities
<1>4. \A a, b \in Nat : a + b \in Nat
  OBVIOUS
<1> QED BY <1>3, <1>4 DEF Points

\* compute_risk_score stays within 0..100 and grades a score of 0 as LOW.
LEMMA AmlRatingType ==
  ASSUME ScoringAssumption, NEW found \in AmlFound
  PROVE  /\ AmlRating(found) \in [score: 0..100, level: Levels]
         /\ AmlRating(found).score = 0 => AmlRating(found).level = "LOW"
<1> DEFINE total == Points(AmlWeights, found.count) + (IF found.mixer THEN 30 ELSE 0)
           score == Capped(total)
<1>1. AmlWeights \in [Severities -> Nat] /\ found.count \in [Severities -> Nat]
  BY DEF ScoringAssumption, AmlFound
<1>2. Points(AmlWeights, found.count) \in Nat
  BY <1>1, PointsType
<1>3. total \in Nat
  BY <1>2
<1>4. score \in 0..100
  BY <1>3 DEF Capped
<1>5. Level(score) \in Levels
  BY DEF Level, Levels
<1>6. score = 0 => Level(score) = "LOW"
  <2>1. AmlBands["MEDIUM"] \in 1..100 /\ AmlBands["HIGH"] \in 1..100 /\ AmlBands["CRITICAL"] \in 1..100
    BY DEF ScoringAssumption, Levels
  <2> HIDE DEF score
  <2> QED BY <2>1 DEF Level
<1>7. AmlRating(found) = [score |-> score, level |-> Level(score)]
  BY DEF AmlRating
<1> HIDE DEF score
<1> QED BY <1>4, <1>5, <1>6, <1>7

\* compute_score stays within 0..100, through every override, and a score of 0
\* never comes with a verdict that demands a level.
LEMMA RugRatingType ==
  ASSUME ScoringAssumption, NEW found \in RugFound
  PROVE  /\ RugRating(found) \in [score: 0..100, verdict: Verdicts \ {"INSUFFICIENT_DATA"}]
         /\ RugRating(found).score = 0 => RugRating(found).verdict \notin Demanding
<1> DEFINE score == Capped(Points(RugWeights, found.count))
           verdict == BandVerdict(score)
           elevate == found.newB /\ CrossMatch /\ verdict \in {"CLEAN", "WEAK_PATTERN"}
           floor == RugBands["MODERATE_PATTERN"]
           given == IF elevate THEN AtLeast(floor, score) ELSE score
           alone == found.newA /\ ~(found.newB \/ found.count["HIGH"] + found.count["CRITICAL"] > 0)
           said == IF alone THEN "INSUFFICIENT_DEPLOYMENT_HISTORY"
                   ELSE IF elevate THEN "MODERATE_PATTERN" ELSE verdict
<1>1. RugWeights \in [Severities -> Nat] /\ found.count \in [Severities -> Nat]
  BY DEF ScoringAssumption, RugFound
<1>2. Points(RugWeights, found.count) \in Nat
  BY <1>1, PointsType
<1>3. score \in 0..100
  BY <1>2 DEF Capped
<1>4. /\ RugBands["WEAK_PATTERN"] \in 1..100
      /\ floor \in 1..100
      /\ RugBands["STRONG_PATTERN"] \in 1..100
      /\ RugBands["HIGH_CONFIDENCE_RUGPULL"] \in 1..100
  BY DEF ScoringAssumption, RankedVerdicts
<1> HIDE DEF score
<1>5. verdict \in RankedVerdicts /\ (score = 0 => verdict = "CLEAN")
  BY <1>3, <1>4 DEF BandVerdict, RankedVerdicts
<1>6. given \in 0..100 /\ given >= score /\ (elevate => given >= 1)
  BY <1>3, <1>4 DEF AtLeast
<1>7. said \in Verdicts \ {"INSUFFICIENT_DATA"}
  BY <1>5 DEF Verdicts, RankedVerdicts
<1>8. given = 0 => said \notin Demanding
  BY <1>3, <1>5, <1>6 DEF Demanding
<1>9. AtLeast(80, score) \in 80..100
  BY <1>3 DEF AtLeast
<1>10. RugRating(found) = IF found.fp4
                            THEN [score |-> AtLeast(80, score), verdict |-> "HIGH_CONFIDENCE_RUGPULL"]
                            ELSE [score |-> given, verdict |-> said]
  BY DEF RugRating, score
<1> HIDE DEF given, said
<1>11. CASE found.fp4
  <2>1. RugRating(found) = [score |-> AtLeast(80, score), verdict |-> "HIGH_CONFIDENCE_RUGPULL"]
    BY <1>10, <1>11
  <2>2. "HIGH_CONFIDENCE_RUGPULL" \in Verdicts \ {"INSUFFICIENT_DATA"}
    BY DEF Verdicts, RankedVerdicts
  <2> QED BY <1>9, <2>1, <2>2
<1>12. CASE ~found.fp4
  <2>1. RugRating(found) = [score |-> given, verdict |-> said]
    BY <1>10, <1>12
  <2> QED BY <1>6, <1>7, <1>8, <2>1
<1> QED BY <1>11, <1>12
-------------------------------------------------------------------------------
(* The steps *)

LEMMA InitGraph == ASSUME ScoringAssumption, GraphAssumption, Init  PROVE GraphInv
<1> USE DEF LowRisk, NoRating, NoReport
<1>1. TypeOK
  <2>1. depth \in Depths /\ next \in Nodes /\ attempt \in 0..RugAttempts
    BY DEF Init, Nodes, GraphAssumption
  <2>2. fetched \in [ProfileFetches \cup RugFetches -> Histories \cup {"no", "failed"}]
    BY DEF Init
  <2>3. directive \in [strategy: Strategies, hops: 0..3, fallback: BOOLEAN]
    BY DEF Init, NoDirective, Strategies
  <2>4. /\ aml \in [score: 0..100, level: Levels]
        /\ rug \in [score: 0..100, verdict: Verdicts \cup {"none"}]
        /\ risk \in [score: 0..100, level: Levels]
    BY DEF Init, Levels
  <2>5. /\ errors \subseteq ProfileFetches
        /\ report \in [errors: SUBSET ProfileFetches,
                       risk: [score: 0..100, level: Levels \cup {"none"}]]
    BY DEF Init
  <2> QED BY <2>1, <2>2, <2>3, <2>4, <2>5 DEF TypeOK
<1>2. Untouched /\ ErrorsInv /\ Consistent
  BY DEF Init, Untouched, ErrorsInv, Consistent, Profiling, Rated
<1>3. JudgementsNeedData
  BY DEF Init, JudgementsNeedData, Verdicts, RankedVerdicts
<1>4. NeitherEngineIsSoftened /\ ReportNamesFailures
  BY DEF Init, NeitherEngineIsSoftened, ReportNamesFailures
<1> QED BY <1>1, <1>2, <1>3, <1>4 DEF GraphInv

\* detector_node: whatever the rug-pull tool hands back, the combined risk is
\* in range and neither engine's evidence is softened.
LEMMA CombineKeepsInv ==
  ASSUME GraphInv, NEW rating,
         rating \in [score: 0..100, verdict: Verdicts \cup {"none"}],
         rating.score = 0 => rating.verdict \notin Demanding,
         risk = LowRisk, Combine(rating)
  PROVE  /\ rug' = rating /\ next' = "reporter"
         /\ risk' \in [score: 0..100, level: Levels]
         /\ risk'.score >= aml.score /\ risk'.score >= rug'.score
         /\ Severe[risk'.level] >= Severe[aml.level]
         /\ Severe[risk'.level] >= Severe[Demanded[rug'.verdict]]
<1> DEFINE score == IF rating.score > aml.score THEN rating.score ELSE aml.score
           level == Escalated(aml.level, rating.verdict)
<1>1. /\ rug' = rating /\ next' = "reporter"
      /\ risk' = IF score > 0 THEN [score |-> score, level |-> level] ELSE LowRisk
  BY DEF Combine
<1>2. /\ aml.score \in 0..100 /\ aml.level \in Levels
      /\ aml.score = 0 => aml.level = "LOW"
  BY DEF GraphInv, TypeOK, Consistent
<1>3. score \in 0..100 /\ score >= aml.score /\ score >= rating.score
  BY <1>2
<1>4. /\ level \in Levels
      /\ Severe[level] >= Severe[aml.level]
      /\ Severe[level] >= Severe[Demanded[rating.verdict]]
  BY <1>2 DEF Escalated, Severe, Demanded, Levels, Verdicts, RankedVerdicts
<1> HIDE DEF score, level
<1>5. CASE score > 0
  BY <1>1, <1>3, <1>4, <1>5
<1>6. CASE ~(score > 0)
  <2>1. score = 0 /\ aml.score = 0 /\ rating.score = 0 /\ risk' = LowRisk
    BY <1>1, <1>2, <1>3, <1>6
  <2>2. Demanded[rating.verdict] = "LOW" /\ aml.level = "LOW"
    BY <1>2, <2>1 DEF Demanded, Demanding, Verdicts, RankedVerdicts
  <2> QED BY <1>1, <2>1, <2>2 DEF LowRisk, Levels, Severe
<1> QED BY <1>5, <1>6

\* Every step keeps the invariant.
LEMMA StepKeepsInv ==
  ASSUME ScoringAssumption, GraphAssumption, GraphInv, [Next]_vars
  PROVE  GraphInv'
<1> USE DEF GraphInv, LowRisk, Profiling, Rated
<1>0. ASSUME next' \notin {"reporter", "memory", "end"}, rug' = NoRating, report' = NoReport
      PROVE  /\ NeitherEngineIsSoftened' /\ ReportNamesFailures'
             /\ rug'.verdict \notin Verdicts \ {"INSUFFICIENT_DATA"}
  BY <1>0 DEF NoRating, NeitherEngineIsSoftened, ReportNamesFailures, Verdicts, RankedVerdicts
<1>1. CASE UNCHANGED vars
  BY <1>1 DEF vars, TypeOK, Untouched, ErrorsInv, Consistent, JudgementsNeedData,
       NeitherEngineIsSoftened, ReportNamesFailures, HasTransactions
<1>2. CASE FetchTransactions \/ FetchTokens
  <2>1. TypeOK'
    <3>1. PICK f \in ProfileFetches, answer \in Histories \cup {"failed"} : Get(f, answer)
      BY <1>2 DEF FetchTransactions, FetchTokens, ProfileFetches, Histories
    <3>2. fetched' \in [ProfileFetches \cup RugFetches -> Histories \cup {"no", "failed"}]
      BY <3>1 DEF Get, TypeOK
    <3>3. /\ next' \in {"tokens", "balance"}
          /\ UNCHANGED <<depth, attempt, directive, aml, rug, risk, errors, report>>
      BY <1>2 DEF FetchTransactions, FetchTokens
    <3> QED BY <3>2, <3>3 DEF TypeOK, Nodes
  <2>2. Untouched' /\ ErrorsInv' /\ Consistent'
    BY <1>2 DEF FetchTransactions, FetchTokens, Untouched, ErrorsInv, Consistent
  <2>3. /\ next' \in {"tokens", "balance"} /\ rug' = NoRating /\ report' = NoReport
        /\ directive' = NoDirective /\ aml' = LowRisk
    BY <1>2 DEF FetchTransactions, FetchTokens, Untouched
  <2>4. JudgementsNeedData'
    BY <1>0, <2>3 DEF JudgementsNeedData
  <2> QED BY <1>0, <2>1, <2>2, <2>3, <2>4
<1>3. CASE FetchBalance
  <2>1. /\ next = "balance" /\ next' \in {"scorer", "failed"} /\ errors = {}
        /\ IF next' = "failed" THEN errors' = {}
           ELSE errors' = {f \in ProfileFetches : fetched'[f] = "failed"}
    BY <1>3 DEF FetchBalance, ErrorsInv, Profiling
  <2>2. TypeOK'
    BY <1>3, <2>1 DEF FetchBalance, Get, TypeOK, Nodes, Histories, ProfileFetches
  <2>3. Untouched' /\ ErrorsInv' /\ Consistent'
    BY <1>3, <2>1 DEF FetchBalance, Untouched, ErrorsInv, Consistent
  <2>4. /\ rug' = NoRating /\ report' = NoReport
        /\ directive' = NoDirective /\ aml' = LowRisk
    BY <1>3, <2>1 DEF FetchBalance, Untouched
  <2>5. JudgementsNeedData'
    BY <1>0, <2>1, <2>4 DEF JudgementsNeedData
  <2> QED BY <1>0, <2>1, <2>2, <2>3, <2>4, <2>5
<1>4. CASE ScoreCandidates
  <2>1. /\ next = "scorer" /\ next' \in {"failed", "planner"}
        /\ UNCHANGED <<depth, fetched, attempt, directive, aml, rug, risk, errors, report>>
    BY <1>4 DEF ScoreCandidates
  <2> QED BY <2>1 DEF TypeOK, Untouched, ErrorsInv, Consistent, JudgementsNeedData,
              NeitherEngineIsSoftened, ReportNamesFailures, HasTransactions, Nodes
<1>5. CASE Plan
  <2>1. depth \in 0..3
    BY DEF GraphAssumption, TypeOK
  <2>2. /\ next = "planner" /\ next' = "rules"
        /\ UNCHANGED <<depth, fetched, attempt, aml, rug, risk, errors, report>>
    BY <1>5 DEF Plan
  <2>3. /\ directive' \in [strategy: Strategies, hops: 0..3, fallback: BOOLEAN]
        /\ directive'.fallback \/ HasTransactions
    <3>1. CASE directive' = Fallback
      BY <3>1 DEF Fallback, Strategies
    <3>2. CASE HasTransactions /\ \E s \in Strategies :
                 directive' = [strategy |-> s, hops |-> depth, fallback |-> FALSE]
      BY <2>1, <3>2
    <3> QED BY <1>5, <3>1, <3>2 DEF Plan
  <2>4. TypeOK'
    BY <2>2, <2>3 DEF TypeOK, Nodes
  <2>5. Untouched' /\ ErrorsInv' /\ Consistent'
    BY <2>2 DEF Untouched, ErrorsInv, Consistent
  <2>6. rug' = NoRating /\ report' = NoReport /\ aml' = LowRisk
    BY <2>2 DEF Untouched
  <2>7. JudgementsNeedData'
    BY <1>0, <2>2, <2>3, <2>6 DEF JudgementsNeedData, HasTransactions
  <2> QED BY <1>0, <2>2, <2>4, <2>5, <2>6, <2>7
<1>6. CASE ApplyRules
  <2>1. PICK found \in IF HasTransactions THEN AmlFindings ELSE {NoFindings} : aml' = AmlRating(found)
    BY <1>6 DEF ApplyRules
  <2>2. NoFindings \in AmlFound /\ found \in AmlFound
    <3>1. [s \in Severities |-> 0] \in [Severities -> Nat]
      OBVIOUS
    <3>2. NoFindings \in AmlFound
      BY <3>1 DEF NoFindings, AmlFound
    <3>3. AmlFindings \subseteq AmlFound
      BY DEF GraphAssumption
    <3> QED BY <2>1, <3>2, <3>3
  <2>3. aml' \in [score: 0..100, level: Levels] /\ (aml'.score = 0 => aml'.level = "LOW")
    BY <2>1, <2>2, AmlRatingType
  <2>4. aml'.score > 0 => HasTransactions
    <3>1. ASSUME found = NoFindings  PROVE AmlRating(found).score = 0
      <4>1. AmlWeights["LOW"] \in Nat /\ AmlWeights["MEDIUM"] \in Nat
            /\ AmlWeights["HIGH"] \in Nat /\ AmlWeights["CRITICAL"] \in Nat
        BY DEF ScoringAssumption, Severities
      <4>2. \A a \in Nat : a * 0 = 0
        OBVIOUS
      <4>3. Points(AmlWeights, found.count) = 0
        BY <3>1, <4>1, <4>2 DEF Points, NoFindings, Severities
      <4> QED BY <3>1, <4>3 DEF AmlRating, Capped, NoFindings
    <3> QED BY <2>1, <2>3, <3>1
  <2>5. /\ next = "rules" /\ next' = "normal"
        /\ UNCHANGED <<depth, fetched, attempt, directive, rug, risk, errors, report>>
    BY <1>6 DEF ApplyRules
  <2>6. TypeOK'
    BY <2>3, <2>5 DEF TypeOK, Nodes
  <2>7. Untouched' /\ ErrorsInv' /\ Consistent'
    BY <2>3, <2>5 DEF Untouched, ErrorsInv, Consistent
  <2>8. rug' = NoRating /\ report' = NoReport
    BY <2>5 DEF Untouched
  <2>9. JudgementsNeedData'
    BY <1>0, <2>4, <2>5, <2>8 DEF JudgementsNeedData, HasTransactions
  <2> QED BY <1>0, <2>5, <2>6, <2>7, <2>8, <2>9
<1>7. CASE FetchNormal
  <2>1. PICK answer \in {"empty", "received", "failed"} : Get("normal", answer)
    BY <1>7 DEF FetchNormal
  <2>2. /\ next = "normal" /\ next' \in {"normal", "internal"}
        /\ UNCHANGED <<depth, directive, aml, rug, risk, errors, report>>
    BY <1>7 DEF FetchNormal
  <2>3. \A f \in ProfileFetches : fetched'[f] = fetched[f]
    BY <2>1 DEF Get, TypeOK, ProfileFetches
  <2>4. attempt' \in 0..RugAttempts
    <3>1. attempt \in 0..RugAttempts /\ RugAttempts \in Nat \ {0}
      BY DEF TypeOK, GraphAssumption
    <3>2. attempt < RugAttempts
      BY <2>2 DEF Untouched
    <3> QED BY <1>7, <3>1, <3>2 DEF FetchNormal
  <2>5. fetched' \in [ProfileFetches \cup RugFetches -> Histories \cup {"no", "failed"}]
    BY <2>1 DEF Get, TypeOK, Histories
  <2>6. TypeOK'
    BY <2>2, <2>4, <2>5 DEF TypeOK, Nodes
  <2>7. Untouched' /\ ErrorsInv' /\ Consistent'
    BY <1>7, <2>2, <2>3 DEF FetchNormal, Untouched, ErrorsInv, Consistent
  <2>8. rug' = NoRating /\ report' = NoReport
    BY <2>2 DEF Untouched
  <2>9. HasTransactions' = HasTransactions
    BY <2>3 DEF HasTransactions, ProfileFetches
  <2>10. JudgementsNeedData'
    BY <1>0, <2>2, <2>8, <2>9 DEF JudgementsNeedData
  <2> QED BY <1>0, <2>2, <2>6, <2>7, <2>8, <2>10
<1>8. CASE FetchInternal
  <2>1. PICK answer \in {"empty", "received", "failed"} : Get("internal", answer)
    BY <1>8 DEF FetchInternal
  <2>2. next = "internal" /\ UNCHANGED <<depth, attempt, directive, aml, errors, report>>
    BY <1>8 DEF FetchInternal
  <2>3. \A f \in ProfileFetches : fetched'[f] = fetched[f]
    BY <2>1 DEF Get, TypeOK, ProfileFetches
  <2>4. fetched' \in [ProfileFetches \cup RugFetches -> Histories \cup {"no", "failed"}]
    BY <2>1 DEF Get, TypeOK, Histories
  <2>5. HasTransactions' = HasTransactions
    BY <2>3 DEF HasTransactions, ProfileFetches
  <2>6. report' = NoReport /\ rug = NoRating /\ risk = LowRisk
    BY <2>2 DEF Untouched
  <2>7. CASE \A f \in RugFetches : fetched'[f] # "received"
    <3> DEFINE none == [score |-> 0, verdict |-> "INSUFFICIENT_DATA"]
    <3>1. Combine(none)
      BY <1>8, <2>7 DEF FetchInternal
    <3>2. none \in [score: 0..100, verdict: Verdicts \cup {"none"}]
      BY DEF Verdicts
    <3>3. none.score = 0 => none.verdict \notin Demanding
      BY DEF Demanding
    <3>4. /\ rug' = none /\ next' = "reporter"
          /\ risk' \in [score: 0..100, level: Levels]
          /\ NeitherEngineIsSoftened'
      <4> HIDE DEF none, GraphInv
      <4> QED BY <2>2, <2>6, <3>1, <3>2, <3>3, CombineKeepsInv DEF NeitherEngineIsSoftened
    <3>5. TypeOK'
      BY <2>2, <2>4, <3>2, <3>4 DEF TypeOK, Nodes
    <3>6. Untouched' /\ ErrorsInv' /\ Consistent'
      BY <2>2, <2>3, <2>6, <3>4 DEF Untouched, ErrorsInv, Consistent
    <3>7. JudgementsNeedData' /\ ReportNamesFailures'
      BY <2>2, <2>5, <2>6, <3>4 DEF JudgementsNeedData, ReportNamesFailures
    <3> QED BY <3>4, <3>5, <3>6, <3>7
  <2>8. CASE ~\A f \in RugFetches : fetched'[f] # "received"
    <3>1. next' = "engine" /\ UNCHANGED <<rug, risk>>
      BY <1>8, <2>8 DEF FetchInternal
    <3>2. TypeOK'
      BY <2>2, <2>4, <3>1 DEF TypeOK, Nodes
    <3>3. Untouched' /\ ErrorsInv' /\ Consistent'
      BY <2>2, <2>3, <2>6, <2>8, <3>1 DEF Untouched, ErrorsInv, Consistent
    <3>4. JudgementsNeedData'
      BY <2>2, <2>5, <2>8 DEF JudgementsNeedData
    <3> QED BY <1>0, <2>6, <3>1, <3>2, <3>3, <3>4
  <2> QED BY <2>7, <2>8
<1>9. CASE RunEngine
  <2>1. /\ next = "engine"
        /\ UNCHANGED <<depth, fetched, attempt, directive, aml, errors, report>>
    BY <1>9 DEF RunEngine
  <2>2. report' = NoReport /\ risk = LowRisk
    BY <2>1 DEF Untouched
  <2>3. PICK rating \in {RugRating(found) : found \in RugFindings} \cup {NoRating} : Combine(rating)
    BY <1>9 DEF RunEngine
  <2>4. /\ rating \in [score: 0..100, verdict: (Verdicts \ {"INSUFFICIENT_DATA"}) \cup {"none"}]
        /\ rating.score = 0 => rating.verdict \notin Demanding
    <3>1. CASE rating = NoRating
      BY <3>1 DEF NoRating, Demanding
    <3>2. ASSUME NEW found \in RugFindings, rating = RugRating(found)
          PROVE  /\ rating \in [score: 0..100, verdict: Verdicts \ {"INSUFFICIENT_DATA"}]
                 /\ rating.score = 0 => rating.verdict \notin Demanding
      <4>1. found \in RugFound
        BY DEF GraphAssumption
      <4> QED BY <3>2, <4>1, RugRatingType
    <3> QED BY <2>3, <3>1, <3>2
  <2>5. /\ rug' = rating /\ next' = "reporter"
        /\ risk' \in [score: 0..100, level: Levels]
        /\ NeitherEngineIsSoftened'
    <3>1. rating \in [score: 0..100, verdict: Verdicts \cup {"none"}]
      BY <2>4
    <3> HIDE DEF GraphInv
    <3> QED BY <2>1, <2>2, <2>3, <2>4, <3>1, CombineKeepsInv DEF NeitherEngineIsSoftened
  <2>6. TypeOK'
    BY <2>1, <2>4, <2>5 DEF TypeOK, Nodes
  <2>7. Untouched' /\ ErrorsInv' /\ Consistent'
    BY <2>1, <2>2, <2>5 DEF Untouched, ErrorsInv, Consistent
  <2>8. \E f \in RugFetches : fetched[f] = "received"
    BY <2>1 DEF Untouched
  <2>9. JudgementsNeedData' /\ ReportNamesFailures'
    BY <2>1, <2>2, <2>8 DEF JudgementsNeedData, ReportNamesFailures, HasTransactions
  <2> QED BY <2>5, <2>6, <2>7, <2>9
<1>10. CASE Report
  <2>1. /\ next = "reporter" /\ next' = "memory" /\ report' = [errors |-> errors, risk |-> risk]
        /\ UNCHANGED <<depth, fetched, attempt, directive, aml, rug, risk, errors>>
    BY <1>10 DEF Report, TypeOK
  <2>2. TypeOK'
    BY <2>1 DEF TypeOK, Nodes
  <2>3. Untouched' /\ ErrorsInv' /\ Consistent'
    BY <2>1 DEF Untouched, ErrorsInv, Consistent
  <2>4. JudgementsNeedData' /\ NeitherEngineIsSoftened'
    BY <2>1 DEF JudgementsNeedData, HasTransactions, NeitherEngineIsSoftened
  <2>5. ReportNamesFailures'
    BY <2>1 DEF ReportNamesFailures, ErrorsInv
  <2> QED BY <2>2, <2>3, <2>4, <2>5
<1>11. CASE Persist
  <2>1. /\ next = "memory" /\ next' = "end"
        /\ UNCHANGED <<depth, fetched, attempt, directive, aml, rug, risk, errors, report>>
    BY <1>11 DEF Persist
  <2> QED BY <2>1 DEF TypeOK, Untouched, ErrorsInv, Consistent, JudgementsNeedData,
              NeitherEngineIsSoftened, ReportNamesFailures, HasTransactions, Nodes
<1> QED BY <1>1, <1>2, <1>3, <1>4, <1>5, <1>6, <1>7, <1>8, <1>9, <1>10, <1>11 DEF Next

\* The invariant holds of every run of the graph.
LEMMA GraphInvariant == Spec => []GraphInv
<1>1. Init => GraphInv
  BY InitGraph, ScoringAssumption, GraphAssumption
<1>2. GraphInv /\ [Next]_vars => GraphInv'
  BY StepKeepsInv, ScoringAssumption, GraphAssumption
<1> QED BY <1>1, <1>2, PTL DEF Spec

\* Scores stay within 0..100 and levels within their range at every await, for
\* all weights, thresholds and findings: ReportContext never refuses a score.
THEOREM ScoresInRange == Spec => []TypeOK
BY GraphInvariant, PTL DEF GraphInv

\* Whichever fetches and attempts fail, no strategy, AML score or rug-pull
\* verdict rests on nothing.
THEOREM NoJudgementWithoutData == Spec => []JudgementsNeedData
BY GraphInvariant, PTL DEF GraphInv

\* For all weights and thresholds: the combined score and level are not below
\* what either engine found.
THEOREM EnginesAreNotSoftened == Spec => []NeitherEngineIsSoftened
BY GraphInvariant, PTL DEF GraphInv

\* The report names exactly the profile's fetches that failed.
THEOREM FailuresAreReported == Spec => []ReportNamesFailures
BY GraphInvariant, PTL DEF GraphInv
===============================================================================
