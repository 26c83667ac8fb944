-------------------------------- MODULE Scoring --------------------------------
(***************************************************************************)
(* The two scores of a wallet: compute_risk_score of the AML findings, and *)
(* compute_score of the rug-pull rules with its overrides.  Findings are   *)
(* counted per severity; points and thresholds are whole numbers.          *)
(***************************************************************************)
EXTENDS Naturals

CONSTANTS AmlWeights,  \* RiskScoringConfig: points of a finding by severity
          AmlBands,    \* lowest score of each level above LOW
          RugWeights,  \* RugpullProfileConfig: points of a rule by severity
          RugBands,    \* lowest score of each verdict above CLEAN
          CrossMatch   \* RUG_007_CROSS_MATCH_OVERRIDES_VERDICT

Severities == {"LOW", "MEDIUM", "HIGH", "CRITICAL"}
Levels == {"LOW", "MEDIUM", "HIGH", "CRITICAL"}
RankedVerdicts ==
  {"CLEAN", "WEAK_PATTERN", "MODERATE_PATTERN", "STRONG_PATTERN", "HIGH_CONFIDENCE_RUGPULL"}
Verdicts == RankedVerdicts \cup {"INSUFFICIENT_DEPLOYMENT_HISTORY", "INSUFFICIENT_DATA"}

\* The settings' validators allow a threshold of 0, with which a wallet
\* without findings would be graded, and verdict thresholds above 100; no
\* deployment uses either.
ASSUME ScoringAssumption ==
  /\ AmlWeights \in [Severities -> Nat \ {0}]
  /\ AmlBands \in [Levels \ {"LOW"} -> 1..100]
  /\ RugWeights \in [Severities -> Nat \ {0}]
  /\ RugBands \in [RankedVerdicts \ {"CLEAN"} -> 1..100]
  /\ CrossMatch \in BOOLEAN

\* What the rules of each engine found.
AmlFound == [count: [Severities -> Nat], mixer: BOOLEAN]
RugFound == [count: [Severities -> Nat], fp4: BOOLEAN, newA: BOOLEAN, newB: BOOLEAN]

\* Mutant of Capped: the sum is handed on as it is.
Uncapped(points) == points

Capped(points) == IF points > 100 THEN 100 ELSE points
AtLeast(floor, score) == IF score < floor THEN floor ELSE score

Points(weights, count) ==
  weights["LOW"] * count["LOW"] + weights["MEDIUM"] * count["MEDIUM"]
    + weights["HIGH"] * count["HIGH"] + weights["CRITICAL"] * count["CRITICAL"]

Level(score) ==
  IF score >= AmlBands["CRITICAL"] THEN "CRITICAL"
  ELSE IF score >= AmlBands["HIGH"] THEN "HIGH"
  ELSE IF score >= AmlBands["MEDIUM"] THEN "MEDIUM"
  ELSE "LOW"

\* compute_risk_score
AmlRating(found) ==
  LET score == Capped(Points(AmlWeights, found.count) + (IF found.mixer THEN 30 ELSE 0))
  IN  [score |-> score, level |-> Level(score)]

BandVerdict(score) ==
  IF score < RugBands["WEAK_PATTERN"] THEN "CLEAN"
  ELSE IF score < RugBands["MODERATE_PATTERN"] THEN "WEAK_PATTERN"
  ELSE IF score < RugBands["STRONG_PATTERN"] THEN "MODERATE_PATTERN"
  ELSE IF score < RugBands["HIGH_CONFIDENCE_RUGPULL"] THEN "STRONG_PATTERN"
  ELSE "HIGH_CONFIDENCE_RUGPULL"

\* compute_score: found.count includes the three rules with a flag.
RugRating(found) ==
  LET score == Capped(Points(RugWeights, found.count))
      verdict == BandVerdict(score)
      elevate == found.newB /\ CrossMatch /\ verdict \in {"CLEAN", "WEAK_PATTERN"}
      corroborated == found.newB \/ found.count["HIGH"] + found.count["CRITICAL"] > 0
  IN  IF found.fp4
        THEN [score |-> AtLeast(80, score), verdict |-> "HIGH_CONFIDENCE_RUGPULL"]
        ELSE [score |-> IF elevate THEN AtLeast(RugBands["MODERATE_PATTERN"], score) ELSE score,
              verdict |-> IF found.newA /\ ~corroborated THEN "INSUFFICIENT_DEPLOYMENT_HISTORY"
                          ELSE IF elevate THEN "MODERATE_PATTERN" ELSE verdict]
===============================================================================
