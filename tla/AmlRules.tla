------------------------------- MODULE AmlRules -------------------------------
(***************************************************************************)
(* The seven AML rules over the normalised transactions of a profile, and  *)
(* ForensicsEngine.run.  now is the time of the analysis.                  *)
(***************************************************************************)
EXTENDS RugpullFeatures

CONSTANTS Aml,         \* ForensicRulesConfig; the multiplier in tenths
          RoundSums    \* _ROUND_AMOUNTS

ASSUME AmlAssumption ==
  /\ {Aml.large, Aml.window, Aml.newAge} \subseteq Nat \ {0}
  /\ {Aml.rapid, Aml.fanout, Aml.roundMin} \subseteq Nat \ {0, 1}
  /\ {Aml.dormancy, Aml.rapidWindow, Aml.multiplier} \subseteq Nat \ {0} /\ Aml.multiplier >= 15
  /\ RoundSums \subseteq Nat \ {0}
  /\ Eth.cent <= Eth.tenth

AmlRuleIds == {"RULE-001", "RULE-002", "RULE-003", "RULE-004", "RULE-005", "RULE-006", "RULE-007"}

\* A transfer to oneself is incoming.
_classify_direction(w, t) == IF t.to = w THEN "INCOMING" ELSE IF t.from = w THEN "OUTGOING" ELSE "INTERNAL"
Sent(w, profile) == {t \in profile : _classify_direction(w, t) = "OUTGOING"}

large_transfer(w, profile) ==
  LET reaches(n) == \E t \in Sent(w, profile) : t.value >= n * Aml.large
  IN  Graded(reaches(10), reaches(1), FALSE, FALSE)

rapid_transfer(w, profile) ==
  LET burst(t) == {u \in Sent(w, profile) : t.ts <= u.ts /\ u.ts <= t.ts + Aml.rapidWindow}
      reaches(n) == \E t \in Sent(w, profile) : Cardinality(burst(t)) >= n * Aml.rapid
  IN  Graded(reaches(3), reaches(1), FALSE, FALSE)

high_fanout(w, profile) ==
  LET count == Cardinality({t.to : t \in Sent(w, profile)} \ {None})
  IN  Graded(count >= 3 * Aml.fanout, count >= Aml.fanout, FALSE, FALSE)

\* Mutant of dormant_activation: only the gap before the last transaction.
DormantLately(profile) ==
  LET reaches(n) == \E p \in Neighbours(profile) :
                      p[2] = Latest(profile) /\ p[2].ts - p[1].ts >= n * Aml.dormancy
  IN  Graded(reaches(2), reaches(1), FALSE, FALSE)

\* In either direction; what follows the gap does not count.
dormant_activation(profile) ==
  LET reaches(n) == \E p \in Neighbours(profile) : p[2].ts - p[1].ts >= n * Aml.dormancy
  IN  Graded(reaches(2), reaches(1), FALSE, FALSE)

\* The last window with a transaction against the mean of the earlier ones that
\* have any; the windows without one are not in the mean.
activity_burst(profile) ==
  LET bucket(t) == (t.ts - Earliest(profile).ts) \div Aml.window
      latest == Cardinality({t \in profile : bucket(t) = bucket(Latest(profile))})
      earlier == Cardinality({bucket(t) : t \in profile}) - 1
      reaches(n) == latest * earlier * 10 >= n * Aml.multiplier * (Cardinality(profile) - latest)
  IN  IF Cardinality(profile) < 4 \/ earlier = 0 THEN NotTriggered
      ELSE Graded(reaches(3), reaches(1), FALSE, FALSE)

round_numbers(w, profile) ==
  LET isRound(v) == \E sum \in RoundSums : (v - sum) * 10000 < sum /\ (sum - v) * 10000 < sum
      count == Cardinality({t \in Sent(w, profile) : t.value >= Eth.cent /\ isRound(t.value)})
  IN  Graded(FALSE, count >= 3 * Aml.roundMin, count >= Aml.roundMin, FALSE)

\* The recipient is taken for new when the transfer is.
new_wallet_interaction(w, profile, now) ==
  LET count == Cardinality({t \in Sent(w, profile) :
                              ~IsKnown(t.to) /\ now - t.ts <= Aml.newAge /\ t.value >= Eth.tenth})
  IN  Graded(FALSE, count > 1, count = 1, FALSE)

AmlResults(w, profile, now) ==
  [id \in AmlRuleIds |->
    CASE id = "RULE-001" -> large_transfer(w, profile)
      [] id = "RULE-002" -> rapid_transfer(w, profile)
      [] id = "RULE-003" -> high_fanout(w, profile)
      [] id = "RULE-004" -> dormant_activation(profile)
      [] id = "RULE-005" -> activity_burst(profile)
      [] id = "RULE-006" -> round_numbers(w, profile)
      [] id = "RULE-007" -> new_wallet_interaction(w, profile, now)]

\* The types of an address in the table are none of those the engine asks for.
MixerTypes == {"mixer_suspected"}

ForensicsReport(w, profile, now) ==
  LET results == AmlResults(w, profile, now)
      types(t) == {Entities[a] : a \in {t.from, t.to} \cap Addr}
  IN  [count |-> [s \in Severities |-> Cardinality({id \in AmlRuleIds : results[id] = s})],
       mixer |-> \E t \in profile : types(t) \cap MixerTypes # {}]

----------------------------------------------------------------------------
(* Property *)

Weight(severity) ==
  CASE severity = "MEDIUM" -> 1 [] severity = "HIGH" -> 2 [] severity = "CRITICAL" -> 3 [] OTHER -> 0

\* What later transactions cannot talk away; an alarm of RULE-005 or RULE-007
\* they can.
LastingRules == AmlRuleIds \ {"RULE-005", "RULE-007"}
Outlasts(later, earlier) ==
  \A id \in LastingRules : Weight(later[id]) >= Weight(earlier[id])
===============================================================================
