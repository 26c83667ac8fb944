------------------------------ MODULE MCAgentGraph ------------------------------
EXTENDS AgentGraph

\* The default weights and thresholds of settings/base.py.
DefaultAmlWeights == [LOW |-> 5, MEDIUM |-> 10, HIGH |-> 20, CRITICAL |-> 40]
DefaultAmlBands == [MEDIUM |-> 25, HIGH |-> 50, CRITICAL |-> 80]
DefaultRugWeights == [LOW |-> 5, MEDIUM |-> 10, HIGH |-> 25, CRITICAL |-> 40]
DefaultRugBands ==
  [WEAK_PATTERN |-> 20, MODERATE_PATTERN |-> 36, STRONG_PATTERN |-> 50,
   HIGH_CONFIDENCE_RUGPULL |-> 100]

Counts(low, medium, high, critical) ==
  [LOW: low, MEDIUM: medium, HIGH: high, CRITICAL: critical]

\* AML findings of every level; rug-pull findings that reach every verdict, with
\* every override.
SomeAmlFindings == [count: Counts({1}, {0}, {0, 2}, {0, 1}), mixer: BOOLEAN]
SomeRugFindings ==
  {f \in [count: Counts({0}, {0, 1, 4}, {0, 2}, {0, 1}),
          fp4: BOOLEAN, newA: BOOLEAN, newB: BOOLEAN] :
     /\ f.fp4 => f.count["CRITICAL"] > 0
     /\ f.newA => f.count["MEDIUM"] > 0
     /\ f.newB => f.count["HIGH"] > 0}
===============================================================================
