------------------------------- MODULE MCTracing -------------------------------
EXTENDS Tracing

CONSTANTS start, cex, hub, leaf

\* A graph with a cycle through the root, one beside it that only dust closes,
\* and an exchange.
Accounts4 == {start, cex, hub, leaf}
Transfer(dir, with, value, age, types) ==
  [dir |-> dir, with |-> with, value |-> value, age |-> age, types |-> types]
SomeTransfers ==
  [x \in Accounts4 |->
    CASE x = start -> <<Transfer("OUTGOING", cex, 5, 1, {"CEX"}), Transfer("INCOMING", hub, 2, 0, {}),
                        Transfer("INCOMING", start, 3, 0, {})>>
      [] x = cex -> <<Transfer("INCOMING", start, 5, 1, {"CEX"}), Transfer("INCOMING", hub, 2, 0, {"CEX"}),
                      Transfer("INCOMING", leaf, 1, 0, {"CEX"})>>
      [] x = hub -> <<Transfer("OUTGOING", start, 2, 0, {}), Transfer("OUTGOING", cex, 2, 0, {"CEX"}),
                      Transfer("OUTGOING", leaf, 4, 1, {"MIXER"})>>
      [] x = leaf -> <<Transfer("INCOMING", hub, 4, 1, {}), Transfer("OUTGOING", cex, 1, 0, {"CEX"})>>]
DefaultTraceWeights == [value |-> 30, recency |-> 20, novelty |-> 30, rule |-> 20]
LogTable == [v \in 0..5 |-> <<0, 69, 110, 139, 161, 179>>[v + 1]]
DecayTable == [age \in 0..1 |-> <<100, 50>>[age + 1]]
===============================================================================
