-------------------------------- MODULE Tracing --------------------------------
(***************************************************************************)
(* The multi-hop tracer: candidates of the investigated wallet are ranked, *)
(* and a breadth-first search follows their transfers for some hops.  The  *)
(* graph of transfers has cycles, and any fetch may fail.  Amounts and     *)
(* ages are small numbers; the logarithm and the decay of the score are    *)
(* tables.                                                                 *)
(***************************************************************************)
EXTENDS Integers, Sequences, FiniteSets

CONSTANTS Accounts, Root,  \* wallets, and the one under investigation
          Transfers,       \* each wallet's transfers as its profile lists them
          Hops,            \* depths the tracer may be asked for
          TraceWeights,    \* TraceScoringConfig, in percent
          LogOf,           \* log(1 + value), an increasing table
          Decay,           \* the recency of an age, a decreasing table of percents
          MinTraceValue, MaxTraceNodes, MaxFanOut  \* InvestigationConfig

Directions == {"INCOMING", "OUTGOING"}
EntityTypes == {"known_cex", "bridge", "mixer_suspected", "known_dex", "CEX", "DEX", "MIXER", "BRIDGE"}

ASSUME TraceAssumption ==
  /\ Root \in Accounts
  /\ Transfers \in [Accounts -> Seq([dir: Directions, with: Accounts, value: Nat, age: Nat,
                                     types: SUBSET EntityTypes])]
  /\ Hops \subseteq 1..3
  /\ TraceWeights \in [{"value", "recency", "novelty", "rule"} -> Nat]
  /\ \A w \in Accounts : \A i \in DOMAIN Transfers[w] :
       LogOf[Transfers[w][i].value] \in Nat /\ Decay[Transfers[w][i].age] \in Nat
  /\ LogOf[1] \in Nat
  /\ MinTraceValue \in Nat /\ MaxTraceNodes \in Nat /\ MaxFanOut \in Nat

VARIABLES hops,      \* max_depth
          queue,     \* wallets to visit: [wallet, depth, source, value]
          profiles,  \* wallets whose transfers were fetched
          failed,    \* wallets whose fetch failed, which only the log knows
          traced,    \* wallets_traced
          edges      \* graph_edges; the nodes are the root and the edges' targets

traceVars == <<hops, queue, profiles, failed, traced, edges>>

----------------------------------------------------------------------------
(* TraceScorerTool.run and TraceScorer *)

\* The elements of seq at the indices I, in their order.
Picked(seq, I) ==
  [k \in 1..Cardinality(I) |-> seq[CHOOSE i \in I : Cardinality({j \in I : j <= i}) = k]]

TakenBy(strategy, transfer) ==
  /\ strategy = "FORWARD_ONLY" => transfer.dir = "OUTGOING"
  /\ strategy = "BACKWARD_ONLY" => transfer.dir = "INCOMING"

Candidates(w, strategy) ==
  Picked(Transfers[w], {i \in DOMAIN Transfers[w] : /\ Transfers[w][i].with # w
                                                   /\ TakenBy(strategy, Transfers[w][i])})

Largest(candidates) ==
  CHOOSE v \in {candidates[i].value : i \in DOMAIN candidates} :
    \A i \in DOMAIN candidates : candidates[i].value <= v

\* The weighted sum of the four layers, times log(1 + max) to stay whole; max
\* is 1 when it is 0.
score(t, max, seen, flagged) ==
  LET layers == TraceWeights["recency"] * Decay[t.age]
                  + (IF t.with \in seen THEN 0 ELSE TraceWeights["novelty"] * 100)
                  + (IF t.with \in flagged THEN TraceWeights["rule"] * 100 ELSE 0)
  IN  TraceWeights["value"] * 100 * LogOf[t.value] + layers * LogOf[IF max = 0 THEN 1 ELSE max]

\* sorted() keeps the order of equal scores.
score_and_rank(candidates, seen, flagged) ==
  LET points(i) == score(candidates[i], Largest(candidates), seen, flagged)
      above(i, j) == points(i) > points(j) \/ (points(i) = points(j) /\ i <= j)
      rank(i) == Cardinality({j \in DOMAIN candidates : above(j, i)})
  IN  [k \in DOMAIN candidates |-> candidates[CHOOSE i \in DOMAIN candidates : rank(i) = k]]

TopK == <<3, 3, 7>>

Ranked(w, strategy, depth) ==
  LET ranked == score_and_rank(Candidates(w, strategy), {}, {})
  IN  SubSeq(ranked, 1, IF Len(ranked) < TopK[depth] THEN Len(ranked) ELSE TopK[depth])

----------------------------------------------------------------------------
(* PruningEngine.evaluate *)

HaltTypes == {"known_cex", "bridge", "mixer_suspected"}
SampleTypes == {"known_dex"}

TypesAround(w) == UNION {Transfers[w][i].types : i \in DOMAIN Transfers[w]}
Counterparties(w) == {Transfers[w][i].with : i \in DOMAIN Transfers[w]} \ {w}

evaluate(w, value, read, seen, nodes) ==
  IF w \in seen \/ value < MinTraceValue \/ nodes >= MaxTraceNodes THEN "SKIP"
  ELSE IF read /\ TypesAround(w) \cap HaltTypes # {} THEN "HALT"
  ELSE IF read /\ \/ TypesAround(w) \cap SampleTypes # {}
                  \/ Cardinality(Counterparties(w)) > MaxFanOut THEN "SAMPLE"
  ELSE "EXPAND"

\* What evaluate returns is a PruneResult, which equals no PruneDecision.
Is(result, decision) == FALSE

----------------------------------------------------------------------------
(* TracingEngineTool.run *)

Entry(w, depth, source, value) == [wallet |-> w, depth |-> depth, source |-> source, value |-> value]

\* A candidate that comes without its transaction is dropped, as all are that
\* tracer_node hands on.
Seeded(ranked, withTx) ==
  IF withTx THEN [i \in DOMAIN ranked |-> Entry(ranked[i].with, 1, Root, ranked[i].value)] ELSE <<>>

TraceInit ==
  /\ hops \in Hops
  /\ \E strategy \in {"FORWARD_ONLY", "BACKWARD_ONLY", "BIDIRECTIONAL"}, depth \in 1..3, withTx \in BOOLEAN :
       queue = Seeded(Ranked(Root, strategy, depth), withTx)
  /\ profiles = {Root} /\ failed = {} /\ traced = {} /\ edges = <<>>

Others(w) == {i \in DOMAIN Transfers[w] : Transfers[w][i].with # w}
EntriesOf(v, next, source) ==
  [i \in DOMAIN next |-> Entry(next[i].with, v.depth + 1, source, next[i].value)]

\* Mutant of NextHop: only the money that went out is followed.
NextHopForward(v) ==
  LET out == {i \in Others(v.wallet) : Transfers[v.wallet][i].dir = "OUTGOING"}
  IN  EntriesOf(v, Picked(Transfers[v.wallet], out), v.wallet)

\* Mutant of NextHop: the source is handed on.
NextHopOfSource(v) == EntriesOf(v, Picked(Transfers[v.wallet], Others(v.wallet)), v.source)

NextHop(v) == EntriesOf(v, Picked(Transfers[v.wallet], Others(v.wallet)), v.wallet)

\* Mutant of Enqueue: the next hop comes first.
Push(waiting, next) == next \o waiting

Enqueue(waiting, next) == waiting \o next

Follow(v, read) ==
  LET decision == evaluate(v.wallet, v.value, read, traced \cup {Root}, Len(edges) + 1)
  IN  IF Is(decision, "SKIP")
        THEN queue' = Tail(queue) /\ UNCHANGED <<traced, edges>>
        ELSE /\ edges' = Append(edges, [source |-> v.source, target |-> v.wallet, depth |-> v.depth])
             /\ traced' = IF Is(decision, "HALT") THEN traced ELSE traced \cup {v.wallet}
             /\ queue' = IF ~Is(decision, "HALT") /\ read /\ v.depth < hops
                           THEN Enqueue(Tail(queue), NextHop(v)) ELSE Tail(queue)

\* One turn of the loop: a wallet already fetched is not fetched again, and one
\* whose fetch fails is entered into the graph like the others.
Visit ==
  /\ queue # <<>>
  /\ LET v == Head(queue)
     IN  IF v.depth > hops
           THEN queue' = Tail(queue) /\ UNCHANGED <<profiles, failed, traced, edges>>
           ELSE \/ /\ profiles' = profiles \cup {v.wallet}
                   /\ Follow(v, TRUE) /\ UNCHANGED failed
                \/ /\ v.wallet \notin profiles
                   /\ failed' = failed \cup {v.wallet}
                   /\ Follow(v, FALSE) /\ UNCHANGED profiles
  /\ UNCHANGED hops

TraceNext == Visit
TraceSpec == TraceInit /\ [][TraceNext]_traceVars

----------------------------------------------------------------------------
(* Properties *)

\* Every edge is part of a path from the root: its depth is the number of
\* transfers from the root, at most the hops asked for, and its source was
\* reached by one transfer less.
EdgesFormPaths ==
  \A i \in DOMAIN edges :
    /\ edges[i].depth \in 1..hops
    /\ IF edges[i].depth = 1 THEN edges[i].source = Root
       ELSE \E j \in 1..i - 1 : edges[j].target = edges[i].source /\ edges[j].depth = edges[i].depth - 1

\* "breadth-first ensures we fully explore depth D before going to D+1"
\* (tracing_engine.py:22), although each visit appends wallets of its own.
BreadthFirst ==
  \A i, j \in DOMAIN edges : i < j => edges[i].depth <= edges[j].depth

\* A wallet behind which the search goes on, whether the decisions of the pruning
\* engine count or not: readable, no entity, no crowd around it.
Followed(w) ==
  /\ w \notin failed \cup {Root}
  /\ TypesAround(w) \cap (HaltTypes \cup SampleTypes) = {}
  /\ Cardinality(Counterparties(w)) <= MaxFanOut

\* The counterparties of the transfers that are no dust.
WorthTracing(w) ==
  {Transfers[w][i].with : i \in {j \in Others(w) : Transfers[w][j].value >= MinTraceValue}}

\* The wallets within reach of the first hop by such wallets and transfers.
reached[d \in 1..hops] ==
  IF d = 1 THEN {edges[i].target : i \in {j \in DOMAIN edges : edges[j].depth = 1}}
  ELSE UNION {WorthTracing(w) : w \in {x \in reached[d - 1] : Followed(x)}}

\* Unless the node budget is used up, whoever is within reach of the first hop,
\* in either direction, is in the graph when the search ends: what stops the
\* search at one wallet (a failed fetch, an entity, dust, a wallet seen before,
\* at whatever depth) hides nothing that another path leads to.
ReachIsTraced ==
  queue = <<>> /\ Len(edges) + 1 < MaxTraceNodes =>
    \A d \in 1..hops : reached[d] \ {Root} \subseteq {edges[i].target : i \in DOMAIN edges}

\* "Repeat until depth budget exhausted or node budget hit"
\* (tracing_engine.py:19).
BudgetIsKept == Len(edges) + 1 <= MaxTraceNodes
===============================================================================
