----------------------------- MODULE FundingGraph -----------------------------
(***************************************************************************)
(* Where a wallet's money came from: the funding features of one history.  *)
(* A transaction is a record                                               *)
(*   [from, to, value, ts, kind : {"normal", "internal"}, gas, cost, err,  *)
(*    sel, like, creates, owner];                                          *)
(* a deployment has to = None and creates # None.  Time stamps are unique, *)
(* so a history is a set and sorting it by time is ordering it by ts.      *)
(***************************************************************************)
EXTENDS RugpullRules, FiniteSets, FiniteSetsExt

CONSTANTS Addr,      \* addresses
          Entities,  \* known_entities.json: address -> type, None when not listed
          Noise      \* NOISE_ADDRESSES: contracts that fund everybody

ASSUME FundingAssumption ==
  /\ None \notin Addr /\ Noise \subseteq Addr
  /\ Entities \in [Addr -> {"CEX", "DEX", "MIXER", "BRIDGE", None}]

MAX_BFS_DEPTH == 5

Earliest(txs) == CHOOSE t \in txs : \A u \in txs : t.ts <= u.ts
Latest(txs) == CHOOSE t \in txs : \A u \in txs : u.ts <= t.ts
\* The lists hold the normal transactions before the internal ones.
Before(t, u) ==
  \/ t.kind = "normal" /\ u.kind = "internal"
  \/ t.kind = u.kind /\ t.ts < u.ts
FirstListed(txs) == CHOOSE t \in txs : \A u \in txs \ {t} : Before(t, u)

Total(txs) == MapThenSumSet(LAMBDA t : t.value, txs)
Inbound(w, txs) == {t \in txs : t.to = w /\ t.value > 0}
Seeds(w, txs, deployTs) == {t \in Inbound(w, txs) : t.ts < deployTs}
IsKnown(a) == a \in Addr /\ Entities[a] # None
\* An age the look-up did not find makes no wallet fresh.
YoungerThan(ages, a, at, limit) == ages[a] # None /\ at - ages[a] <= limit

classify_first_inbound(w, txs, ages, deployTs) ==
  LET sender == Earliest(Inbound(w, txs)).from
  IN  IF Inbound(w, txs) = {} THEN "UNKNOWN_EOA"
      ELSE IF IsKnown(sender) THEN Entities[sender]
      ELSE IF YoungerThan(ages, sender, deployTs, 2 * Day) THEN "FRESH_WALLET"
      ELSE "UNKNOWN_EOA"

\* build_funding_graph: an edge for every transfer of some value.
Edges(txs) == {<<t.from, t.to>> : t \in {u \in txs : u.value > 0 /\ u.to # None}}

\* Those from whom money reached w in at most d transfers.
Reaching(w, edges) ==
  LET further(near) == near \cup {e[1] : e \in {x \in edges : x[2] \in near}}
      within[d \in 0..MAX_BFS_DEPTH] == IF d = 0 THEN {w} ELSE further(within[d - 1])
  IN  within

min_hops_to_known_source(w, txs) ==
  LET edges == Edges(txs)
      within == Reaching(w, edges)
      depths == {d \in 0..MAX_BFS_DEPTH : \E a \in within[d] : IsKnown(a)}
      inGraph == \E e \in edges : w \in {e[1], e[2]}
  IN  IF inGraph /\ depths # {} THEN Min(depths) ELSE None

fraction_fresh_capital(w, txs, deployTs, ages) ==
  LET seeds == Seeds(w, txs, deployTs)
  IN  IF seeds = {} THEN None
      ELSE <<Total({t \in seeds : YoungerThan(ages, t.from, t.ts, 2 * Day)}), Total(seeds)>>

\* The median as a fraction: the mean of the two middle values.
median_seed_eth(w, txs, deployTs) ==
  LET seeds == Seeds(w, txs, deployTs)
      n == Cardinality(seeds)
      smaller(t) == {u \in seeds : u.value < t.value \/ (u.value = t.value /\ u.ts < t.ts)}
      ranked(k) == (CHOOSE t \in seeds : Cardinality(smaller(t)) = k).value
  IN  IF seeds = {} THEN None ELSE <<ranked((n - 1) \div 2) + ranked(n \div 2), 2>>

\* Only the normal transactions carry a gas price.
standardized_seed_gas_units(w, txs, deployTs) ==
  LET seeds == {t \in Seeds(w, txs, deployTs) : t.gas > 0}
      primary == FirstListed({t \in seeds : \A u \in seeds : u.value <= t.value})
  IN  IF seeds = {} THEN None ELSE <<primary.value, primary.gas>>

\* build_reverse_tx_graph: who sent a receiver more than dust.
SendersTo(a, txs) == {t.from : t \in {u \in txs : u.to = a /\ u.value >= Eth.funding}}

\* Public infrastructure links everybody: the search does not pass it.
Eligible(a) == a \notin Noise /\ ~IsKnown(a)

\* MAX_CLUSTER_DEPTH (3) levels up.
get_upstream_funders_bfs(w, txs) ==
  LET further(near) == near \cup {a \in UNION {SendersTo(b, txs) : b \in near} : Eligible(a)}
  IN  further(further(further({w}))) \ {w}

----------------------------------------------------------------------------
(* The funder table, a set of links <<funder, wallet>> that the processes  *)
(* of the server and of the batch scripts share.                           *)

\* Mutant of record_funders: a row per funder, replaced by the next wallet.
ReplaceFunders(links, w, funders) == {l \in links : l[1] \notin funders} \cup (funders \X {w})

\* INSERT OR IGNORE of every funder in one transaction.
record_funders(links, w, funders) == links \cup (funders \X {w})

get_wallets_by_funder(links, f) == {l[2] : l \in {k \in links : k[1] = f}}

\* Mutant of shared_upstream_funders_flag: the wallet's own rows count.
AnySharedRow(links, w, funders) == \E f \in funders : get_wallets_by_funder(links, f) # {}

shared_upstream_funders_flag(links, w, funders) ==
  \E f \in funders : get_wallets_by_funder(links, f) \ {w} # {}
===============================================================================
