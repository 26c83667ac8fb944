---------------------------- MODULE RugpullFeatures ----------------------------
(***************************************************************************)
(* The feature extractors of the rug-pull engine over one wallet w: nor    *)
(* and int are its normal and internal transactions as fetched, ages what  *)
(* the look-ups found, now the time of the analysis.                       *)
(***************************************************************************)
EXTENDS FundingGraph, Scoring, TLC

CONSTANT KnownMixers  \* the mixers exit_features.py lists itself

ASSUME FeatureAssumption == KnownMixers \subseteq Addr

\* What a selector reads as after lstrip("0x"), which also strips the leading
\* zero of 0x02751cec.
Stripped(sel) == IF sel = "removeLiquidityETH" THEN "unknown" ELSE sel
RemoveLiquidity == {"removeLiquidity", "removeLiquidityETH"}
Significant == RemoveLiquidity \cup {"transfer", "swap"}

AtLeastTwo(S) == Cardinality(S) >= 2
Values(txs) == {t.value : t \in txs}
\* Pairs of neighbours in time.
Neighbours(txs) ==
  {p \in txs \X txs : p[1].ts < p[2].ts /\ ~\E t \in txs : p[1].ts < t.ts /\ t.ts < p[2].ts}

\* The square of stdev / mean of the function f, None when it is undefined.
Variation(f) ==
  LET n == Cardinality(DOMAIN f)
      sum == MapThenSumSet(LAMBDA x : f[x], DOMAIN f)
      squares == MapThenSumSet(LAMBDA x : f[x] * f[x], DOMAIN f)
  IN  IF n < 2 \/ sum = 0 THEN None ELSE <<n * (n * squares - sum * sum), (n - 1) * sum * sum>>

Share(S, P(_)) == <<Quantify(S, P), Cardinality(S)>>
Mean(S, ratio(_)) ==
  LET sum == FoldSet(LAMBDA x, acc : <<acc[1] * ratio(x)[2] + ratio(x)[1] * acc[2], acc[2] * ratio(x)[2]>>,
                     <<0, 1>>, S)
  IN  <<sum[1], sum[2] * Cardinality(S)>>

Outgoing(w, txs) == {t \in txs : t.from = w}
Deployments(w, nor) == {t \in Outgoing(w, nor) : t.to = None /\ t.creates # None}
Window(txs, from, to) == {t \in txs : from <= t.ts /\ t.ts < to}

----------------------------------------------------------------------------
(* extract_features *)

\* The lag of the last top-up of the funder that sent most often in 72 hours.
FundingLag(d, inbound) ==
  LET window == Window(inbound, d.ts - 3 * Day, d.ts)
      sent(a) == {t \in window : t.from = a}
      most == {t \in window : \A u \in window : Cardinality(sent(u.from)) <= Cardinality(sent(t.from))}
  IN  IF window = {} THEN None ELSE d.ts - Latest(sent(FirstListed(most).from)).ts

DryRuns(w, nor, d) ==
  LET tried == {t \in Window(Outgoing(w, nor), d.ts - 6 * Hour, d.ts) :
                  t.creates = None /\ (t.err \/ t.like)}
  IN  Min({10, Cardinality(tried)})

\* The first well-formed ownership call within 48 hours of the deployment.
NewOwners(w, nor, d) ==
  LET calls == {t \in Outgoing(w, nor) : /\ d.ts < t.ts /\ t.ts <= d.ts + 2 * Day
                                         /\ t.sel = "ownership" /\ t.owner \notin {None, w}}
  IN  IF calls = {} THEN {} ELSE {Earliest(calls).owner}

\* The gaps between transactions, counted by length in minutes.
NonceEntropy(gaps) ==
  LET length(p) == p[2].ts - p[1].ts
      count(l) == Quantify(gaps, LAMBDA p : length(p) = l)
  IN  IF Cardinality(gaps) < 3 THEN None
      ELSE <<Cardinality(gaps),
             FoldSet(LAMBDA l, acc : acc * count(l)^count(l), 1, {length(p) : p \in gaps})>>

base_features(w, nor, int) ==
  LET deployments == Deployments(w, nor)
      inbound == Inbound(w, nor \cup int)
      lag(d) == FundingLag(d, inbound)
  IN  [warmup |-> IF deployments = {} THEN None
                  ELSE Earliest(deployments).ts - Earliest(nor \cup int).ts,
       fundingCv |-> Variation([d \in {e \in deployments : lag(e) # None} |-> lag(d)]),
       dryRuns |-> MapThenSumSet(LAMBDA d : DryRuns(w, nor, d), deployments),
       deployments |-> Cardinality(deployments),
       nonceEntropy |-> NonceEntropy(Neighbours(Outgoing(w, nor))),
       newOwners |-> UNION {NewOwners(w, nor, d) : d \in deployments}]

funding_features(w, txs, deployTs, ages) ==
  [firstInbound |-> classify_first_inbound(w, txs, ages, deployTs),
   hops |-> min_hops_to_known_source(w, txs),
   freshCapital |-> fraction_fresh_capital(w, txs, deployTs, ages),
   seedMedian |-> median_seed_eth(w, txs, deployTs),
   seedCount |-> Cardinality(Seeds(w, txs, deployTs)),
   seedGas |-> standardized_seed_gas_units(w, txs, deployTs)]

----------------------------------------------------------------------------
(* extract_cashout_features and extract_exit_features.  c is the contract  *)
(* of the first deployment, deployTs its time.                             *)

Deposits(w, c, txs) == {t \in txs : t.to = c /\ t.from # w /\ t.value > 0}
Withdrawals(w, c, txs) == {t \in txs : t.from = c /\ t.to = w /\ t.value > 0}
Outflows(w, c, deployTs, txs) ==
  {t \in Outgoing(w, txs) : t.to \notin {None, c} /\ t.value > 0 /\ t.ts >= deployTs /\ t.creates = None}

\* The first dump of tokens or liquidity, and the first call to a DEX within
\* 24 hours of it, which may be the same transaction.
Swap(w, deployTs, txs) ==
  LET dumps == {t \in Outgoing(w, txs) :
                  t.ts >= deployTs /\ Stripped(t.sel) \in RemoveLiquidity \cup {"transfer"}}
      first == Earliest(dumps).ts
      swaps == {t \in Window(Outgoing(w, txs), first, first + Day) : t.to \in Addr /\ Entities[t.to] = "DEX"}
  IN  IF dumps = {} \/ swaps = {} THEN None ELSE Earliest(swaps).ts - first

\* What outsiders paid in less what went out to them, gas included.
EcosystemBalance(w, c, txs) ==
  LET own == {w, c}
      paidIn == {t \in txs : t.to \in own /\ t.from \notin own /\ t.value > 0}
      paidOut == {t \in txs : t.from \in own /\ t.to \notin own /\ t.value > 0}
  IN  Total(paidIn) - Total(paidOut) - MapThenSumSet(LAMBDA t : t.cost, paidOut)

cashout_features(w, c, deployTs, txs, ages) ==
  LET victims == Total(Deposits(w, c, txs))
      taken == Withdrawals(w, c, txs)
      out == Outflows(w, c, deployTs, txs)
      dests == {t.to : t \in out}
      latency == Earliest(taken).ts - Earliest(Deposits(w, c, txs)).ts
      toType(types) == {t \in out : Entities[t.to] \in types}
      swap == Swap(w, deployTs, txs)
  IN  [withdrawalLatency |-> IF victims = 0 \/ taken = {} \/ latency < 0 THEN None ELSE latency,
       withdrawals |-> Cardinality(taken),
       drain |-> IF victims = 0 \/ taken = {} THEN None ELSE <<Total(taken), victims>>,
       withdrawalSpan |-> IF victims > 0 /\ AtLeastTwo(taken)
                            THEN Latest(taken).ts - Earliest(taken).ts ELSE None,
       outflows |-> Cardinality(out),
       outflowCv |-> IF Cardinality(out) < 4 THEN None ELSE Variation([t \in out |-> t.value]),
       outflowRound |-> IF Cardinality(out) < 4 THEN None
                        ELSE Share(out, LAMBDA t : t.value % Eth.half = 0),
       suspiciousDests |-> Quantify(dests, LAMBDA a : ~IsKnown(a)),
       freshDests |-> IF dests = {} THEN None
                      ELSE Share(dests, LAMBDA a : ~IsKnown(a) /\ YoungerThan(ages, a, deployTs, 7 * Day - 1)),
       concentration |-> IF out = {} THEN None ELSE <<Total(toType({"CEX", "MIXER"})), Total(out)>>,
       mixerContact |-> toType({"MIXER"}) # {},
       swapDetected |-> swap # None,
       swapLatency |-> swap,
       retained |-> IF victims = 0 THEN None ELSE <<Max({0, EcosystemBalance(w, c, txs)}), victims>>,
       victimInflow |-> victims]

\* The fields of a wallet that deployed nothing stay at their defaults.
NoCashout ==
  [withdrawalLatency |-> None, withdrawals |-> 0, drain |-> None, withdrawalSpan |-> None,
   outflows |-> 0, outflowCv |-> None, outflowRound |-> None, suspiciousDests |-> 0,
   freshDests |-> None, concentration |-> None, mixerContact |-> FALSE, swapDetected |-> FALSE,
   swapLatency |-> None, retained |-> None, victimInflow |-> 0]

Silence(w, txs, now) ==
  LET acts == {t \in Outgoing(w, txs) : t.value > Eth.significant \/ t.sel \in Significant}
      silent == now - Latest(acts).ts
      life == now - Earliest(acts).ts
  IN  IF ~AtLeastTwo(acts) THEN [silence |-> None, silenceRatio |-> None]
      ELSE [silence |-> (silent * 10 + Day \div 2) \div Day,
            silenceRatio |-> <<(2000 * silent + life) \div (2 * life), 1000>>]

\* Gaps of more than 30 days, and how suspicious the three next actions were.
Reactivations(w, nor) ==
  LET out == Outgoing(w, nor)
      gaps == {p \in Neighbours(out) : p[2].ts - p[1].ts > 30 * Day}
      next(p) == {t \in out : p[2].ts <= t.ts /\ Cardinality(Window(out, p[2].ts, t.ts)) < 3}
      context(p) == 2 * Quantify(next(p), LAMBDA t : t.to = None)
                      + 2 * Quantify(next(p), LAMBDA t : t.to \in KnownMixers)
  IN  [dormancies |-> Cardinality(gaps),
       reactivation |-> IF gaps = {} THEN 0 ELSE Max({context(p) : p \in gaps})]

\* Single transfers of more than 30% of what the victims paid in.
YoungestDest(w, nor, victims, ages) ==
  LET bulk == {t \in Outgoing(w, nor) : t.to # None /\ t.value > (3 * victims) \div 10}
      aged == {t \in bulk : ages[t.to] # None /\ ages[t.to] <= t.ts}
  IN  IF victims = 0 \/ aged = {} THEN None
      ELSE Min({((t.ts - ages[t.to]) * 100 + Day \div 2) \div Day : t \in aged})

----------------------------------------------------------------------------
(* extract_vs_features *)

Dust(txs) == {t \in txs : 0 < t.value /\ t.value < Eth.dust}

\* Amounts to two decimals of an ETH.
SeedAmounts(w, txs, d) ==
  {(t.value + Eth.cent \div 2) \div Eth.cent : t \in Window(Inbound(w, txs) \ Outgoing(w, txs), d.ts - 3 * Day, d.ts)}

SeedJaccard(w, txs, deployments) ==
  LET amounts(d) == SeedAmounts(w, txs, d)
      pairs == {p \in Neighbours(deployments) : amounts(p[1]) \cup amounts(p[2]) # {}}
  IN  IF pairs = {} THEN None
      ELSE Mean(pairs, LAMBDA p : <<Cardinality(amounts(p[1]) \cap amounts(p[2])),
                                    Cardinality(amounts(p[1]) \cup amounts(p[2]))>>)

transfer_features(w, nor, int) ==
  LET txs == nor \cup int
      deployments == Deployments(w, nor)
      inbound == Inbound(w, txs) \ Outgoing(w, txs)
      early == IF deployments = {} THEN inbound
               ELSE {t \in inbound : t.ts < Earliest(deployments).ts}
      priced == {t \in Outgoing(w, nor) : t.gas > 0}
      timesSeen(v) == Quantify(inbound, LAMBDA t : t.value = v)
  IN  [inboundCount |-> Cardinality(inbound),
       modeFreq |-> IF ~AtLeastTwo(inbound) THEN None
                    ELSE <<Max({timesSeen(v) : v \in Values(inbound)}), Cardinality(inbound)>>,
       preDeployCount |-> Cardinality(early),
       roundFunding |-> IF ~AtLeastTwo(early) THEN None
                        ELSE Share(early, LAMBDA t : t.value % Eth.half = 0),
       gasCount |-> Cardinality(priced),
       gasCv |-> Variation([t \in priced |-> t.gas]),
       roundGas |-> IF ~AtLeastTwo(priced) THEN None
                    ELSE Share(priced, LAMBDA t : t.gas % Eth.gwei = 0),
       outDust |-> Cardinality(Dust(Outgoing(w, txs))),
       seedJaccard |-> SeedJaccard(w, txs, deployments)]

\* Pings in the 24 hours up to the first withdrawal, both ends included.
PreCashoutDust(w, c, txs) ==
  LET cashouts == Withdrawals(w, c, txs)
      first == Earliest(cashouts).ts
  IN  IF cashouts = {} THEN 0 ELSE Cardinality(Dust(Window(Outgoing(w, txs), first - Day, first + 1)))

\* The multiplier is what came out over what the creator put in, at least
\* 0.001 ETH.  Token transfers are never fetched.
extraction_features(w, c, deployTs, nor, txs) ==
  LET put == Total(Deployments(w, nor)) + Total({t \in Outgoing(w, txs) : t.to = c /\ t.ts >= deployTs})
      added == Total({t \in Outgoing(w, txs) : Stripped(t.sel) = "addLiquidity"})
      removed == Total({t \in Inbound(w, txs) : Stripped(t.sel) \in RemoveLiquidity})
  IN  [multiplier |-> <<Total(Withdrawals(w, c, txs)), Max({put, Eth.significant})>>,
       lpNet |-> IF added + removed = 0 THEN None ELSE removed - added]

NoExtraction == [multiplier |-> None, lpNet |-> None]
NoTokens == [tokenFraction |-> None, mintToLp |-> None]

----------------------------------------------------------------------------
(* RugpullEngine.run *)

\* The transactions that made a first contract; none if the wallet deployed nothing.
FirstDeployment(w, nor) == IF Deployments(w, nor) = {} THEN None ELSE Earliest(Deployments(w, nor))

deployment_features(w, nor, int, ages) ==
  LET d == FirstDeployment(w, nor)
      txs == nor \cup int
  IN  IF d = None THEN NoCashout @@ NoExtraction @@ [preCashoutDust |-> 0]
      ELSE cashout_features(w, d.creates, d.ts, txs, ages)
             @@ extraction_features(w, d.creates, d.ts, nor, txs)
             @@ [preCashoutDust |-> PreCashoutDust(w, d.creates, txs)]

\* The same as [sharedFunders |-> shared] @@ others, in terms the provers know.
WithFlag(shared, others) ==
  [name \in {"sharedFunders"} \cup DOMAIN others |-> IF name = "sharedFunders" THEN shared ELSE others[name]]

features(w, nor, int, deployTs, ages, shared, now) ==
  LET cashout == deployment_features(w, nor, int, ages)
      others == funding_features(w, nor \cup int, deployTs, ages)
                  @@ base_features(w, nor, int) @@ cashout @@ transfer_features(w, nor, int) @@ NoTokens
                  @@ Silence(w, nor \cup int, now) @@ Reactivations(w, nor)
                  @@ [youngestDest |-> YoungestDest(w, nor, cashout.victimInflow, ages)]
  IN  WithFlag(shared, others)

\* What compute_score sees of the rules' results.
Found(results) ==
  [count |-> [s \in Severities |-> Cardinality({id \in RuleIds : results[id] = s})],
   fp4 |-> results["FP4"] # NotTriggered,
   newA |-> results["NEW-A"] # NotTriggered,
   newB |-> results["NEW-B"] # NotTriggered]
==============================================================================
