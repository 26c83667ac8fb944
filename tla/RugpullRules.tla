----------------------------- MODULE RugpullRules -----------------------------
(***************************************************************************)
(* The 28 rug-pull rules of one deployer wallet: each maps a vector of     *)
(* features to a severity, or does not trigger.  A feature is None when it *)
(* is undefined for the wallet.  A ratio is a fraction <<a, b>> with       *)
(* b > 0, compared by cross-multiplication; a coefficient of variation is  *)
(* kept as its square, so that it stays a fraction.  Times are minutes,    *)
(* amounts are in the units of the constant Eth.                           *)
(***************************************************************************)
EXTENDS Integers

CONSTANTS None,  \* an undefined feature
          Cfg,   \* RugpullProfileConfig, and the counts the rules have built in
          Eth    \* the amounts the code names: dust, structuring, half an ETH...

Percent == 0..100

\* The ranges the settings accept; the counts built into the rules are here to
\* be scaled down with the histories.  Amounts keep their order.
ASSUME RugpullAssumption ==
  /\ {Cfg.burner, Cfg.newAWarmup, Cfg.dryRunsHigh, Cfg.dryRunsMedium, Cfg.deploymentsHigh,
      Cfg.deploymentsMedium, Cfg.vs4PreHigh, Cfg.vs4LifetimeMedium, Cfg.vs6Critical,
      Cfg.vs6High, Cfg.vs6Medium, Cfg.vs6Rush} \subseteq Nat \ {0}
  /\ {Cfg.cvHigh, Cfg.cvMedium, Cfg.entropyBuckets, Cfg.vs3CvHigh, Cfg.structuringCount,
      Cfg.undersized} \subseteq Nat
  /\ {Cfg.vs1High, Cfg.vs1Medium, Cfg.vs2High, Cfg.vs2Medium, Cfg.vs3RoundMedium, Cfg.vs5High,
      Cfg.vs5Medium, Cfg.vs6TokenHigh} \subseteq Percent
  /\ {Cfg.vs1Min, Cfg.vs2Min, Cfg.vs3Min, Cfg.vs5Min} \subseteq Nat \ {0, 1}
  /\ 0 < Eth.dust /\ Eth.dust < Eth.significant /\ Eth.significant < Eth.funding
  /\ Eth.funding < Eth.structuring /\ Eth.structuring < Eth.half /\ Eth.cent > 0

NotTriggered == "NOT_TRIGGERED"
RuleIds == {"001", "002", "003", "004", "005", "NEW-A", "NEW-B",
            "FP1", "FP2", "FP3", "FP4", "FP5",
            "POST-1", "POST-2", "POST-3", "POST-4", "POST-5", "POST-6", "POST-7",
            "VS-1", "VS-2", "VS-3", "VS-4", "VS-5", "VS-6",
            "EXIT-1", "EXIT-2", "EXIT-4"}

Hour == 60
Day == 24 * Hour

Known(feature) == feature # None
Above(r, percent) == Known(r) /\ r[1] * 100 > percent * r[2]
Reaches(r, percent) == Known(r) /\ r[1] * 100 >= percent * r[2]
Below(r, percent) == Known(r) /\ r[1] * 100 < percent * r[2]
\* The variation, of which cv2 is the square, is at most (less than) percent.
VariesAtMost(cv2, percent) == Known(cv2) /\ cv2[1] * 10000 <= percent * percent * cv2[2]
VariesLess(cv2, percent) == Known(cv2) /\ cv2[1] * 10000 < percent * percent * cv2[2]

\* The severity of the first condition that holds, from the most severe down.
Graded(critical, high, medium, low) ==
  IF critical THEN "CRITICAL"
  ELSE IF high THEN "HIGH"
  ELSE IF medium THEN "MEDIUM"
  ELSE IF low THEN "LOW" ELSE NotTriggered

----------------------------------------------------------------------------
(* Before the deployment. *)

rule_001_burner_wallet(fv) ==
  Graded(FALSE, FALSE, FALSE, Known(fv.warmup) /\ fv.warmup <= Cfg.burner)

rule_002_scripted_funding(fv) ==
  Graded(FALSE, VariesAtMost(fv.fundingCv, Cfg.cvHigh), VariesAtMost(fv.fundingCv, Cfg.cvMedium), FALSE)

rule_003_dry_run(fv) ==
  Graded(FALSE, fv.dryRuns >= Cfg.dryRunsHigh /\ fv.dryRuns >= Cfg.dryRunsMedium,
         fv.dryRuns >= Cfg.dryRunsMedium, FALSE)

rule_004_deployment_volume(fv) ==
  Graded(FALSE, fv.deployments >= Cfg.deploymentsHigh /\ fv.deployments >= Cfg.deploymentsMedium,
         fv.deployments >= Cfg.deploymentsMedium, FALSE)

\* Of n gaps with counts c1, c2... of equal length, 2 to the power of n times
\* the entropy is n^n / (c1^c1 * c2^c2 * ...); the feature is <<n, the divisor>>.
rule_005_scripted_timing(fv) ==
  LET regular(n, repeats) == n^n < Cfg.entropyBuckets^n * repeats
  IN  Graded(FALSE, FALSE, FALSE, Known(fv.nonceEntropy) /\ regular(fv.nonceEntropy[1], fv.nonceEntropy[2]))

rule_new_a_single_deploy(fv) ==
  Graded(FALSE, FALSE, fv.deployments = 1 /\ Known(fv.warmup) /\ fv.warmup <= Cfg.newAWarmup, FALSE)

rule_new_b_ownership_transfer(fv) == Graded(FALSE, fv.newOwners # {}, FALSE, FALSE)

----------------------------------------------------------------------------
(* Funding provenance. *)

rule_fp1_mixer_first_inbound(fv) ==
  Graded(FALSE, fv.firstInbound = "MIXER", fv.firstInbound = "FRESH_WALLET", FALSE)

rule_fp2_high_hop_count(fv) ==
  Graded(Known(fv.hops) /\ fv.hops >= 6, Known(fv.hops) /\ fv.hops >= 4, FALSE, FALSE)

rule_fp3_fresh_capital(fv) ==
  Graded(Reaches(fv.freshCapital, 80), Reaches(fv.freshCapital, 50), FALSE, FALSE)

rule_fp4_shared_funders(fv) == Graded(fv.sharedFunders, FALSE, FALSE, FALSE)

rule_fp5_structuring(fv) ==
  LET structuring == /\ Known(fv.seedMedian)
                     /\ fv.seedMedian[1] < Eth.structuring * fv.seedMedian[2]
                     /\ fv.seedCount > Cfg.structuringCount
      undersized == Known(fv.seedGas) /\ fv.seedGas[1] < Cfg.undersized * fv.seedGas[2]
  IN  Graded(FALSE, FALSE, structuring \/ undersized, FALSE)

----------------------------------------------------------------------------
(* After the exploit. *)

rule_post1_withdrawal_latency(fv) ==
  Graded(Known(fv.withdrawalLatency) /\ fv.withdrawalLatency < Hour,
         Known(fv.withdrawalLatency) /\ fv.withdrawalLatency < Day, FALSE, FALSE)

rule_post2_treasury_sweep(fv) ==
  LET n == fv.withdrawals
      quick == ~Known(fv.withdrawalSpan) \/ fv.withdrawalSpan < Day
      few == n <= 2 /\ Above(fv.drain, 90)
  IN  IF n = 0 THEN NotTriggered
      ELSE Graded(few /\ quick, few \/ (n <= 5 /\ Above(fv.drain, 80)), Above(fv.drain, 90), FALSE)

rule_post3_fragmentation(fv) ==
  Graded(FALSE, fv.outflows >= 4 /\ (VariesLess(fv.outflowCv, 10) \/ Above(fv.outflowRound, 80)),
         FALSE, FALSE)

rule_post4_destination_diversity(fv) ==
  Graded(fv.suspiciousDests >= 10 /\ Above(fv.freshDests, 60),
         fv.suspiciousDests >= 7, fv.suspiciousDests >= 4, FALSE)

rule_post5_exchange_concentration(fv) ==
  Graded(fv.mixerContact, Above(fv.concentration, 90), FALSE, FALSE)

rule_post6_swap_before_cashout(fv) ==
  Graded(fv.swapDetected /\ Known(fv.swapLatency) /\ fv.swapLatency < Hour,
         fv.swapDetected, FALSE, FALSE)

rule_post7_retained_proceeds(fv) ==
  Graded(Below(fv.retained, 1), Below(fv.retained, 10), FALSE, FALSE)

----------------------------------------------------------------------------
(* Value-transfer semantics. *)

rule_vs1_repeated_values(fv) ==
  LET enough == fv.inboundCount >= Cfg.vs1Min
  IN  Graded(FALSE, enough /\ Reaches(fv.modeFreq, Cfg.vs1High),
             enough /\ Reaches(fv.modeFreq, Cfg.vs1Medium), FALSE)

rule_vs2_round_funding(fv) ==
  LET enough == fv.preDeployCount >= Cfg.vs2Min
  IN  Graded(FALSE, enough /\ Reaches(fv.roundFunding, Cfg.vs2High),
             enough /\ Reaches(fv.roundFunding, Cfg.vs2Medium), FALSE)

rule_vs3_gas_anomaly(fv) ==
  LET enough == fv.gasCount >= Cfg.vs3Min
  IN  Graded(FALSE, enough /\ VariesLess(fv.gasCv, Cfg.vs3CvHigh),
             enough /\ Reaches(fv.roundGas, Cfg.vs3RoundMedium), FALSE)

rule_vs4_dusting(fv) ==
  Graded(FALSE, fv.outDust # 0 /\ fv.preCashoutDust >= Cfg.vs4PreHigh,
         fv.outDust # 0 /\ fv.outDust >= Cfg.vs4LifetimeMedium, FALSE)

rule_vs5_cross_deploy_consistency(fv) ==
  LET enough == fv.deployments >= Cfg.vs5Min
  IN  Graded(FALSE, enough /\ Reaches(fv.seedJaccard, Cfg.vs5High),
             enough /\ Reaches(fv.seedJaccard, Cfg.vs5Medium), FALSE)

\* The multipliers of the settings are percentages here.
rule_vs6_extraction_multiplier(fv) ==
  LET drained == Known(fv.lpNet) /\ fv.lpNet > 0
      monopoly == /\ Reaches(fv.tokenFraction, Cfg.vs6TokenHigh)
                  /\ Known(fv.mintToLp) /\ fv.mintToLp < Cfg.vs6Rush
  IN  IF ~Known(fv.multiplier) THEN NotTriggered
      ELSE Graded(\/ Reaches(fv.multiplier, Cfg.vs6Critical)
                  \/ drained /\ Reaches(fv.multiplier, Cfg.vs6High),
                  (drained /\ Reaches(fv.multiplier, Cfg.vs6Medium)) \/ monopoly,
                  Reaches(fv.multiplier, Cfg.vs6Medium), FALSE)

----------------------------------------------------------------------------
(* Exit and dormancy. *)

\* The extractor rounds the silence to tenths of a day, an age to hundredths.
rule_exit1_silence(fv) ==
  LET drained == Known(fv.silence) /\ Below(fv.retained, 10)
  IN  Graded(FALSE,
             drained /\ fv.silence > 300 /\ Below(fv.retained, 1) /\ Above(fv.silenceRatio, 50),
             drained /\ fv.silence > 70, FALSE)

rule_exit2_reactivation(fv) ==
  Graded(fv.dormancies >= 2, fv.dormancies = 1 /\ fv.reactivation >= 2, fv.dormancies = 1, FALSE)

rule_exit4_fresh_migration(fv) ==
  LET age == fv.youngestDest
  IN  Graded(Known(age) /\ age < 100, Known(age) /\ age < 700, FALSE, FALSE)

evaluate_all(fv) ==
  [id \in RuleIds |->
    CASE id = "001" -> rule_001_burner_wallet(fv)
      [] id = "002" -> rule_002_scripted_funding(fv)
      [] id = "003" -> rule_003_dry_run(fv)
      [] id = "004" -> rule_004_deployment_volume(fv)
      [] id = "005" -> rule_005_scripted_timing(fv)
      [] id = "NEW-A" -> rule_new_a_single_deploy(fv)
      [] id = "NEW-B" -> rule_new_b_ownership_transfer(fv)
      [] id = "FP1" -> rule_fp1_mixer_first_inbound(fv)
      [] id = "FP2" -> rule_fp2_high_hop_count(fv)
      [] id = "FP3" -> rule_fp3_fresh_capital(fv)
      [] id = "FP4" -> rule_fp4_shared_funders(fv)
      [] id = "FP5" -> rule_fp5_structuring(fv)
      [] id = "POST-1" -> rule_post1_withdrawal_latency(fv)
      [] id = "POST-2" -> rule_post2_treasury_sweep(fv)
      [] id = "POST-3" -> rule_post3_fragmentation(fv)
      [] id = "POST-4" -> rule_post4_destination_diversity(fv)
      [] id = "POST-5" -> rule_post5_exchange_concentration(fv)
      [] id = "POST-6" -> rule_post6_swap_before_cashout(fv)
      [] id = "POST-7" -> rule_post7_retained_proceeds(fv)
      [] id = "VS-1" -> rule_vs1_repeated_values(fv)
      [] id = "VS-2" -> rule_vs2_round_funding(fv)
      [] id = "VS-3" -> rule_vs3_gas_anomaly(fv)
      [] id = "VS-4" -> rule_vs4_dusting(fv)
      [] id = "VS-5" -> rule_vs5_cross_deploy_consistency(fv)
      [] id = "VS-6" -> rule_vs6_extraction_multiplier(fv)
      [] id = "EXIT-1" -> rule_exit1_silence(fv)
      [] id = "EXIT-2" -> rule_exit2_reactivation(fv)
      [] id = "EXIT-4" -> rule_exit4_fresh_migration(fv)]
===============================================================================
