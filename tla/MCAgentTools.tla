---------------------------- MODULE MCAgentTools ----------------------------
EXTENDS AgentTools, MCAgentGraph, MCTracing

CONSTANTS w1, w2, funder, mixer, router, contract, victim

SomeAddr == {w1, w2, funder, mixer, router, contract, victim}
SomeEntities ==
  [x \in SomeAddr |-> CASE x = mixer -> "MIXER" [] x = router -> "DEX" [] OTHER -> None]

----------------------------------------------------------------------------
(* settings/base.py *)

\* The default thresholds of the rug-pull rules; the counts are scaled down to
\* short histories.
ScaledCfg ==
  [burner |-> 30, cvHigh |-> 10, cvMedium |-> 25, dryRunsHigh |-> 2, dryRunsMedium |-> 1,
   deploymentsHigh |-> 3, deploymentsMedium |-> 2, entropyBuckets |-> 8, newAWarmup |-> Hour,
   structuringCount |-> 1, undersized |-> 3, vs1High |-> 60, vs1Medium |-> 40, vs1Min |-> 2,
   vs2High |-> 60, vs2Medium |-> 40, vs2Min |-> 2, vs3CvHigh |-> 5, vs3RoundMedium |-> 90,
   vs3Min |-> 2, vs4PreHigh |-> 1, vs4LifetimeMedium |-> 1, vs5High |-> 70, vs5Medium |-> 50,
   vs5Min |-> 2, vs6Critical |-> 5000, vs6High |-> 1000, vs6Medium |-> 300,
   vs6TokenHigh |-> 80, vs6Rush |-> Hour]
\* Amounts in the order the code has them.
ScaledEth == [dust |-> 2, significant |-> 3, funding |-> 4, structuring |-> 6, half |-> 10,
              cent |-> 1, tenth |-> 3, gwei |-> 10]
\* The AML thresholds scaled down alike, times in minutes.
ScaledAml == [large |-> 2, rapid |-> 2, rapidWindow |-> 5, fanout |-> 2, dormancy |-> 18,
              multiplier |-> 30, window |-> 10, roundMin |-> 2, newAge |-> Day]
SomeRoundSums == {10, 20}

----------------------------------------------------------------------------
(* Ledgers *)

Tx(from, to, value, ts, kind) ==
  [from |-> from, to |-> to, value |-> value, ts |-> ts, kind |-> kind, gas |-> 10, cost |-> 0,
   err |-> FALSE, sel |-> "none", like |-> FALSE, creates |-> None, owner |-> None]
Pay(from, to, value, ts) == Tx(from, to, value, ts, "normal")
Withdraw(from, to, value, ts) == [Tx(from, to, value, ts, "internal") EXCEPT !.gas = 0]
Deploy(from, made, ts) == [Tx(from, None, 0, ts, "normal") EXCEPT !.creates = made]

\* One funder pays both wallets, one of them by a contract; a mixer pays both,
\* the first deploys, pays into its contract and takes out again, the second
\* passes on at once what it has got.
SharedLedger ==
  {Pay(funder, w1, 12, 1), Pay(mixer, w1, 10, 20), Withdraw(funder, w2, 45, 21),
   Pay(w2, victim, 20, 22), Pay(w2, router, 10, 24), Pay(mixer, w2, 10, 30),
   Deploy(w1, contract, 35), Pay(w1, contract, 20, 40), Withdraw(contract, w1, 20, 50)}
Wallets2 == {w1, w2}

----------------------------------------------------------------------------
(* Findings *)

\* Profiles of one wallet that, between them, set off all seven rules, each at
\* each of its severities.
Burst(n, value, ts) == {Pay(w1, IF i % 2 = 0 THEN w2 ELSE victim, value, ts + i) : i \in 1..n}
SomeProfiles ==
  {{}, Burst(1, 2, 100), Burst(1, 25, 100), Burst(2, 10, 100),
   {Pay(funder, w1, 5, 1), Pay(funder, w1, 5, 12)} \cup Burst(6, 20, 50),
   {Pay(funder, w1, 5, 1)} \cup Burst(3, 1, 22),
   {Pay(funder, w1, 5, 1), Pay(funder, w1, 5, 20)}, {Pay(funder, w1, 5, 1), Pay(funder, w1, 5, 40)}}
FoundByRules == {ForensicsReport(w1, p, Day) : p \in SomeProfiles}

ASSUME FindingsOfEverySeverity ==
  \A p \in {<<"RULE-001", "HIGH">>, <<"RULE-001", "CRITICAL">>, <<"RULE-002", "HIGH">>,
            <<"RULE-002", "CRITICAL">>, <<"RULE-003", "HIGH">>, <<"RULE-004", "HIGH">>,
            <<"RULE-004", "CRITICAL">>, <<"RULE-005", "HIGH">>, <<"RULE-006", "MEDIUM">>,
            <<"RULE-006", "HIGH">>, <<"RULE-007", "MEDIUM">>, <<"RULE-007", "HIGH">>} :
    \E profile \in SomeProfiles : AmlResults(w1, profile, Day)[p[1]] = p[2]

\* Each of the lasting alarms is on when some later transaction changes the
\* profile of its wallet.
ASSUME LastingAlarmsMeetChanges ==
  LET Own(w) == {t \in SharedLedger : t.kind = "normal" /\ w \in {t.from, t.to}}
      ProfileAt(w, time) == Page({t \in Own(w) : t.ts <= time})
  IN  \A id \in LastingRules : \E w \in Wallets2 : \E t, u \in Own(w) :
        /\ t.ts < u.ts /\ ProfileAt(w, t.ts) # ProfileAt(w, u.ts)
        /\ AmlResults(w, ProfileAt(w, t.ts), Now)[id] # NotTriggered
===============================================================================
