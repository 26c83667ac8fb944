------------------------- MODULE EtherscanClientProofs -------------------------
(***************************************************************************)
(* What a caller of EtherscanClient is told is justified by the answers,   *)
(* for every number of requests, retry budget, rate and set of answers.    *)
(* Time and the bucket play no part: neither appears in the invariant.     *)
(***************************************************************************)
EXTENDS EtherscanClient, TLAPS

LogTypes ==
  /\ pc \in [Requests -> Points]
  /\ outcome \in [Requests -> Outcomes \cup {"none"}]
  /\ log \in [Requests -> Seq(Answers)]

\* All answers so far deserve a retry.
Undecided(q) == \A k \in 1..Len(log[q]) : log[q][k] \in Retryable

\* Where a request stands tells what its log may hold.
Progress(q) ==
  /\ pc[q] \in {"idle", "acquire"} => log[q] = <<>>
  /\ pc[q] \in {"attempt", "inFlight"} => Len(log[q]) < MaxRetries
  /\ pc[q] = "backoff" => Len(log[q]) \in 1..MaxRetries
  /\ pc[q] \in {"attempt", "inFlight", "backoff"} => Undecided(q)
  /\ pc[q] # "done" => outcome[q] = "none"

\* The part of AnswersDecide about one request.
Decided(q) ==
  LET answers == log[q]
  IN  /\ Len(answers) > 0 => \A k \in 1..Len(answers) - 1 : answers[k] \in Retryable
      /\ outcome[q] = "exhausted" =>
           Len(answers) = MaxRetries /\ answers[MaxRetries] \in Retryable
      /\ outcome[q] \in Told =>
           outcome[q] = Meaning(q, answers[Len(answers)])

ClientInv == LogTypes /\ \A q \in Requests : Progress(q) /\ Decided(q)

\* _single_attempt and _extract_list give one of five results.
LEMMA MeaningType ==
  ASSUME NEW q, NEW a
  PROVE  Meaning(q, a) \in Told
BY DEF Meaning, Told

LEMMA InitClient == Init => ClientInv
BY DEF Init, ClientInv, LogTypes, Progress, Decided, Undecided, Points, Outcomes, Told

\* A request whose coroutine did not move keeps its part of the invariant.
LEMMA Unmoved ==
  ASSUME NEW q \in Requests, Progress(q), Decided(q),
         pc'[q] = pc[q], log'[q] = log[q], outcome'[q] = outcome[q]
  PROVE  Progress(q)' /\ Decided(q)'
BY DEF Progress, Decided, Undecided, Meaning, Told

\* One attempt's answer: the only step that writes the log.
LEMMA ReceiveKeepsInv ==
  ASSUME ClientAssumption, ClientInv, NEW q \in Requests, NEW a \in Answers, Receive(q, a)
  PROVE  ClientInv'
<1> USE DEF ClientInv, LogTypes
<1>1. /\ pc[q] = "inFlight" /\ outcome[q] = "none"
      /\ Len(log[q]) < MaxRetries /\ Len(log[q]) \in Nat /\ log[q] \in Seq(Answers)
      /\ \A k \in 1..Len(log[q]) : log[q][k] \in Retryable
  BY DEF Receive, Progress, Undecided
<1>2. log'[q] = Append(log[q], a) /\ log' \in [Requests -> Seq(Answers)]
  BY <1>1 DEF Receive
<1>3. /\ Len(log'[q]) = Len(log[q]) + 1
      /\ log'[q][Len(log'[q])] = a
      /\ \A k \in 1..Len(log[q]) : log'[q][k] = log[q][k]
  BY <1>1, <1>2
<1>4. MaxRetries \in Nat
  BY DEF ClientAssumption
<1>5. CASE a \in Retryable
  <2>1. pc' = [pc EXCEPT ![q] = "backoff"] /\ outcome' = outcome
    BY <1>5 DEF Receive, Goto
  <2>2. LogTypes'
    BY <1>2, <2>1 DEF Points
  <2>3. \A k \in 1..Len(log'[q]) : log'[q][k] \in Retryable
    BY <1>1, <1>3, <1>5
  <2>4. Progress(q)'
    BY <1>1, <1>3, <1>4, <2>1, <2>3 DEF Progress, Undecided
  <2>5. Decided(q)'
    BY <1>1, <1>3, <2>1, <2>3 DEF Decided, Told
  <2>6. ASSUME NEW r \in Requests, r # q  PROVE Progress(r)' /\ Decided(r)'
    <3>1. pc'[r] = pc[r] /\ log'[r] = log[r] /\ outcome'[r] = outcome[r]
      BY <2>1, <2>6 DEF Receive
    <3> QED BY <3>1, Unmoved
  <2> QED BY <2>2, <2>4, <2>5, <2>6
<1>6. CASE a \notin Retryable
  <2>1. /\ pc' = [pc EXCEPT ![q] = "done"]
        /\ outcome' = [outcome EXCEPT ![q] = Meaning(q, a)]
    BY <1>6 DEF Receive, End, Goto
  <2>2. LogTypes'
    BY <1>2, <2>1, MeaningType DEF Points, Outcomes
  <2>3. outcome'[q] = Meaning(q, a) /\ pc'[q] = "done"
    BY <2>1
  <2>4. Progress(q)'
    BY <2>3 DEF Progress
  <2>5. outcome'[q] # "exhausted"
    BY <2>3, MeaningType DEF Told
  <2>6. \A k \in 1..Len(log'[q]) - 1 : log'[q][k] \in Retryable
    BY <1>1, <1>3
  <2>7. Decided(q)'
    BY <1>3, <2>3, <2>5, <2>6 DEF Decided, Meaning
  <2>8. ASSUME NEW r \in Requests, r # q  PROVE Progress(r)' /\ Decided(r)'
    <3>1. pc'[r] = pc[r] /\ log'[r] = log[r] /\ outcome'[r] = outcome[r]
      BY <2>1, <2>8 DEF Receive
    <3> QED BY <3>1, Unmoved
  <2> QED BY <2>2, <2>4, <2>7, <2>8
<1> QED BY <1>5, <1>6

\* A step that moves q and leaves the logs alone.
LEMMA MoveKeepsInv ==
  ASSUME ClientInv, NEW q \in Requests,
         UNCHANGED log, pc' \in [Requests -> Points],
         outcome' \in [Requests -> Outcomes \cup {"none"}],
         \A r \in Requests \ {q} : pc'[r] = pc[r] /\ outcome'[r] = outcome[r],
         Progress(q)', Decided(q)'
  PROVE  ClientInv'
<1>1. ASSUME NEW r \in Requests \ {q}  PROVE Progress(r)' /\ Decided(r)'
  BY <1>1, Unmoved DEF ClientInv
<1> QED BY <1>1 DEF ClientInv, LogTypes

\* Every step keeps the invariant.
LEMMA NextKeepsInv ==
  ASSUME ClientAssumption, ClientInv, [Next]_vars
  PROVE  ClientInv'
<1>1. CASE UNCHANGED vars \/ Tick
  <2>1. UNCHANGED <<pc, log, outcome>>
    BY <1>1 DEF vars, Tick
  <2> QED BY <2>1, Unmoved DEF ClientInv, LogTypes
<1>2. ASSUME NEW q \in Requests, Enter(q)  PROVE ClientInv'
  <2>1. /\ pc[q] = "idle" /\ pc' = [pc EXCEPT ![q] = "acquire"]
        /\ UNCHANGED <<log, outcome>>
    BY <1>2 DEF Enter, Goto
  <2>2. Progress(q)' /\ Decided(q)'
    BY <2>1 DEF ClientInv, LogTypes, Progress, Decided, Meaning, Told
  <2> QED BY <2>1, <2>2, MoveKeepsInv DEF ClientInv, LogTypes, Points
<1>3. ASSUME NEW q \in Requests, Acquire(q)  PROVE ClientInv'
  <2>1. /\ pc[q] = "acquire" /\ pc' = [pc EXCEPT ![q] = "attempt"]
        /\ UNCHANGED <<log, outcome>>
    BY <1>3 DEF Acquire, Goto
  <2>2. Progress(q)' /\ Decided(q)'
    BY <2>1 DEF ClientInv, LogTypes, Progress, Decided, Undecided, Meaning, Told, ClientAssumption
  <2> QED BY <2>1, <2>2, MoveKeepsInv DEF ClientInv, LogTypes, Points
<1>4. ASSUME NEW q \in Requests, Send(q)  PROVE ClientInv'
  <2>1. /\ pc[q] = "attempt" /\ pc' = [pc EXCEPT ![q] = "inFlight"]
        /\ UNCHANGED <<log, outcome>>
    BY <1>4 DEF Send, Goto
  <2>2. Progress(q)' /\ Decided(q)'
    BY <2>1 DEF ClientInv, LogTypes, Progress, Decided, Undecided, Meaning, Told
  <2> QED BY <2>1, <2>2, MoveKeepsInv DEF ClientInv, LogTypes, Points
<1>5. ASSUME NEW q \in Requests, NEW a \in Answers, Receive(q, a)  PROVE ClientInv'
  BY <1>5, ReceiveKeepsInv
<1>6. ASSUME NEW q \in Requests, Retry(q)  PROVE ClientInv'
  <2>1. pc[q] = "backoff" /\ UNCHANGED log
    BY <1>6 DEF Retry
  <2>2. Len(log[q]) \in 1..MaxRetries /\ Undecided(q) /\ outcome[q] = "none"
    BY <2>1 DEF ClientInv, Progress
  <2>3. CASE Len(log[q]) < MaxRetries
    <3>1. pc' = [pc EXCEPT ![q] = "attempt"] /\ UNCHANGED outcome
      BY <1>6, <2>3 DEF Retry, Goto
    <3>2. Progress(q)' /\ Decided(q)'
      BY <2>1, <2>2, <2>3, <3>1 DEF ClientInv, LogTypes, Progress, Decided, Undecided, Meaning, Told
    <3> QED BY <2>1, <3>1, <3>2, MoveKeepsInv DEF ClientInv, LogTypes, Points
  <2>4. CASE ~(Len(log[q]) < MaxRetries)
    <3>1. /\ pc' = [pc EXCEPT ![q] = "done"]
          /\ outcome' = [outcome EXCEPT ![q] = "exhausted"]
      BY <1>6, <2>4 DEF Retry, End, Goto
    <3>2. Len(log[q]) = MaxRetries
      BY <2>2, <2>4 DEF ClientAssumption
    <3>3. Progress(q)' /\ Decided(q)'
      BY <2>1, <2>2, <3>1, <3>2 DEF ClientInv, LogTypes, Progress, Decided, Undecided, Told
    <3> QED BY <2>1, <3>1, <3>3, MoveKeepsInv DEF ClientInv, LogTypes, Points, Outcomes
  <2> QED BY <2>3, <2>4
<1>7. ASSUME NEW q \in Requests, Cancel(q)  PROVE ClientInv'
  <2>1. /\ pc' = [pc EXCEPT ![q] = "done"]
        /\ outcome' = [outcome EXCEPT ![q] = "cancelled"]
        /\ UNCHANGED log
    BY <1>7 DEF Cancel, End, Goto
  <2>2. Progress(q)' /\ Decided(q)'
    BY <2>1 DEF ClientInv, LogTypes, Progress, Decided, Undecided, Told
  <2> QED BY <2>1, <2>2, MoveKeepsInv DEF ClientInv, LogTypes, Points, Outcomes
<1> QED BY <1>1, <1>2, <1>3, <1>4, <1>5, <1>6, <1>7 DEF Next, Request

\* No request reports anything but what the service answered, and none gives
\* up before its retries are used up.
THEOREM AnswersJustified == Spec => []AnswersDecide
<1>1. ClientInv => AnswersDecide
  BY DEF ClientInv, AnswersDecide, Decided
<1> QED BY InitClient, NextKeepsInv, ClientAssumption, <1>1, PTL DEF Spec
-------------------------------------------------------------------------------
(* Time and the bucket *)

\* Whatever was admitted in the last k ticks is in the bucket still, except for
\* what leaked after the first of them.
BucketInv ==
  /\ level \in 0..Burst * Cost
  /\ admitted \in [Spans -> Nat]
  /\ \A k \in Spans : Cost * admitted[k] <= level + (k - 1)

TimerInv == timer \in [Requests -> 0..Backoff * 2^(MaxRetries - 1)]

LogFits == \A q \in Requests : Len(log[q]) <= MaxRetries

LEMMA BucketInit == Init => BucketInv
<1> SUFFICES ASSUME Init PROVE BucketInv
  OBVIOUS
<1>1. Burst * Cost \in Nat /\ Cost * 0 = 0
  BY ClientAssumption DEF ClientAssumption
<1>2. QED
  BY <1>1, ClientAssumption DEF Init, BucketInv, Spans, ClientAssumption

\* A token fills the bucket by as much as it adds to every span; a tick drains
\* one unit, and each span now begins one tick earlier.
LEMMA BucketStep == BucketInv /\ [Next]_vars => BucketInv'
<1> SUFFICES ASSUME BucketInv, [Next]_vars PROVE BucketInv'
  OBVIOUS
<1>1. Cost \in Nat /\ Second \in Nat /\ Burst * Cost \in Nat /\ level \in Nat /\ Spans \subseteq Nat
  BY ClientAssumption DEF ClientAssumption, BucketInv, Spans
<1>2. ASSUME NEW q \in Requests, Acquire(q) PROVE BucketInv'
  <2>1. /\ level + Cost <= Burst * Cost /\ level' = level + Cost
        /\ admitted' = [k \in Spans |-> admitted[k] + 1]
    BY <1>2 DEF Acquire, Count
  <2>2. ASSUME NEW k \in Spans PROVE Cost * admitted'[k] <= level' + (k - 1)
    <3>1. admitted[k] \in Nat /\ admitted'[k] = admitted[k] + 1 /\ k \in Nat
      BY <1>1, <2>1 DEF BucketInv
    <3>2. Cost * (admitted[k] + 1) = Cost * admitted[k] + Cost /\ Cost * admitted[k] \in Nat
      BY <1>1, <3>1
    <3>3. Cost * admitted[k] <= level + (k - 1)
      BY DEF BucketInv
    <3>4. QED
      BY <1>1, <2>1, <3>1, <3>2, <3>3
  <2>3. QED
    BY <1>1, <2>1, <2>2 DEF BucketInv
<1>3. CASE Tick
  <2>1. /\ level' = IF level > 0 THEN level - 1 ELSE 0
        /\ admitted' = [k \in Spans |-> IF k = 1 THEN 0 ELSE admitted[k - 1]]
    BY <1>3 DEF Tick, Slide
  <2>2. \A k \in Spans : k # 1 => k - 1 \in Spans
    BY <1>1 DEF Spans
  <2>3. ASSUME NEW k \in Spans PROVE Cost * admitted'[k] <= level' + (k - 1)
    <3>1. CASE k = 1
      <4>1. Cost * admitted'[k] = 0
        BY <1>1, <2>1, <3>1
      <4>2. QED
        BY <1>1, <2>1, <3>1, <4>1
    <3>2. CASE k # 1
      <4>1. Cost * admitted[k - 1] <= level + (k - 1 - 1) /\ admitted'[k] = admitted[k - 1]
        BY <2>1, <2>2, <3>2 DEF BucketInv
      <4>2. Cost * admitted[k - 1] \in Nat
        BY <1>1, <2>2, <3>2 DEF BucketInv
      <4>3. QED
        BY <1>1, <2>1, <4>1, <4>2
    <3>3. QED
      BY <3>1, <3>2
  <2>4. admitted' \in [Spans -> Nat]
    BY <2>1, <2>2 DEF BucketInv
  <2>5. QED
    BY <1>1, <2>1, <2>3, <2>4 DEF BucketInv
<1>4. CASE UNCHANGED <<level, admitted>>
  BY <1>4 DEF BucketInv
<1>5. ASSUME NEW q \in Requests, Enter(q) \/ Send(q) \/ (\E a \in Answers : Receive(q, a)) \/ Retry(q) \/ Cancel(q)
      PROVE  UNCHANGED <<level, admitted>>
  BY <1>5 DEF Enter, Send, Receive, Retry, Cancel
<1>6. QED
  BY <1>2, <1>3, <1>4, <1>5 DEF Next, Request, vars

\* However callers queue, back off and cancel, no stretch of up to a second
\* admits more than a full bucket and what leaks meanwhile.
THEOREM BucketHolds == Spec => []BucketBounds
<1>1. BucketInv => BucketBounds
  <2> SUFFICES ASSUME BucketInv, NEW k \in Spans
               PROVE  Cost * admitted[k] <= Burst * Cost + (k - 1)
    BY DEF BucketBounds
  <2>1. Burst * Cost \in Nat /\ k \in Nat /\ Cost * admitted[k] \in Nat
    BY ClientAssumption DEF ClientAssumption, BucketInv, Spans
  <2>2. QED
    BY <2>1 DEF BucketInv
<1>2. QED
  BY <1>1, BucketInit, BucketStep, PTL DEF Spec

\* The k-th backoff doubles the one before; the longest is the last one's.
LEMMA BackoffBound ==
  ASSUME NEW n \in 0..MaxRetries - 1
  PROVE  /\ Backoff * 2^n \in 0..Backoff * 2^(MaxRetries - 1)
         /\ Backoff * 2^(MaxRetries - 1) \in Nat
<1> DEFINE m == MaxRetries - 1
<1>1. Backoff \in Nat /\ m \in 0..4 /\ n \in 0..4 /\ n <= m
  BY ClientAssumption DEF ClientAssumption
<1>2. 2^0 = 1 /\ 2^1 = 2 /\ 2^2 = 4 /\ 2^3 = 8 /\ 2^4 = 16
  OBVIOUS
<1> HIDE DEF m
<1>3. 2^n \in Nat /\ 2^m \in Nat /\ 2^n <= 2^m
  <2>1. \A k \in 0..4 : k = 0 \/ k = 1 \/ k = 2 \/ k = 3 \/ k = 4
    OBVIOUS
  <2>2. ASSUME NEW k \in 0..4
        PROVE  2^k = IF k = 0 THEN 1 ELSE IF k = 1 THEN 2 ELSE IF k = 2 THEN 4
                     ELSE IF k = 3 THEN 8 ELSE 16
    <3>1. CASE k = 0
      BY <1>2, <3>1
    <3>2. CASE k = 1
      BY <1>2, <3>2
    <3>3. CASE k = 2
      BY <1>2, <3>3
    <3>4. CASE k = 3
      BY <1>2, <3>4
    <3>5. CASE k = 4
      BY <1>2, <3>5
    <3>6. QED
      BY <3>1, <3>2, <3>3, <3>4, <3>5
  <2>3. /\ 2^n = IF n = 0 THEN 1 ELSE IF n = 1 THEN 2 ELSE IF n = 2 THEN 4 ELSE IF n = 3 THEN 8 ELSE 16
        /\ 2^m = IF m = 0 THEN 1 ELSE IF m = 1 THEN 2 ELSE IF m = 2 THEN 4 ELSE IF m = 3 THEN 8 ELSE 16
    BY <1>1, <2>2
  <2>4. QED
    BY <1>1, <2>3
<1>4. \A x, y \in Nat : x <= y => Backoff * x \in Nat /\ Backoff * y \in Nat /\ Backoff * x <= Backoff * y
  BY <1>1
<1>5. QED
  BY <1>3, <1>4 DEF m

LEMMA TimerStep ==
  ASSUME ClientInv, TimerInv, [Next]_vars PROVE TimerInv'
<1> DEFINE last == Backoff * 2^(MaxRetries - 1)
<1> SUFFICES timer' \in [Requests -> 0..last]
  BY DEF TimerInv
<1>1. last \in Nat
  <2>1. 0 \in 0..MaxRetries - 1
    BY ClientAssumption DEF ClientAssumption
  <2>2. QED
    BY <2>1, BackoffBound
<1>2. timer \in [Requests -> 0..last]
  BY DEF TimerInv
<1>3. ASSUME NEW q \in Requests, NEW a \in Answers, Receive(q, a) PROVE timer' \in [Requests -> 0..last]
  <2>1. Len(log[q]) \in 0..MaxRetries - 1
    <3>1. log[q] \in Seq(Answers) /\ Len(log[q]) < MaxRetries
      BY <1>3 DEF Receive, ClientInv, LogTypes, Progress
    <3>2. QED
      BY <3>1, ClientAssumption DEF ClientAssumption
  <2>2. Backoff * 2^Len(log[q]) \in 0..last
    BY <2>1, BackoffBound
  <2> HIDE DEF last
  <2>3. QED
    BY <1>2, <1>3, <2>2 DEF Receive
<1> HIDE DEF last
<1>4. CASE Tick
  <2>1. timer' = [q \in Requests |-> IF timer[q] > 0 THEN timer[q] - 1 ELSE 0]
    BY <1>4 DEF Tick
  <2>2. ASSUME NEW q \in Requests
        PROVE  (IF timer[q] > 0 THEN timer[q] - 1 ELSE 0) \in 0..last
    <3>1. timer[q] \in 0..last
      BY <1>2
    <3>2. QED
      BY <1>1, <3>1
  <2>3. QED
    BY <2>1, <2>2
<1>5. ASSUME NEW q \in Requests, Cancel(q) PROVE timer' \in [Requests -> 0..last]
  BY <1>1, <1>2, <1>5 DEF Cancel
<1>6. ASSUME NEW q \in Requests, Enter(q) \/ Acquire(q) \/ Send(q) \/ Retry(q) PROVE timer' = timer
  BY <1>6 DEF Enter, Acquire, Send, Retry
<1>7. CASE UNCHANGED vars
  BY <1>2, <1>7 DEF vars
<1>8. CASE Next
  <2>1. ASSUME NEW q \in Requests, Enter(q) \/ Request(q) \/ Cancel(q)
        PROVE  timer' \in [Requests -> 0..last]
    BY <1>2, <1>3, <1>5, <1>6, <2>1 DEF Request
  <2>2. QED
    BY <1>4, <1>8, <2>1 DEF Next
<1>9. QED
  BY <1>7, <1>8

LEMMA LogStep ==
  ASSUME ClientInv, LogFits, [Next]_vars PROVE LogFits'
<1>1. ASSUME NEW q \in Requests, NEW a \in Answers, Receive(q, a) PROVE LogFits'
  <2>1. log[q] \in Seq(Answers) /\ Len(log[q]) < MaxRetries /\ MaxRetries \in Nat
    BY <1>1, ClientAssumption DEF Receive, ClientInv, LogTypes, Progress, ClientAssumption
  <2>2. log' = [log EXCEPT ![q] = Append(log[q], a)] /\ log \in [Requests -> Seq(Answers)]
    BY <1>1 DEF Receive, ClientInv, LogTypes
  <2>3. Len(Append(log[q], a)) <= MaxRetries
    BY <2>1
  <2>4. QED
    BY <2>2, <2>3 DEF LogFits
<1>2. CASE UNCHANGED log
  BY <1>2 DEF LogFits
<1>3. ASSUME NEW q \in Requests, Enter(q) \/ Acquire(q) \/ Send(q) \/ Retry(q) \/ Cancel(q) PROVE log' = log
  BY <1>3 DEF Enter, Acquire, Send, Retry, Cancel
<1>4. QED
  BY <1>1, <1>2, <1>3 DEF Next, Request, Tick, vars

\* The bucket never overflows, no request makes more than max_retries attempts
\* and none waits longer than its last backoff.
THEOREM ClientTypes == Spec => []TypeOK
<1>1. Init => TimerInv /\ LogFits
  <2>1. MaxRetries \in Nat /\ 0 \in 0..Backoff * 2^(MaxRetries - 1)
    <3>1. MaxRetries \in Nat /\ 0 \in 0..MaxRetries - 1
      BY ClientAssumption DEF ClientAssumption
    <3>2. QED
      BY <3>1, BackoffBound
  <2>2. QED
    BY <2>1 DEF Init, TimerInv, LogFits
<1>2. ASSUME ClientInv, BucketInv, TimerInv, LogFits PROVE TypeOK
  <2>1. \A q \in Requests : log[q] \in BoundedSeq(Answers, MaxRetries)
    <3> SUFFICES ASSUME NEW q \in Requests PROVE log[q] \in BoundedSeq(Answers, MaxRetries)
      OBVIOUS
    <3>1. /\ Len(log[q]) \in 0..MaxRetries
          /\ log[q] \in [1..Len(log[q]) -> Answers]
      <4>1. log[q] \in Seq(Answers) /\ MaxRetries \in Nat
        BY <1>2, ClientAssumption DEF ClientInv, LogTypes, ClientAssumption
      <4>2. QED
        BY <1>2, <4>1 DEF LogFits
    <3>2. QED
      BY <3>1 DEF BoundedSeq, SeqOf
  <2>2. log \in [Requests -> BoundedSeq(Answers, MaxRetries)]
    BY <1>2, <2>1 DEF ClientInv, LogTypes
  <2>3. QED
    BY <1>2, <2>2 DEF ClientInv, LogTypes, BucketInv, TimerInv, TypeOK
<1>3. QED
  BY <1>1, <1>2, InitClient, NextKeepsInv, ClientAssumption, BucketInit, BucketStep, TimerStep, LogStep, PTL
  DEF Spec

===============================================================================
