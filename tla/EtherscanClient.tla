---------------------------- MODULE EtherscanClient ----------------------------
(***************************************************************************)
(* Concurrent requests of EtherscanClient over one EtherscanRateLimiter.   *)
(* A request takes one token, then sends at most max_retries attempts,     *)
(* backing off after each failed one, and ends with data, an exception, or *)
(* its task's cancellation.                                                *)
(*                                                                         *)
(* Time advances in ticks in which the bucket leaks one unit, so that a    *)
(* token of Cost units comes back every Cost ticks: with the default 4.5   *)
(* requests per second a tick is 1/9 s, Cost = 2 and a second has 9 ticks. *)
(***************************************************************************)
EXTENDS Naturals, Sequences, SequencesExt

CONSTANTS Requests,     \* requests issued by all investigations
          Balances,     \* those that ask for a balance; the others for a list
          Answers,      \* what the service may answer or the network do
          MaxRetries,   \* EtherscanSettings.max_retries
          Backoff,      \* EtherscanSettings.retry_backoff_base, in ticks
          Burst, Cost,  \* RateLimiterSettings: tokens, and units of a token
          Second        \* ticks of a second

Retryable == {"transport", "status429", "status5xx", "rateMessage"}
Refusals == {"status4xx", "notJson", "apiError", "rateResult"}
Payloads == {"payload", "null", "odd", "noRecords"}

ASSUME ClientAssumption ==
  /\ Balances \subseteq Requests
  /\ Answers \subseteq Retryable \cup Refusals \cup Payloads \cup {"invalidAddress", "notObject"}
  /\ MaxRetries \in 1..5
  /\ Backoff \in Nat \ {0} /\ Burst \in Nat \ {0} /\ Cost \in Nat \ {0}
  /\ Second \in Nat \ {0}

VARIABLES level,    \* units in the bucket of aiolimiter, full at Burst * Cost
          pc,       \* point of each request's coroutine
          log,      \* answers of the attempts so far
          timer,    \* ticks left of the backoff
          outcome,  \* how the request ended
          admitted  \* tokens taken in the last k ticks, for each k up to Second

vars == <<level, pc, log, timer, outcome, admitted>>

Told == {"data", "empty", "unreachable", "invalid", "unexpected"}
Outcomes == Told \cup {"exhausted", "cancelled"}
Points == {"idle", "acquire", "attempt", "inFlight", "backoff", "done"}

Spans == 1..Second

TypeOK ==
  /\ level \in 0..Burst * Cost
  /\ pc \in [Requests -> Points]
  /\ log \in [Requests -> BoundedSeq(Answers, MaxRetries)]
  /\ timer \in [Requests -> 0..Backoff * 2^(MaxRetries - 1)]
  /\ outcome \in [Requests -> Outcomes \cup {"none"}]
  /\ admitted \in [Spans -> Nat]

Init ==
  /\ level = 0
  /\ pc = [q \in Requests |-> "idle"]
  /\ log = [q \in Requests |-> <<>>]
  /\ timer = [q \in Requests |-> 0]
  /\ outcome = [q \in Requests |-> "none"]
  /\ admitted = [k \in Spans |-> 0]

Goto(q, point) == pc' = [pc EXCEPT ![q] = point]
End(q, result) == Goto(q, "done") /\ outcome' = [outcome EXCEPT ![q] = result]

\* A token counts in all spans of k ticks that end now, and a new tick makes
\* each of them one longer.
Count(window) == [k \in Spans |-> window[k] + 1]
Slide(window) == [k \in Spans |-> IF k = 1 THEN 0 ELSE window[k - 1]]
-------------------------------------------------------------------------------
(* The rate limiter *)

\* A caller enters the limiter and queues there.
Enter(q) ==
  /\ pc[q] = "idle"
  /\ Goto(q, "acquire")
  /\ UNCHANGED <<level, log, timer, outcome, admitted>>

\* Mutant of Acquire: the bucket may overflow by one token.
AcquireOneTooMany(q) ==
  /\ pc[q] = "acquire"
  /\ level <= Burst * Cost
  /\ level' = level + Cost
  /\ admitted' = Count(admitted)
  /\ Goto(q, "attempt")
  /\ UNCHANGED <<log, timer, outcome>>

\* AsyncLimiter.acquire: a token fits into the bucket.  Leaving the context
\* manager gives nothing back.
Acquire(q) ==
  /\ pc[q] = "acquire"
  /\ level + Cost <= Burst * Cost
  /\ level' = level + Cost
  /\ admitted' = Count(admitted)
  /\ Goto(q, "attempt")
  /\ UNCHANGED <<log, timer, outcome>>

\* Mutants of Tick: the bucket empties at once; it never leaks.
TickEmpties ==
  /\ level' = 0
  /\ timer' = [q \in Requests |-> IF timer[q] > 0 THEN timer[q] - 1 ELSE 0]
  /\ admitted' = Slide(admitted)
  /\ UNCHANGED <<pc, log, outcome>>
TickNeverLeaks ==
  /\ timer' = [q \in Requests |-> IF timer[q] > 0 THEN timer[q] - 1 ELSE 0]
  /\ admitted' = Slide(admitted)
  /\ UNCHANGED <<level, pc, log, outcome>>

Tick ==
  /\ level' = IF level > 0 THEN level - 1 ELSE 0
  /\ timer' = [q \in Requests |-> IF timer[q] > 0 THEN timer[q] - 1 ELSE 0]
  /\ admitted' = Slide(admitted)
  /\ UNCHANGED <<pc, log, outcome>>
-------------------------------------------------------------------------------
(* _execute_with_retry and _single_attempt *)

Send(q) ==
  /\ pc[q] = "attempt"
  /\ Goto(q, "inFlight")
  /\ UNCHANGED <<level, log, timer, outcome, admitted>>

\* What an answer that is not retried means to the caller: _single_attempt,
\* then _extract_list or the conversion of the balance.  JSON that is not an
\* object has no get: the AttributeError leaves the client as it is.
Meaning(q, answer) ==
  CASE answer = "invalidAddress" -> "invalid"
    [] answer = "notObject" -> "unexpected"
    [] answer \in Refusals -> "unreachable"
    [] answer = "payload" -> "data"
    [] q \notin Balances /\ answer \in {"null", "noRecords"} -> "empty"
    [] OTHER -> "unreachable"

\* The answer of an attempt, or its timeout.
Receive(q, answer) ==
  /\ pc[q] = "inFlight"
  /\ log' = [log EXCEPT ![q] = Append(@, answer)]
  /\ IF answer \in Retryable
       THEN /\ Goto(q, "backoff")
            /\ timer' = [timer EXCEPT ![q] = Backoff * 2^Len(log[q])]
            /\ UNCHANGED outcome
       ELSE /\ End(q, Meaning(q, answer))
            /\ UNCHANGED timer
  /\ UNCHANGED <<level, admitted>>

\* Mutant of Retry: the last attempt's error is not the last word.
RetryOnceLess(q) ==
  /\ pc[q] = "backoff"
  /\ timer[q] = 0
  /\ IF Len(log[q]) + 1 < MaxRetries
       THEN Goto(q, "attempt") /\ UNCHANGED outcome
       ELSE End(q, "exhausted")
  /\ UNCHANGED <<level, log, timer, admitted>>

\* The sleep is over, also the one after the last attempt.
Retry(q) ==
  /\ pc[q] = "backoff"
  /\ timer[q] = 0
  /\ IF Len(log[q]) < MaxRetries
       THEN Goto(q, "attempt") /\ UNCHANGED outcome
       ELSE End(q, "exhausted")
  /\ UNCHANGED <<level, log, timer, admitted>>

\* CancelledError at any await of the request.
Cancel(q) ==
  /\ pc[q] \in {"acquire", "inFlight", "backoff"}
  /\ End(q, "cancelled")
  /\ timer' = [timer EXCEPT ![q] = 0]
  /\ UNCHANGED <<level, log, admitted>>

Request(q) == Acquire(q) \/ Send(q) \/ (\E a \in Answers : Receive(q, a)) \/ Retry(q)

Next == Tick \/ \E q \in Requests : Enter(q) \/ Request(q) \/ Cancel(q)

Spec == Init /\ [][Next]_vars

\* Time passes, httpx answers or times out, and the event loop runs whoever
\* can go on; a waiter of the bucket is woken when a token fits.
FairSpec == Spec /\ WF_vars(Tick) /\ \A q \in Requests : WF_vars(Request(q))
-------------------------------------------------------------------------------
(* Properties *)

\* What the token bucket promises: over any stretch of time up to a second, at
\* most a full bucket and what leaks between its first and last tick is
\* admitted, however callers queue and cancel.
BucketBounds == \A k \in Spans : Cost * admitted[k] <= Burst * Cost + (k - 1)

\* A caller is told what the service said: exhausted only after max_retries
\* answers that deserve a retry, anything else by the one last answer, and no
\* attempt follows a definite answer.
AnswersDecide ==
  \A q \in Requests :
    LET answers == log[q]
    IN  /\ Len(answers) > 0 => \A k \in 1..Len(answers) - 1 : answers[k] \in Retryable
        /\ outcome[q] = "exhausted" =>
             Len(answers) = MaxRetries /\ answers[MaxRetries] \in Retryable
        /\ outcome[q] \in Told =>
             outcome[q] = Meaning(q, answers[Len(answers)])

\* Every request ends, whatever is answered and however many others queue.
EveryRequestEnds == \A q \in Requests : pc[q] = "acquire" ~> pc[q] = "done"
===============================================================================
