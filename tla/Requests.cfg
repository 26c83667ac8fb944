SPECIFICATION FairSpec
CONSTANTS
  Requests = {q1, q2, q3}
  Balances = {q3}
  Answers = {"status429", "noRecords", "rateResult", "notObject"}
  MaxRetries = 2
  Backoff = 1
  Burst = 2
  Cost = 2
  Second = 2
INVARIANTS TypeOK BucketBounds AnswersDecide
PROPERTIES EveryRequestEnds
CHECK_DEADLOCK FALSE
