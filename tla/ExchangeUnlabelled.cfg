SPECIFICATION Spec
CONSTANTS
  AmlWeights <- DefaultAmlWeights
  AmlBands <- DefaultAmlBands
  RugWeights <- DefaultRugWeights
  RugBands <- DefaultRugBands
  CrossMatch = TRUE
  Depths = {1, 2}
  AmlFindings <- SomeAmlFindings
  RugFindings <- SomeRugFindings
  RugAttempts = 3
INVARIANTS EntitiesAreLabelled
CHECK_DEADLOCK FALSE
