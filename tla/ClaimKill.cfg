SPECIFICATION Spec
CONSTANTS
  f1 = f1
  f2 = f2
  Files = {f1, f2}
  NoItem = NoItem
  Concurrencies = {2}
  ReviewFilter = TRUE
  MaxFindings = 1
  MaxAttempts = 1
  PastComments <- OneOfFirst
CHECK_DEADLOCK FALSE
INVARIANTS
  CheckpointsSurviveKill
