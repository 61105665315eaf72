SPECIFICATION ReviewSpec
CONSTANTS
  f1 = f1
  f2 = f2
  Files = {f1, f2}
  NoItem = NoItem
  Concurrencies = {1, 2}
  ReviewFilter = TRUE
  MaxFindings = 2
  MaxAttempts = 2
  PastComments <- OneOfFirst
  Items = {i1, i2}
  ItemClasses = {"timeout", "budget"}
  RunClasses = {"timeout", "internal"}
  Unset = Unset
  j1 = j1
  j2 = j2
  Jobs = {j1, j2}
  Other <- TheOther
  Reviewed = {f1}
  NoJob = NoJob
  Answers <- SomeAnswers
  Limits <- SomeLimits
CHECK_DEADLOCK FALSE
INVARIANTS
  CommentsAccounted
  OutcomesAgree
  ReportAgrees
PROPERTIES
  CheckpointsKept
  RunEnds
  KeepsPromise
  CoverageRefined
