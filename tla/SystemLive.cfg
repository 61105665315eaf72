SPECIFICATION FairSpec
CONSTANTS
  MRs = {m1}
  Heads = {1, 2}
  Targets = {1}
  Workers = {w1, w2}
  NoOwner = NoOwner
  Sessions = {s1}
  NoSession = NoSession
  Rules = {}
  NoRule = NoRule
  BadRule = BadRule
  WorkStages <- AllWorkStages
  Priorities = {0}
  TokenCounts = {0}
  AttemptBound = 9
  Projects = {p1}
  ProjectOf <- OneProject
  RuleAt <- RuleBreaks
  NoRevision = NoRevision
  CodeGraphEnabled = FALSE
  MaxAttempts = 1
  CanReturn = FALSE
  Budgets <- LiveBudget
PROPERTIES
  CurrentIsDecided
  ReviewsEnd
