SPECIFICATION SystemSpec
CONSTANTS
  MRs = {m1}
  Heads = {1}
  Targets = {1}
  Workers = {w1}
  NoOwner = NoOwner
  Sessions = {}
  NoSession = NoSession
  Rules = {}
  NoRule = NoRule
  BadRule = BadRule
  WorkStages <- AllWorkStages
  Priorities = {0}
  TokenCounts = {0}
  AttemptBound = 9
  Projects = {p1}
  ProjectOf <- OneProject
  RuleAt <- RuleBreaks
  NoRevision = NoRevision
  CodeGraphEnabled = FALSE
  MaxAttempts = 2
  CanReturn = FALSE
  Budgets <- StaleBudget
PROPERTIES
  StaleMeansReplaced
