SPECIFICATION RecordsSpec
CONSTANTS
  MRs = {m1}
  Heads = {h1, h2}
  Targets = {t1}
  Workers = {w1}
  NoOwner = NoOwner
  Sessions = {s1}
  NoSession = NoSession
  Rules = {}
  NoRule = NoRule
  WorkStages = {"ocr_review"}
  Priorities = {1001}
  TokenCounts = {0}
  AttemptBound = 2
  Reporters = {r1}
  MainRun = MainRun
  Others = {o1}
  Findings = {f1}
  BusCapacity = 1
  Figures = {n0, n1}
  NoFigures = n0
  MaxCalls = 1
  MaxAttempts = 2
  MaxBroken = 1
  MaxOpens = 3
CHECK_DEADLOCK FALSE
INVARIANTS
  StoreSound
  CompletedFindingsExact
  PagesCatchUp
  OpensAfterAnyKill
PROPERTIES
  StaleIsFinal
  SecondActiveIsReactivated
