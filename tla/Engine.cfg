SPECIFICATION EngineSpec
CONSTANTS
  Paths = {"a", "b"}
  Docs = {"doc"}
  Inline = "inline"
  SystemTexts <- TheSystemTexts
  m1 = m1
  m2 = m2
  MRs = {m1, m2}
  Diffs = {"d1", "d2", "long"}
  Gone = "gone"
  Absent = "absent"
  TooLong = {"long"}
  Allowed = {"a", "b"}
  RuleFiles <- SomeRuleFiles
  TargetFiles <- SomeTargetFiles
  Missing = Missing
  Broken = Broken
  HeadTrees <- SomeHeads
  GlobalLayer <- NoGlobal
  NoItem = NoItem
  NoRun = NoRun
  Nobody = Nobody
  Stranger = Stranger
  MaxJobs = 3
  MaxPushes = 1
  MaxDecisions = 2
  PromptOverhead = 0
  MainRounds = 2
  RoundOutput = 0
  PlanOutput = 0
  NumFiles = 4
  KindsOfFile <- ScanKinds
  KeyOf <- ScanKeys
  Strategies = {"none", "grouped"}
  BatchSize = 0
  Parallelism = 2
  ScanMaxTokens = 5
  TokenBudget = 3
  PlanEnabled = FALSE
  CallTokens = 1
  ScanFindings = 2
  MaxMerged = 2
  MaxRetries = 1
  MaxTurns = 3
  MaxPieces = 2
  MaxCalls = 2
  Tokens <- SomeTokens
  Files = {f1, f2}
  MaxTokens = 13
  MaxToolRequestTimes = 3
  PromptTokens = 2
  RoundSizes = {6}
  NudgeTokens = 1
  SummarySizes = {1}
  NoJob = NoJob
  NoContext = NoContext
CHECK_DEADLOCK FALSE
INVARIANTS
  ReusedUnderTargetRules
  DecidedOnce
  DigestsIdentify
  NothingLost
  CallsAnsweredAtOnce
  AnswerIsWhole
  OverrunBounded
  ScanKeepsFindings
