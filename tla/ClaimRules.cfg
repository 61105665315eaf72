SPECIFICATION InputSpec
CONSTANTS
  Paths = {"a", "b"}
  Docs = {"doc"}
  Inline = "inline"
  SystemTexts <- TheSystemTexts
  m1 = m1
  m2 = m2
  MRs = {m1, m2}
  Diffs = {"d1", "d2", "long"}
  Gone = "gone"
  Absent = "absent"
  TooLong = {"long"}
  Allowed = {"a", "b"}
  RuleFiles <- SomeRuleFiles
  TargetFiles <- SomeTargetFiles
  Missing = Missing
  Broken = Broken
  HeadTrees <- SomeHeads
  GlobalLayer <- NoGlobal
  NoItem = NoItem
  NoRun = NoRun
  Nobody = Nobody
  Stranger = Stranger
  MaxJobs = 3
  MaxPushes = 1
  MaxDecisions = 2
CHECK_DEADLOCK FALSE
INVARIANT RulesAreTheTargets
