SPECIFICATION ReportSpec
CONSTANTS
  j1 = j1
  j2 = j2
  Files = {f1}
  NoItem = NoItem
  Jobs = {j1, j2}
  Other <- TheOther
  Reviewed = {f1}
  NoJob = NoJob
  Answers <- SomeAnswers
  Limits <- SomeLimits
CHECK_DEADLOCK FALSE
INVARIANT HistoryEnds
