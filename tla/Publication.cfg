SPECIFICATION PublicationSpec
CONSTANTS
  c1 = c1
  c2 = c2
  Callbacks = {c1, c2}
  Publishing = Publishing
  Findings <- TwoFindings
  SpotOf <- Places
  NoSpot = NoSpot
  RankOf <- Ranks
  Lined = {"lined"}
  MaxPublished = 1
  PageSize = 4
  LastHead = 2
  MaxReports = 3
  MaxNotes = 6
  MaxLost = 1
  Contents = {"x", "", "-- /dev/null"}
  Blank = {""}
  DiffContextLines = 1
  MaxLines = 4
  Changes <- SomeChanges
CHECK_DEADLOCK FALSE
INVARIANTS
  PublishedIsSelected
  OneConclusion
  ReconsideredIsResolved
  ParsedAsWritten
  CommentOnItsCode
