SPECIFICATION ConsoleSpec
CONSTANTS
  People = {alice, bob}
  Requests = {q1, q2}
  Nobody = Nobody
  MaxIds = 2
  MaxLogins = 2
  Administrators = {a1, a2}
  Torn = Torn
  Nothing = Nothing
  MaxSaves = 2
  MaxRestarts = 1
  Branches = {"main", "dev"}
  Commits = {"c1", "c2", "d3"}
  FirstTips <- TheTips
  Ancestors <- TheAncestors
  Sequence <- TheSequence
  MRs = {"m1"}
  Between <- TheRequests
  FileCounts = {1, 2}
  Viewers = {v1, v2}
  Unknown = Unknown
  Life = 1
  MaxTime = 1
  MaxMoves = 1
  Comments = {"x", "y"}
  PathOf <- ThePaths
  KeyOf <- TheKeys
  NoResult = NoResult
  MaxReviews = 3
  MaxFound = 2
SYMMETRY Alike
CHECK_DEADLOCK FALSE
INVARIANTS
  AccountsSound
  SavesKeepTheRest
  GraphIsRecent
  PagesAgree
PROPERTIES
  SuperadminsDecide
