---- MODULE MCFullScan ----
EXTENDS FullScan
Source == [regular |-> TRUE, readable |-> TRUE, ignored |-> FALSE, tooBig |-> FALSE,
  binary |-> FALSE, userExcluded |-> FALSE, userIncluded |-> FALSE,
  allowedExt |-> TRUE, excludedPath |-> FALSE, tokens |-> 1]
ScanKinds ==
  [f \in ScanFiles |-> IF f = 1 THEN {Source, [Source EXCEPT !.allowedExt = FALSE]} ELSE {Source}]
ScanKeys == [f \in ScanFiles |-> 1]
====
