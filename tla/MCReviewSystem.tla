--------------------------- MODULE MCReviewSystem ---------------------------
(* Values of ReviewSystem's constants for TLC.                             *)
EXTENDS ReviewClaims, TLC

OneProject == [m \in MRs |-> CHOOSE p \in Projects : TRUE]

WorkerSymmetry == Permutations(Workers)

\* The rule file is missing at odd target commits and invalid at even ones.
RuleBreaks == [t \in Targets |-> IF t % 2 = 0 THEN BadRule ELSE NoRule]
AllWorkStages == {"git_prepare", "code_graph", "ocr_review", "publishing"}

Bounds(moves, admin, external, store, crash, stop, lease) ==
  [moves |-> moves, admin |-> admin, external |-> external, store |-> store,
   crash |-> crash, stop |-> stop, lease |-> lease]

\*                        moves admin external store crash stop lease
ForwardBudget == {Bounds(2, 0, 0, 0, 0, 0, 1)}
FaultBudgets  == {Bounds(2, 0, 1, 0, 0, 0, 0),
                  Bounds(2, 0, 0, 0, 0, 1, 0),
                  Bounds(1, 0, 1, 0, 0, 1, 0),
                  Bounds(1, 2, 0, 0, 0, 0, 0),
                  Bounds(1, 0, 0, 1, 1, 0, 0)}
LiveBudget    == {Bounds(1, 0, 0, 0, 1, 0, 0)}
StaleBudget   == {Bounds(0, 0, 1, 0, 0, 0, 0)}

=============================================================================
