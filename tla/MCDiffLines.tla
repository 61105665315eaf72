---------------------------- MODULE MCDiffLines ----------------------------
(* Values of DiffLines' constants for TLC.                                 *)
EXTENDS DiffLines

P(m, n, d) == [matches |-> m, negated |-> n, dir |-> d]

C(k, n, i) == [kind |-> k, next |-> n, ignore |-> i]

Excludes == P(TRUE, FALSE, FALSE)
TakesBack == P(TRUE, TRUE, FALSE)
TakesBackDir == P(TRUE, TRUE, TRUE)

\* Every kind of file before a new and a deleted one, and the patterns that
\* exclude it, take it back, and only seem to.
SomeChanges ==
  {C("modified", "new", <<>>), C("renamed", "deleted", <<Excludes, TakesBack>>),
   C("new", "deleted", <<>>), C("deleted", "new", <<>>),
   C("renamed", "modified", <<>>), C("binary", "new", <<>>),
   C("new", "modified", <<TakesBack, Excludes>>),
   C("new", "new", <<Excludes, TakesBackDir>>)}

=============================================================================
