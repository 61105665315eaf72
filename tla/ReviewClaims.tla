---------------------------- MODULE ReviewClaims ----------------------------
(* What the repository's documents say of the review life cycle and the    *)
(* code does not do: each definition is the property of one run that finds *)
(* it violated.  The README gives the quotations and what each run shows.  *)
EXTENDS ReviewSystem

\* "stale: replaced by a new head/target version" - but a failed GitLab call,
\* a timeout or a shutdown at ensureCurrent makes a current job stale too, and
\* neither discovery nor an administrator can bring a stale row back.
StaleMeansReplaced ==
  [][\A r \in Revisions :
       job'[r].state = "stale" /\ job[r].state # "stale" => ~IsCurrent(r)]_vars

=============================================================================
