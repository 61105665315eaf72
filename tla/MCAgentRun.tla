----------------------------- MODULE MCAgentRun -----------------------------
(* Values of AgentRun's constants for TLC.                                 *)
EXTENDS AgentRun

CONSTANTS f1, f2

\* Another job's session may hold one finding of f1.
OneOfFirst ==
  [f \in Files |-> IF f = f1 THEN <<[path |-> f, id |-> 0]>>
                            ELSE NoItem]

=============================================================================
