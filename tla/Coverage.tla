------------------------------ MODULE Coverage ------------------------------
(***************************************************************************)
(* What a run's manifest promises its readers, without classes, reasons    *)
(* and errors: the selected files are fixed before any is dispatched, each *)
(* gets one outcome, and freezing the manifest leaves none without one.    *)
(* Manifest and AgentRun implement it.                                     *)
(***************************************************************************)
CONSTANT Files

VARIABLES
  items,  \* the state of each file: "none" until it is registered
  stage   \* "open", "sealed" or "frozen"

covVars == <<items, stage>>

Outcomes == {"completed", "reused", "failed", "waived"}

Blank == [f \in Files |-> "none"]

CovInit == items = Blank /\ stage = "open"

Registered(S) ==
  [f \in Files |-> IF f \in S /\ items[f] = "none" THEN "selected" ELSE items[f]]

Register(S) == stage = "open" /\ items' = Registered(S) /\ UNCHANGED stage

\* The denominator is closed; what is registered with it counts.
Seal(S) == stage = "open" /\ items' = Registered(S) /\ stage' = "sealed"

Decide(f) ==
  /\ stage # "frozen" /\ items[f] = "selected"
  /\ \E outcome \in Outcomes : items' = [items EXCEPT ![f] = outcome]
  /\ UNCHANGED stage

Freeze ==
  /\ stage # "frozen" /\ stage' = "frozen"
  /\ items' = [f \in Files |-> IF items[f] = "selected" THEN "failed" ELSE items[f]]

\* Another run, after this one or after the process was killed.
NewRun == items' = Blank /\ stage' = "open"

CovNext ==
  \/ \E S \in SUBSET Files : Register(S) \/ Seal(S)
  \/ \E f \in Files : Decide(f)
  \/ Freeze
  \/ NewRun

CovSpec == CovInit /\ [][CovNext]_covVars

\* In a frozen manifest no selected file is undecided.
FrozenIsDecided == stage = "frozen" => \A f \in Files : items[f] # "selected"
=============================================================================
