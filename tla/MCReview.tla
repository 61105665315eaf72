------------------------------ MODULE MCReview -----------------------------
(***************************************************************************)
(* The attempts of a review, the manifest they fill and the report of      *)
(* their session, as one run.  The manifest's module allows every order of *)
(* calls and the report's every order of lines, not only the agent's, so   *)
(* each behaviour follows one of the three and leaves the others where     *)
(* they began.                                                             *)
(***************************************************************************)
EXTENDS MCAgentRun, Manifest, MCSessionReport

VARIABLE followed  \* the part this behaviour is about

\* The initial states that differ are the ones of the part followed.
ReviewInit ==
  /\ Init /\ ManInit /\ ReportInit
  /\ followed \in {"attempts", "manifest", "report"}
  /\ followed # "attempts" =>
       /\ concurrency = 2 /\ \A f \in Files : past[f] = NoItem
  /\ followed # "report" => left.reviews = 3

Follow(part) == followed = part /\ UNCHANGED followed

ReviewNext ==
  \/ Follow("attempts") /\ Next /\ UNCHANGED <<manVars, reportVars>>
  \/ Follow("manifest") /\ ManNext /\ UNCHANGED <<vars, reportVars>>
  \/ Follow("report") /\ ReportNext /\ UNCHANGED <<vars, manVars>>

\* The goroutines run and the calls they wait for return.
ReviewSpec ==
  /\ ReviewInit /\ [][ReviewNext]_<<followed, vars, manVars, reportVars>>
  /\ WF_vars(Follow("attempts") /\ RunStep /\ UNCHANGED <<manVars, reportVars>>)

=============================================================================
