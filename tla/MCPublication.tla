--------------------------- MODULE MCPublication ----------------------------
(***************************************************************************)
(* The way of a finding from the diff to the merge request, as one run:    *)
(* where its lines are, and which notes stand for it.  The two have no     *)
(* variable in common; each behaviour follows one of them and leaves the   *)
(* other where it began.                                                   *)
(***************************************************************************)
EXTENDS MCPublisher, MCDiffLines

VARIABLE followed  \* the part this behaviour is about

\* The initial states that differ are the ones of the part followed.
PublicationInit ==
  /\ PubInit /\ DiffInit
  /\ followed \in {"lines", "notes"}
  /\ followed # "lines" => kind = "modified" /\ next = "new"

Follow(part) == followed = part /\ UNCHANGED followed

PublicationNext ==
  \/ Follow("lines") /\ DiffNext /\ UNCHANGED pubVars
  \/ Follow("notes") /\ PubNext /\ UNCHANGED diffVars

PublicationSpec ==
  PublicationInit /\ [][PublicationNext]_<<followed, pubVars, diffVars>>

=============================================================================
