----------------------------- MODULE MCRecords ------------------------------
(***************************************************************************)
(* What the bot keeps in its database, as one run: the queue, the records  *)
(* of a running review and the opening of the file.  The components have   *)
(* no variable in common and take no step together, so each behaviour      *)
(* follows one of them and leaves the others where they began.  The        *)
(* records are followed twice: once while other jobs are silent ("job"),   *)
(* and once beside them, while the callbacks are silent ("bus").           *)
(***************************************************************************)
EXTENDS ReviewStore, JobRecords, Schema

VARIABLE followed  \* the component this behaviour is about

records == <<storeVars, recVars, schemaVars>>

\* The initial states that differ are the ones of the component followed.
RecordsInit ==
  /\ StoreInit /\ RecInit /\ SchemaInit
  /\ followed \in {"store", "job", "bus", "schema"}
  /\ followed # "schema" => db = OldFile({}, "target", {})

Follow(component) == followed = component /\ UNCHANGED followed

OthersSilent == \A w \in Others : writeAt'[w] = "idle"
CallbacksSilent == calls' = 0

RecordsNext ==
  \/ Follow("store") /\ StoreNext /\ UNCHANGED <<recVars, schemaVars>>
  \/ Follow("job") /\ RecNext /\ OthersSilent /\ UNCHANGED <<storeVars, schemaVars>>
  \/ Follow("bus") /\ RecNext /\ CallbacksSilent /\ UNCHANGED <<storeVars, schemaVars>>
  \/ Follow("schema") /\ SchemaNext /\ UNCHANGED <<storeVars, recVars>>

RecordsSpec == RecordsInit /\ [][RecordsNext]_<<followed, records>>

=============================================================================
