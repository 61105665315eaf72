------------------------------- MODULE Schema -------------------------------
(***************************************************************************)
(* Opening the database (store.Open): the tables are created one statement *)
(* at a time, review_job is rebuilt when its unique key is the old one, in *)
(* a transaction and with the foreign keys switched off on the connection, *)
(* and missing columns are added one by one.  The process may be killed    *)
(* after any statement and opens the file again when it starts.            *)
(***************************************************************************)
EXTENDS Naturals, Sequences, SequencesExt

CONSTANTS
  MaxOpens   \* bound: times the file is opened

ASSUME SchemaAssumption == MaxOpens \in Nat

Tables == <<"review_job", "review_finding", "app_user">>
ProgressColumns == <<"progress_completed", "progress_total">>
TokenColumns == <<"mcp_token_hash", "mcp_token_created_at">>

VARIABLES
  db,   \* the file: its tables, the unique key of review_job, its columns
          \* and whether rows of another table refer to a review
  keysOn, \* foreign_keys of the connection
  stage,  \* where Open is; "refused" when it has returned an error
  opens   \* times Open was called

schemaVars == <<db, keysOn, stage, opens>>

OldFile(tables, key, columns) ==
  [tables |-> tables, key |-> key, columns |-> columns,
   referred |-> "review_finding" \in tables]

\* A new file; one of the old identity, before there were findings; and one
\* of any state between, as later versions added their columns.
SchemaInit ==
  /\ \/ db = OldFile({}, "target", {})
     \/ db = OldFile({"review_job"}, "head", {})
     \/ \E tables \in {{"review_job", "review_finding"}, ToSet(Tables)} :
          \E columns \in SUBSET ToSet(ProgressColumns) :
            db \in {OldFile(tables, key, columns) : key \in {"head", "target"}}
  /\ keysOn = FALSE /\ stage = "closed" /\ opens = 0

\* sql.Open, whose pragma switches the foreign keys on.
BeginOpen ==
  /\ stage = "closed" /\ opens < MaxOpens /\ opens' = opens + 1
  /\ keysOn' = TRUE /\ stage' = "tables"
  /\ UNCHANGED db

\* Which of some names are lacking, and the first of them.
Lacking(names, present) == {i \in DOMAIN names : names[i] \notin present}
FirstLacking(names, present) == names[Min(Lacking(names, present))]

ColumnsOf(table) ==
  CASE table = "review_job" -> ToSet(ProgressColumns)
    [] table = "app_user" -> ToSet(TokenColumns)
    [] OTHER -> {}

\* CREATE TABLE IF NOT EXISTS: a new table has all its columns.
CreateTable ==
  /\ stage = "tables"
  /\ LET table == FirstLacking(Tables, db.tables) IN
       IF Lacking(Tables, db.tables) = {} THEN stage' = "identity" /\ UNCHANGED db
       ELSE /\ db' = [db EXCEPT !.tables = @ \union {table},
                                !.columns = @ \union ColumnsOf(table)]
            /\ UNCHANGED stage
  /\ UNCHANGED <<keysOn, opens>>

\* Mutant of KeysForRebuild: the pragma is left to the transaction, where it
\* has no effect.
KeysKept == keysOn

KeysForRebuild == FALSE

\* The unique key of review_job is read from its schema.
CheckIdentity ==
  /\ stage = "identity"
  /\ IF db.key = "target" THEN stage' = "token" /\ UNCHANGED keysOn
     ELSE stage' = "rebuild" /\ keysOn' = KeysForRebuild
  /\ UNCHANGED <<db, opens>>

\* The rebuild commits: DROP TABLE would fail with rows that refer to it.
Rebuild ==
  /\ stage = "rebuild"
  /\ IF keysOn /\ db.referred THEN stage' = "refused" /\ UNCHANGED <<db, keysOn>>
     ELSE /\ db' = [db EXCEPT !.key = "target", !.columns = @ \union ToSet(ProgressColumns)]
          /\ stage' = "token" /\ keysOn' = TRUE
  /\ UNCHANGED opens

\* ALTER TABLE ADD COLUMN, an error for one that is there.
AddColumns(here, columns, next) ==
  /\ stage = here
  /\ LET column == FirstLacking(columns, db.columns) IN
       IF Lacking(columns, db.columns) = {} THEN stage' = next /\ UNCHANGED db
       ELSE IF column \in db.columns THEN stage' = "refused" /\ UNCHANGED db
       ELSE db' = [db EXCEPT !.columns = @ \union {column}] /\ UNCHANGED stage
  /\ UNCHANGED <<keysOn, opens>>

MigrateUserMCPToken == AddColumns("token", TokenColumns, "progress")
MigrateReviewProgress == AddColumns("progress", ProgressColumns, "open")

\* The process is killed or the disk fails: an open transaction is rolled back.
KillOpen ==
  /\ stage \notin {"closed", "refused"} /\ stage' = "closed" /\ keysOn' = FALSE
  /\ UNCHANGED <<db, opens>>

SchemaNext ==
  \/ BeginOpen \/ CreateTable \/ CheckIdentity \/ Rebuild
  \/ MigrateUserMCPToken \/ MigrateReviewProgress \/ KillOpen

SchemaSpec == SchemaInit /\ [][SchemaNext]_schemaVars

\* Wherever an earlier start was killed, opening the file never fails on what
\* that start left behind; an open file has the new key, every column and its
\* foreign keys on.
OpensAfterAnyKill ==
  /\ stage # "refused"
  /\ stage = "open" =>
       /\ keysOn /\ db.key = "target"
       /\ ToSet(Tables) \subseteq db.tables
       /\ ToSet(ProgressColumns) \union ToSet(TokenColumns) \subseteq db.columns
=============================================================================
