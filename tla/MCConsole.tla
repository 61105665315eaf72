----------------------------- MODULE MCConsole ------------------------------
(***************************************************************************)
(* What the console's handlers do beside the reviews, as one run: accounts *)
(* and sessions, the configuration file, the branch graph and the pages of *)
(* findings.  They have no variable in common; each behaviour follows one  *)
(* of them and leaves the others where they began.                         *)
(***************************************************************************)
EXTENDS Accounts, Settings, MCBranchGraph, MCFindingPages, TLC

VARIABLE followed  \* the part of the console this behaviour is about

console == <<accVars, setVars, graphVars, reviews>>

\* The initial states that differ are the ones of the part followed.
ConsoleInit ==
  /\ AccInit /\ SetInit /\ GraphInit /\ PagesInit
  /\ followed \in {"accounts", "settings", "graph", "findings"}
  /\ followed # "settings" => \A f \in Fields : config[f] = "own"
  /\ followed # "accounts" => authEnabled

\* Persons are alike, and so are requests: no definition tells them apart.
Alike == Permutations(People) \union Permutations(Requests)

Follow(part) == followed = part /\ UNCHANGED followed

ConsoleNext ==
  \/ Follow("accounts") /\ AccNext /\ UNCHANGED <<setVars, graphVars, reviews>>
  \/ Follow("settings") /\ SetNext /\ UNCHANGED <<accVars, graphVars, reviews>>
  \/ Follow("graph") /\ GraphNext /\ UNCHANGED <<accVars, setVars, reviews>>
  \/ Follow("findings") /\ PagesNext /\ UNCHANGED <<accVars, setVars, graphVars>>

ConsoleSpec == ConsoleInit /\ [][ConsoleNext]_<<followed, console>>

=============================================================================
