------------------------------ MODULE MCEngine -----------------------------
(***************************************************************************)
(* The parts of the review engine that do not wait for one another, as one *)
(* run: what a review is made of, one file's conversation and its          *)
(* compression, the protocols of the model's providers, and the full scan. *)
(* They have no variable in common; each behaviour follows one of them and *)
(* leaves the others where they began.                                     *)
(***************************************************************************)
EXTENDS MCReviewInput, MCModelClient, MCFullScan, Conversation

VARIABLE followed  \* the part this behaviour is about

EngineParts == {"input", "conversation", "client", "scan"}

engine == <<inputVars, vars, clientVars, scanVars>>

\* The initial states that differ are the ones of the part followed.
EngineInit ==
  /\ InputInit /\ Init /\ ClientInit /\ ScanInit
  /\ followed \in EngineParts
  /\ SecondIsPlain
  /\ followed # "input" =>
       /\ target.file = Missing
       /\ heads[m1].tree = HeadWithoutRules
  /\ followed # "client" =>
       /\ endpoint.protocol = "openai" /\ endpoint.shape = "openai" /\ endpoint.total
       /\ endpoint.place = "usage" /\ ~endpoint.stream
  /\ followed # "scan" =>
       /\ kinds = [f \in ScanFiles |-> Source] /\ reusable = {} /\ strategy = "none"
  /\ reusable \in {{}, {1}, {2, 3}}

Follow(part) == followed = part /\ UNCHANGED followed

EngineNext ==
  \/ Follow("input") /\ InputNext /\ UNCHANGED <<vars, clientVars, scanVars>>
  \/ Follow("conversation") /\ Next /\ UNCHANGED <<inputVars, clientVars, scanVars>>
  \/ Follow("client") /\ ClientNext /\ UNCHANGED <<inputVars, vars, scanVars>>
  \/ Follow("scan") /\ ScanNext /\ UNCHANGED <<inputVars, vars, clientVars>>

EngineSpec == EngineInit /\ [][EngineNext]_<<followed, engine>>

=============================================================================
