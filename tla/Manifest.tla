------------------------------ MODULE Manifest ------------------------------
(***************************************************************************)
(* ManifestBuilder: the coverage of one run.  Every method takes the       *)
(* builder's mutex, so each call is a step; the calls come from the        *)
(* agent's goroutines in any order.  Paths, fingerprints and the text of   *)
(* reasons are left out; a reason is blank or not.                         *)
(***************************************************************************)
EXTENDS Naturals, FiniteSets

CONSTANTS
  Items,        \* files of the diff, one item_id each
  ItemClasses,  \* FailureClass values the callers use
  RunClasses,   \* RunFailureClass values the callers use
  Unset         \* no class, no manifest

FailureClasses ==
  {"provider", "timeout", "cancelled", "configuration", "input", "budget",
   "panic", "unknown"}

RunFailureClasses ==
  {"input", "configuration", "timeout", "cancelled", "budget", "internal", "unknown"}

ASSUME ManifestAssumption ==
  /\ ItemClasses \subseteq FailureClasses
  /\ RunClasses \subseteq RunFailureClasses
  /\ Unset \notin FailureClasses \union RunFailureClasses

Terminal == {"completed", "reused", "failed", "waived"}

Item == [state : {"none", "selected"} \union Terminal,
         class : FailureClasses \union {Unset}]

VARIABLES
  entries,     \* b.items
  runFailure,  \* b.runFailure
  pending,     \* b.pendingFailure
  modeSet,     \* b.input.Mode is valid
  sealed, frozen,
  manifest,    \* b.result, or Unset
  lastCall,    \* history: did the last call return an error
  accepted,    \* history: the outcomes whose Mark returned no error
  stopCauses   \* history: the first run failure and the first pending cause

builder == <<entries, runFailure, pending, modeSet, sealed, frozen, manifest>>
manVars == <<builder, lastCall, accepted, stopCauses>>

None == [state |-> "none", class |-> Unset]

ManInit ==
  /\ entries = [f \in Items |-> None]
  /\ runFailure = Unset /\ pending = Unset
  /\ modeSet = FALSE /\ sealed = FALSE /\ frozen = FALSE /\ manifest = Unset
  /\ lastCall = "ok" /\ accepted = {} /\ stopCauses = [run |-> Unset, pending |-> Unset]

Refused == lastCall' = "error" /\ UNCHANGED <<builder, accepted, stopCauses>>

Accepted == lastCall' = "ok"

-----------------------------------------------------------------------------
(* Setting up. *)

\* SetInput: a mode that is not one of the three is stored as well.
SetInput ==
  /\ modeSet' \in IF frozen THEN {modeSet} ELSE BOOLEAN
  /\ Accepted
  /\ UNCHANGED <<entries, runFailure, pending, sealed, frozen, manifest,
                 accepted, stopCauses>>

\* Mutant of RegisterSelected: the selection stays open after the seal.
RegisterAnyTime(f) ==
  IF frozen THEN Refused
  ELSE /\ Accepted
       /\ entries' = IF entries[f] = None
                     THEN [entries EXCEPT ![f].state = "selected"] ELSE entries
       /\ UNCHANGED <<runFailure, pending, modeSet, sealed, frozen, manifest,
                      accepted, stopCauses>>

RegisterSelected(f) ==
  IF frozen \/ sealed THEN Refused
  ELSE /\ Accepted
       /\ entries' = IF entries[f] = None
                     THEN [entries EXCEPT ![f].state = "selected"] ELSE entries
       /\ UNCHANGED <<runFailure, pending, modeSet, sealed, frozen, manifest,
                      accepted, stopCauses>>

SealSelected ==
  IF frozen THEN Refused
  ELSE /\ Accepted /\ sealed' = TRUE
       /\ UNCHANGED <<entries, runFailure, pending, modeSet, frozen, manifest,
                      accepted, stopCauses>>

-----------------------------------------------------------------------------
(* Why the run stopped: the first cause wins. *)

\* The cause that came first.
Earliest(known, class) == IF known = Unset THEN class ELSE known

SetRunFailure(class) ==
  IF frozen \/ runFailure \notin {Unset, class} THEN Refused
  ELSE /\ Accepted /\ runFailure' = class
       /\ stopCauses' = [stopCauses EXCEPT !.run = Earliest(@, class)]
       /\ UNCHANGED <<entries, pending, modeSet, sealed, frozen, manifest, accepted>>

SetPendingFailureCause(class) ==
  IF frozen \/ pending \notin {Unset, class} THEN Refused
  ELSE /\ Accepted /\ pending' = class
       /\ stopCauses' = [stopCauses EXCEPT !.pending = Earliest(@, class)]
       /\ UNCHANGED <<entries, runFailure, modeSet, sealed, frozen, manifest, accepted>>

-----------------------------------------------------------------------------
(* transition. *)

\* Unknown, or already in another state, or failed for another reason.
Conflicting(entry, to, class) ==
  \/ entry.state = "none"
  \/ entry.state \in Terminal \ {to}
  \/ entry.state = "failed" /\ to = "failed" /\ entry.class # class

Transition(f, to, class) ==
  IF frozen \/ Conflicting(entries[f], to, class) THEN Refused
  ELSE /\ Accepted
       /\ entries' = [entries EXCEPT ![f] = [state |-> to, class |-> class]]
       /\ accepted' = accepted \union {[file |-> f, state |-> to, class |-> class]}
       /\ UNCHANGED <<runFailure, pending, modeSet, sealed, frozen, manifest, stopCauses>>

MarkCompleted(f) == Transition(f, "completed", Unset)
MarkReused(f) == Transition(f, "reused", Unset)
MarkFailed(f) == \E class \in ItemClasses : Transition(f, "failed", class)

\* A reason that is blank once it is sanitized is refused.
MarkWaived(f) == Transition(f, "waived", Unset) \/ Refused

-----------------------------------------------------------------------------
(* Finalize. *)

ItemFailureForRunClass(class) == IF class = "internal" THEN "unknown" ELSE class

SweepClass ==
  IF runFailure # Unset THEN ItemFailureForRunClass(runFailure)
  ELSE IF pending # Unset THEN pending
  ELSE "unknown"

Swept ==
  [f \in Items |-> IF entries[f].state = "selected"
                   THEN [state |-> "failed", class |-> SweepClass] ELSE entries[f]]

\* validateLocked; the run's id and operation are never empty.
Invalid == ~modeSet

\* The sweep is undone.
Unswept == Refused

InState(covered, state) == {f \in Items : covered[f].state = state}

\* computeTerminal.
TerminalState(covered) ==
  LET selected == {f \in Items : covered[f].state # "none"}
      bad == InState(covered, "failed")
  IN CASE runFailure # Unset -> "failed"
       [] runFailure = Unset /\ selected = {} -> "skipped"
       [] runFailure = Unset /\ selected # {} /\ bad = {} -> "complete"
       [] runFailure = Unset /\ bad # {} /\ bad = selected -> "failed"
       [] OTHER -> "partial"

Finalize ==
  IF frozen THEN Accepted /\ UNCHANGED <<builder, accepted, stopCauses>>
  ELSE IF Invalid THEN Unswept
  ELSE /\ Accepted /\ frozen' = TRUE /\ entries' = Swept
       /\ manifest' = [terminal |-> TerminalState(Swept), coverage |-> Swept,
                       runFailure |-> runFailure]
       /\ UNCHANGED <<runFailure, pending, modeSet, sealed, accepted, stopCauses>>

ManNext ==
  \/ SetInput \/ SealSelected \/ Finalize
  \/ \E f \in Items :
       RegisterSelected(f) \/ MarkCompleted(f) \/ MarkReused(f)
         \/ MarkFailed(f) \/ MarkWaived(f)
  \/ \E class \in RunClasses : SetRunFailure(class)
  \/ \E class \in ItemClasses : SetPendingFailureCause(class)

ManSpec == ManInit /\ [][ManNext]_manVars

-----------------------------------------------------------------------------
(* Properties. *)

\* The builder is well typed, and only failed items have a class.
ManTypeOK ==
  /\ entries \in [Items -> Item]
  /\ \A f \in Items : entries[f].state = "failed" <=> entries[f].class # Unset
  /\ runFailure \in RunClasses \union {Unset} /\ pending \in ItemClasses \union {Unset}
  /\ modeSet \in BOOLEAN /\ sealed \in BOOLEAN /\ frozen \in BOOLEAN

\* Every outcome that was accepted is the one the manifest reports, whatever
\* calls came between and however many goroutines reported on the file.
AcceptedIsReported ==
  frozen => \A o \in accepted :
    manifest.coverage[o.file] = [state |-> o.state, class |-> o.class]

\* A file nobody reported on is failed, and blamed on what stopped the run
\* first: the run's failure before a deliberate truncation.
SilenceIsBlamed ==
  frozen => \A f \in Items :
    (manifest.coverage[f].state # "none" /\ \A o \in accepted : o.file # f) =>
      /\ manifest.coverage[f].state = "failed"
      /\ stopCauses.run \in FailureClasses => manifest.coverage[f].class = stopCauses.run
      /\ stopCauses.run = Unset /\ stopCauses.pending # Unset
           => manifest.coverage[f].class = stopCauses.pending

\* A call that returns an error, Finalize included, leaves the builder as it
\* was: a caller can repair the input and still record the real outcome.
ErrorChangesNothing == [][lastCall' = "error" => UNCHANGED builder]_manVars

-----------------------------------------------------------------------------
(* The promise it implements. *)

C == INSTANCE Coverage WITH
  Files <- Items,
  items <- [f \in Items |-> entries[f].state],
  stage <- IF frozen THEN "frozen" ELSE IF sealed THEN "sealed" ELSE "open"

\* The builder keeps the promise of module Coverage.
KeepsPromise == C!CovSpec
=============================================================================
