----------------------------- MODULE SessionLog -----------------------------
(***************************************************************************)
(* The JSONL file of a review session: the lines a review appends to it,   *)
(* what a kill of the process leaves of them, and the checkpoints a later  *)
(* attempt reads back.                                                     *)
(*                                                                         *)
(* Only the review_item lines matter to resume.  Lines of LLM traffic go   *)
(* through the same buffered writer but are not flushed: dirty says that   *)
(* some are in the buffer, which spills into the file at any byte.  A file *)
(* that ends inside a line is torn: the next line is appended to it, and   *)
(* LoadResumeState refuses the whole file.                                 *)
(***************************************************************************)
EXTENDS Integers, Sequences, SequencesExt

CONSTANTS
  Files,    \* the reviewable diffs, a path and a fingerprint each
  NoItem    \* resume.Item: no checkpoint

Finding == [path : Files, id : Nat]

ASSUME SessionAssumption == NoItem \notin Seq(Finding)

Line == [type : {"done", "reused", "failed"}, path : Files,
         comments : Seq(Finding)]

Session == [created : BOOLEAN, lines : Seq(Line), dirty : BOOLEAN,
            torn : BOOLEAN]

NewSession == [created |-> FALSE, lines |-> <<>>, dirty |-> FALSE,
               torn |-> FALSE]

-----------------------------------------------------------------------------
(* Writing. *)

Opened(s) == [s EXCEPT !.created = TRUE]

\* LLM requests and responses stay in the buffer.
Buffered(s) == [s EXCEPT !.dirty = TRUE]

Flushed(s) == [s EXCEPT !.dirty = FALSE]

Recorded(s, type, f, comments) ==
  LET line == [type |-> type, path |-> f, comments |-> comments]
  IN  [Flushed(s) EXCEPT !.lines = Append(@, line)]

\* A session that is appended to does not repeat the comments it reuses.
ReusedComments(appendExisting, comments) ==
  IF appendExisting THEN <<>> ELSE comments

\* What the file may be after a kill.
Killed(s) ==
  IF s.dirty THEN {Flushed(s), [Flushed(s) EXCEPT !.torn = TRUE]} ELSE {s}

-----------------------------------------------------------------------------
(* Reading. *)

\* applyResumeLine, for one fingerprint.
Applied(item, line) ==
  CASE line.type = "done" -> line.comments
    [] line.type = "failed" -> NoItem
    [] line.type = "reused" ->
         IF line.comments = <<>> /\ item # NoItem THEN item ELSE line.comments

\* The checkpoint of f after reading the lines.
Checkpoint(lines, f) ==
  LET after[n \in 0..Len(lines)] ==
        IF n = 0 THEN NoItem
        ELSE IF lines[n].path # f THEN after[n - 1]
        ELSE Applied(after[n - 1], lines[n])
  IN  after[Len(lines)]

NoCheckpoints == [f \in Files |-> NoItem]

\* LoadResumeState; RunComponent goes on without a session it cannot load.
LoadResumeState(s) ==
  IF s.torn THEN NoCheckpoints
  ELSE [f \in Files |-> Checkpoint(s.lines, f)]

\* Mutant of MergeResumeStates: the job's own session is forgotten.
MergeLaterOnly(first, second) == second

\* MergeResumeStates: the first history that has a fingerprint wins.
MergeResumeStates(first, second) ==
  [f \in Files |-> IF first[f] # NoItem THEN first[f] ELSE second[f]]

=============================================================================
