------------------------------ MODULE AgentRun ------------------------------
(***************************************************************************)
(* The attempts of one review job: RunComponent loads the checkpoints of   *)
(* earlier sessions, the agent reuses what they cover and reviews the      *)
(* other files concurrently, comments are located by a pool of goroutines  *)
(* and collected, each file's comments are filtered, every outcome goes    *)
(* into the manifest and into the session's file.  The process may be      *)
(* killed between any two steps; a later attempt resumes.                  *)
(*                                                                         *)
(* A file's goroutine is cut where it waits for the model, the pool or a   *)
(* semaphore.  The conversation itself is module Conversation.             *)
(***************************************************************************)
EXTENDS SessionLog, FiniteSets

CONSTANTS
  Concurrencies,    \* values of opts.Concurrency
  ReviewFilter,     \* the template has a REVIEW_FILTER_TASK
  MaxFindings,      \* bound: code_comment calls of all attempts
  MaxAttempts,      \* bound: attempts of the job
  PastComments      \* what another job's session may hold of a file

ASSUME AgentAssumption ==
  /\ Concurrencies \subseteq Nat \ {0}
  /\ ReviewFilter \in BOOLEAN
  /\ MaxFindings \in Nat /\ MaxAttempts \in Nat
  /\ PastComments \in [Files -> {NoItem} \union Seq(Finding)]
  /\ \A f \in Files : PastComments[f] \in {NoItem} \union Seq([path : {f}, id : Nat])

VARIABLES
  concurrency,  \* opts.Concurrency: files at once, and comments at once
  own,        \* the file of the job's own session
  past,       \* checkpoints of another job's session
  attempt,    \* attempts so far
  phase,      \* where Run is; "idle" between attempts
  ctx,        \* the review's context: "live" or "done"
  resume,     \* the merged checkpoints
  appending,  \* appendExisting
  collector,  \* CommentCollector.comments
  pc,         \* where each file's goroutine is
  finished,   \* files whose main loop ended with task_done
  said,       \* the findings of the attempt's code_comment calls
  made,       \* how many findings the attempts of the job had so far
  units,      \* the pool's work: comments to be located and added
  seen,       \* the comments executeReviewFilter showed the model
  outcome,    \* the manifest's state of each item
  hard,       \* files counted in subtaskFailed
  failed,     \* Run's error is set
  dropped     \* history: comments lost in a panic or named by the filter

runVars == <<ctx, resume, appending, collector, pc, finished, said, units,
             seen, outcome, hard, failed, dropped>>
jobVars == <<concurrency, past, attempt, made>>
vars == <<own, jobVars, phase, runVars>>

Phases == {"idle", "load", "resume", "dispatch", "analysis", "finalize"}
Places == {"waiting", "review", "drain", "filter", "verdict", "over"}
Covered == {"completed", "reused"}

Init ==
  /\ concurrency \in Concurrencies
  /\ own = NewSession
  /\ \E known \in SUBSET Files :
       past = [f \in Files |-> IF f \in known THEN PastComments[f] ELSE NoItem]
  /\ attempt = 0 /\ phase = "idle" /\ ctx = "live"
  /\ resume = NoCheckpoints /\ appending = FALSE
  /\ collector = <<>>
  /\ pc = [f \in Files |-> "waiting"]
  /\ finished = {}
  /\ said = {} /\ made = 0
  /\ units = {}
  /\ seen = [f \in Files |-> <<>>]
  /\ outcome = [f \in Files |-> "selected"]
  /\ hard = {} /\ failed = FALSE /\ dropped = {}

-----------------------------------------------------------------------------
(* CommentCollector. *)

\* The comments at the positions in S, in their order: the k-th is at the
\* position that has k of S up to it.
Rank(S, i) == Cardinality({j \in S : j <= i})
Subsequence(comments, S) ==
  [k \in 1..Cardinality(S) |-> comments[CHOOSE i \in S : Rank(S, i) = k]]

CommentsForPath(comments, f) ==
  Subsequence(comments, {i \in DOMAIN comments : comments[i].path = f})

\* The position of the i-th comment among those of its path.
PathIndex(comments, i) ==
  Cardinality({j \in 1..i : comments[j].path = comments[i].path})

\* Mutant of RemoveByPathAndIndices: the index runs over all comments.
RemoveByIndices(comments, f, indices) ==
  Subsequence(comments, {i \in DOMAIN comments :
                           ~(comments[i].path = f /\ i \in indices)})

RemoveByPathAndIndices(comments, f, indices) ==
  Subsequence(comments, {i \in DOMAIN comments :
                           ~(comments[i].path = f /\ PathIndex(comments, i) \in indices)})

-----------------------------------------------------------------------------
(* Starting an attempt. *)

Unstarted ==
  /\ ctx' = "live"
  /\ collector' = <<>>
  /\ pc' = [f \in Files |-> "waiting"]
  /\ finished' = {}
  /\ said' = {}
  /\ units' = {}
  /\ seen' = [f \in Files |-> <<>>]
  /\ outcome' = [f \in Files |-> "selected"]
  /\ hard' = {} /\ failed' = FALSE /\ dropped' = {}

\* RunComponent up to Run: the sessions are read before the job's own is
\* opened.  Its id is the job's, once an attempt has reported it.
OpenSession ==
  /\ phase = "idle" /\ attempt < MaxAttempts
  /\ attempt' = attempt + 1
  /\ resume' = MergeResumeStates(LoadResumeState(own), past)
  /\ appending' = own.created
  /\ own' = Opened(own)
  /\ phase' = "load"
  /\ Unstarted
  /\ UNCHANGED <<concurrency, past, made>>

\* loadDiffs fails: the run ends, its session is finalized.
LoadFails ==
  /\ phase = "load"
  /\ phase' = "idle" /\ failed' = TRUE
  /\ own' = Flushed(own)
  /\ UNCHANGED <<jobVars, ctx, resume, appending, collector, pc, finished,
                 said, units, seen, outcome, hard, dropped>>

\* loadDiffs and registerCoverage: every file is selected.
Select ==
  /\ phase = "load" /\ phase' = "resume"
  /\ UNCHANGED <<own, jobVars, runVars>>

\* applyResume, one file.
Reuse(f) ==
  /\ phase = "resume"
  /\ resume[f] # NoItem /\ outcome[f] = "selected"
  /\ collector' = collector \o resume[f]
  /\ own' = Recorded(own, "reused", f, ReusedComments(appending, resume[f]))
  /\ outcome' = [outcome EXCEPT ![f] = "reused"]
  /\ UNCHANGED <<jobVars, phase, ctx, resume, appending, pc, finished, said,
                 units, seen, hard, failed, dropped>>

Dispatch ==
  /\ phase = "resume"
  /\ \A f \in Files : resume[f] # NoItem => outcome[f] = "reused"
  /\ phase' = "dispatch"
  /\ UNCHANGED <<own, jobVars, runVars>>

-----------------------------------------------------------------------------
(* A file's goroutine. *)

Active == {f \in Files : pc[f] \notin {"waiting", "over"}}

StartFile(f) ==
  /\ phase = "dispatch"
  /\ pc[f] = "waiting" /\ outcome[f] = "selected"
  /\ Cardinality(Active) < concurrency
  /\ pc' = [pc EXCEPT ![f] = "review"]
  /\ UNCHANGED <<own, jobVars, phase, ctx, resume, appending, collector,
                 finished, said, units, seen, outcome, hard, failed,
                 dropped>>

\* markFailed, RecordReviewItemFailed and the end of the goroutine.  The
\* manifest's class of the failure is left out: nothing depends on it.
FailItem(f, counted) ==
  /\ pc' = [pc EXCEPT ![f] = "over"]
  /\ outcome' = [outcome EXCEPT ![f] = "failed"]
  /\ hard' = IF counted THEN hard \union {f} ELSE hard
  /\ own' = Recorded(own, "failed", f, <<>>)
  /\ UNCHANGED <<jobVars, phase, ctx, resume, appending, collector,
                 finished, said, units, seen, failed, dropped>>

\* The rendered prompt is over the limit; the conversation never starts.
PromptTooLarge(f) ==
  /\ pc[f] = "review" /\ ctx = "live"
  /\ \A c \in said : c.path # f
  /\ FailItem(f, FALSE)

\* A code_comment call: SubmitFor.
Submit(f) ==
  /\ pc[f] = "review" /\ ctx = "live" /\ made < MaxFindings
  /\ made' = made + 1
  /\ LET finding == [path |-> f, id |-> made'] IN
       /\ said' = said \union {finding}
       /\ units' = units \union {[finding |-> finding, at |-> "queued"]}
  /\ own' = Buffered(own)
  /\ UNCHANGED <<concurrency, past, attempt, phase, ctx, resume, appending,
                 collector, pc, finished, seen, outcome, hard, failed,
                 dropped>>

\* RunPerFile returns without an error, by task_done or at a limit.
MainLoopEnds(f) ==
  /\ pc[f] = "review" /\ ctx = "live"
  /\ pc' = [pc EXCEPT ![f] = "drain"]
  /\ finished' \in {finished, finished \union {f}}
  /\ own' = Buffered(own)
  /\ UNCHANGED <<jobVars, phase, ctx, resume, appending, collector, said,
                 units, seen, outcome, hard, failed, dropped>>

\* The provider fails, task_done says FAILED, the context is done or the
\* goroutine panics: its comments still in the pool are not waited for.
ReviewFails(f) ==
  /\ pc[f] = "review"
  /\ FailItem(f, TRUE)

\* The deferred recover of the goroutine, here for a panic in the filter.
ReviewPanics(f) ==
  /\ pc[f] = "filter"
  /\ FailItem(f, TRUE)

UnitsOf(f) == {u \in units : u.finding.path = f}

AfterDrain(f) ==
  LET comments == CommentsForPath(collector, f)
      filtered == ReviewFilter /\ comments # <<>>
  IN  /\ pc' = [pc EXCEPT ![f] = IF filtered THEN "filter" ELSE "verdict"]
      /\ seen' = [seen EXCEPT ![f] = IF filtered THEN comments ELSE <<>>]
      /\ UNCHANGED <<own, jobVars, phase, ctx, resume, appending, collector,
                     finished, said, units, outcome, hard, failed, dropped>>

\* Mutant of AwaitKey: the filter does not wait for the pool.
FilterAtOnce(f) == pc[f] = "drain" /\ AfterDrain(f)

\* AwaitKey(newPath), then executeReviewFilter reads the file's comments.
AwaitKey(f) == pc[f] = "drain" /\ UnitsOf(f) = {} /\ AfterDrain(f)

\* The model names comments by their index, or its call fails.
FilterAnswers(f) ==
  /\ pc[f] = "filter"
  /\ \E indices \in IF ctx = "live" THEN SUBSET DOMAIN seen[f] ELSE {{}} :
       /\ collector' = RemoveByPathAndIndices(collector, f, indices)
       /\ dropped' = dropped \union {seen[f][i] : i \in indices}
  /\ seen' = [seen EXCEPT ![f] = <<>>]
  /\ pc' = [pc EXCEPT ![f] = "verdict"]
  /\ own' = Buffered(own)
  /\ UNCHANGED <<jobVars, phase, ctx, resume, appending, finished, said,
                 units, outcome, hard, failed>>

Complete(f) ==
  /\ pc' = [pc EXCEPT ![f] = "over"]
  /\ outcome' = [outcome EXCEPT ![f] = "completed"]
  /\ own' = Recorded(own, "done", f, CommentsForPath(collector, f))
  /\ UNCHANGED <<jobVars, phase, ctx, resume, appending, collector,
                 finished, said, units, seen, hard, failed, dropped>>

\* The main loop stopped at its rounds, at empty rounds or over its tokens.
StopShort(f) == FailItem(f, TRUE)

Verdict(f) ==
  /\ pc[f] = "verdict"
  /\ \/ f \in finished /\ Complete(f)
     \/ f \notin finished /\ StopShort(f)

-----------------------------------------------------------------------------
(* CommentWorkerPool. *)

Running == {u \in units : u.at = "running"}

UnitStarts(u) ==
  /\ u.at = "queued" /\ Cardinality(Running) < concurrency
  /\ units' = (units \ {u}) \union {[u EXCEPT !.at = "running"]}
  /\ UNCHANGED <<own, jobVars, phase, ctx, resume, appending, collector, pc,
                 finished, said, seen, outcome, hard, failed, dropped>>

\* The comment is located, by a call of the model if need be, and added.
UnitAdds(u) ==
  /\ u.at = "running"
  /\ units' = units \ {u}
  /\ collector' = Append(collector, u.finding)
  /\ own' = Buffered(own)
  /\ UNCHANGED <<jobVars, phase, ctx, resume, appending, pc, finished, said,
                 seen, outcome, hard, failed, dropped>>

\* Mutant of UnitPanics: the unit is not done.
UnitPanicsUndone(u) ==
  /\ u.at = "running" /\ u.finding \notin dropped
  /\ dropped' = dropped \union {u.finding}
  /\ units' = (units \ {u}) \union {[u EXCEPT !.at = "dead"]}
  /\ UNCHANGED <<own, jobVars, phase, ctx, resume, appending, collector, pc,
                 finished, said, seen, outcome, hard, failed>>

UnitPanics(u) ==
  /\ u.at = "running"
  /\ dropped' = dropped \union {u.finding}
  /\ units' = units \ {u}
  /\ UNCHANGED <<own, jobVars, phase, ctx, resume, appending, collector, pc,
                 finished, said, seen, outcome, hard, failed>>

-----------------------------------------------------------------------------
(* The end of an attempt. *)

Dispatched == {f \in Files : pc[f] # "waiting"}
Reused == {f \in Files : outcome[f] = "reused"}

\* Mutant of Collect: only the files that were dispatched are waited for.
CollectDispatched ==
  /\ phase = "dispatch"
  /\ Active = {} /\ units = {}
  /\ failed' = (hard # {} /\ hard = Dispatched /\ Reused = {})
  /\ phase' = "analysis"
  /\ UNCHANGED <<own, jobVars, ctx, resume, appending, collector, pc,
                 finished, said, units, seen, outcome, hard, dropped>>

\* wg.Wait, Await; an error when every dispatched file failed, none reused.
Collect ==
  /\ phase = "dispatch"
  /\ \A f \in Files : pc[f] = "over" \/ outcome[f] = "reused"
  /\ units = {}
  /\ failed' = (hard # {} /\ hard = Dispatched /\ Reused = {})
  /\ phase' = "analysis"
  /\ UNCHANGED <<own, jobVars, ctx, resume, appending, collector, pc,
                 finished, said, units, seen, outcome, hard, dropped>>

\* generateChangeAnalysis, whose failure is the run's.
Analyse ==
  /\ phase = "analysis" /\ phase' = "finalize"
  /\ \/ failed' = TRUE
     \/ ctx = "live" /\ UNCHANGED failed
  /\ own' = Buffered(own)
  /\ UNCHANGED <<jobVars, ctx, resume, appending, collector, pc, finished,
                 said, units, seen, outcome, hard, dropped>>

\* finalizeManifest and session_end.
FinalizeManifest ==
  /\ phase = "finalize" /\ phase' = "idle"
  /\ own' = Flushed(own)
  /\ UNCHANGED <<jobVars, runVars>>

\* computeTerminal of the manifest Finalize froze.
RunTerminalState ==
  LET bad == {f \in Files : outcome[f] = "failed"}
  IN  CASE bad = {} -> "complete"
        [] bad = Files -> "failed"
        [] OTHER -> "partial"

\* Finalize closed the attempt's manifest: every item has an outcome.
Ended == phase = "idle" /\ \A f \in Files : outcome[f] # "selected"

CoverageIncomplete == {f \in Files : outcome[f] = "failed"} # {}

\* IsBlocking, of the result Run returned without an error.  Every finding
\* has one of the blocking severities.
IsBlocking ==
  \/ collector # <<>>
  \/ RunTerminalState \in {"partial", "failed"}
  \/ CoverageIncomplete

-----------------------------------------------------------------------------
(* What ends a review from outside. *)

\* A newer head, the review's timeout or a shutdown.
CtxEnds ==
  /\ phase # "idle" /\ ctx = "live"
  /\ ctx' = "done"
  /\ UNCHANGED <<own, jobVars, phase, resume, appending, collector, pc,
                 finished, said, units, seen, outcome, hard, failed,
                 dropped>>

\* The process ends: a crash, or main's return while reviews still run.
Kill ==
  /\ phase # "idle" /\ phase' = "idle"
  /\ own' \in Killed(own)
  /\ resume' = NoCheckpoints /\ UNCHANGED appending
  /\ Unstarted
  /\ UNCHANGED jobVars

FileStep(f) ==
  \/ Reuse(f) \/ StartFile(f) \/ PromptTooLarge(f) \/ Submit(f)
  \/ MainLoopEnds(f) \/ ReviewFails(f) \/ ReviewPanics(f) \/ AwaitKey(f)
  \/ FilterAnswers(f) \/ Verdict(f)

UnitStep(u) == UnitStarts(u) \/ UnitAdds(u) \/ UnitPanics(u)

RunStep ==
  \/ LoadFails \/ Select \/ Dispatch \/ Collect \/ Analyse \/ FinalizeManifest
  \/ \E f \in Files : FileStep(f)
  \/ \E u \in units : UnitStep(u)

Next == OpenSession \/ RunStep \/ CtxEnds \/ Kill

Spec == Init /\ [][Next]_vars

\* The goroutines run and the calls they wait for return.
FairSpec == Spec /\ WF_vars(RunStep)

-----------------------------------------------------------------------------
(* Properties. *)

\* The variables keep their types.
AgentTypeOK ==
  /\ concurrency \in Concurrencies
  /\ own \in Session
  /\ past \in [Files -> {NoItem} \union Seq(Finding)]
  /\ attempt \in 0..MaxAttempts /\ phase \in Phases
  /\ ctx \in {"live", "done"}
  /\ resume \in [Files -> {NoItem} \union Seq(Finding)]
  /\ appending \in BOOLEAN
  /\ collector \in Seq(Finding)
  /\ pc \in [Files -> Places]
  /\ finished \subseteq Files /\ hard \subseteq Files
  /\ said \subseteq Finding /\ made \in 0..MaxFindings
  /\ units \subseteq [finding : Finding, at : {"queued", "running"}]
  /\ seen \in [Files -> Seq(Finding)]
  /\ outcome \in [Files -> {"selected", "failed"} \union Covered]
  /\ failed \in BOOLEAN
  /\ dropped \subseteq Finding

FindingsReused == UNION {ToSet(resume[f]) : f \in Reused}

\* The collector holds every finding of the attempt that is not on its way,
\* lost in a panic or named by the filter, and every reused one, and nothing
\* else: the indices the model answers with remove what it was shown, however
\* the goroutines of other files add meanwhile (RemoveByPathAndIndices).
CommentsAccounted ==
  phase # "idle" =>
    ToSet(collector) =
      ((said \ {u.finding : u \in units}) \ dropped)
        \union FindingsReused

\* What the session's file says of a completed file is what the attempt has
\* for it: no comment arrives after the checkpoint was written (AwaitKey).
CompletedIsRecorded ==
  \A f \in Files : outcome[f] = "completed" =>
    Checkpoint(own.lines, f) = CommentsForPath(collector, f)

\* The manifest and the session's file agree on what is covered, also after
\* a resumed attempt: a file has a checkpoint exactly when it is covered.
CoverageMatchesRecords ==
  Ended /\ ~own.torn =>
    \A f \in Files : outcome[f] \in Covered <=> Checkpoint(own.lines, f) # NoItem

\* A result that lets the merge request pass is earned: every selected file
\* was reviewed to its end, now or by the attempt it is reused from, and no
\* finding was dropped but by the filter or a panic (IsBlocking).
PassIsEarned ==
  Ended /\ ~failed /\ ~IsBlocking =>
    /\ finished \union Reused = Files
    /\ said \subseteq dropped

\* Collector, manifest, session file and the result agree on every file.
OutcomesAgree ==
  AgentTypeOK /\ CompletedIsRecorded /\ CoverageMatchesRecords /\ PassIsEarned

\* No attempt loses a checkpoint that an earlier one wrote: a file with one
\* is not dispatched again, to fail (applyResume's continue).
CheckpointsKept ==
  [][~own.torn => \A f \in Files :
       Checkpoint(own.lines, f) # NoItem =>
         Checkpoint(own'.lines, f) # NoItem]_vars

\* Every attempt ends: neither the files' semaphore nor the pool's nor
\* AwaitKey keeps it waiting for ever, also when a unit panics.
RunEnds == (phase # "idle") ~> (phase = "idle")

\* The manifest of each attempt, as module Coverage sees it: nothing is
\* registered before the diff is loaded.
Unregistered ==
  \/ phase = "load"
  \/ phase = "idle" /\ \A f \in Files : outcome[f] = "selected"

Attempt == INSTANCE Coverage WITH
  items <- [f \in Files |-> IF Unregistered THEN "none" ELSE outcome[f]],
  stage <- IF Unregistered THEN "open" ELSE IF phase = "idle" THEN "frozen" ELSE "sealed"

\* The agent's goroutines keep the promise of module Coverage: every file is
\* registered before one is dispatched, each gets one outcome, however its
\* review ends, and Finalize finds none without one (registerCoverage,
\* applyResume, the deferred recover, wg.Wait).
CoverageRefined == Attempt!CovSpec

\* "a hard kill falls back to the per-item checkpoints" (manifest.go:759):
\* the next attempt finds every checkpoint that reached the file.
CheckpointsSurviveKill ==
  \A f \in Files : Checkpoint(own.lines, f) # NoItem =>
    LoadResumeState(own)[f] # NoItem

=============================================================================
