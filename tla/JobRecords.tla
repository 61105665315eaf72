---------------------------- MODULE JobRecords -----------------------------
(***************************************************************************)
(* What the database records of one running review and what an open        *)
(* console page shows of it: the job's counters, its findings, the events  *)
(* of the store's event bus, and the page that reads the review again when *)
(* an event tells it to.                                                   *)
(*                                                                         *)
(* The callbacks of the review write beside the worker; each write is a    *)
(* statement, and then an event row with a message on the bus, which may   *)
(* take three steps more.                                                  *)
(* The page's subscription is to the events of all jobs, and the page      *)
(* itself picks those of its review.  Here the job keeps its lease while   *)
(* it is worked on and no administrator acts on it; ReviewStore has those. *)
(***************************************************************************)
EXTENDS Naturals, FiniteSets, Sequences

CONSTANTS
  Reporters,    \* goroutines of the review that call OnProgress and OnUsage
  MainRun,      \* the goroutine of the worker
  Others,       \* goroutines that write about other jobs
  Findings,     \* findings, told apart by the columns of the unique key
  BusCapacity,  \* buffer of a subscriber's channel, 64 in the code
  Figures,      \* progress and totals of tokens a review reports, and those of
  NoFigures,    \* a job of which nothing is known
  MaxCalls,     \* bound: reports of a job
  MaxAttempts,  \* bound: attempts
  MaxBroken     \* bound: statements that fail, streams that end, and kills

ASSUME JobRecordsAssumption ==
  /\ MainRun \notin Reporters /\ Others \intersect (Reporters \union {MainRun}) = {}
  /\ NoFigures \in Figures
  /\ BusCapacity \in Nat \ {0} /\ {MaxCalls, MaxAttempts, MaxBroken} \subseteq Nat

Writers == Reporters \union {MainRun} \union Others
Told == {"nothing", "analysis_log", "usage_updated", "progress_updated",
         "finding_updated", "stage_started",
         "job_finished", "retry_scheduled", "other_job"}

VARIABLES
  row,       \* the row: state, progress and tokens, and if it has an artifact_dir
  stored,    \* the rows of review_finding
  artifact,  \* the comments in ocr-result.json, none if it cannot be read
  outcome,   \* the comments of the result that RunComponent returned
  runAt,     \* where the worker is after the review
  leftover,  \* findings ReplaceFindings has still to insert
  writeAt,   \* where each writer is in its chain: statement, event, bus
  telling,   \* the event each writer carries
  attempt, calls, broken,
  channel,   \* the page's subscription: of each event in its buffer, whether it
             \* makes the page read the review again
  streaming, \* the page has a subscription
  fetch,     \* the page's last request: its stage, whether the result of the
             \* job could be parsed, and what it has read
  missed,    \* history: the page was not told of a change since it last read
  owed       \* history: one was discarded and none has been received since

recVars == <<row, stored, artifact, outcome, runAt, leftover, writeAt, telling,
             attempt, calls, broken, channel, streaming, fetch, missed, owed>>
pageVars == <<channel, streaming, fetch>>
runVars == <<artifact, outcome, runAt, leftover, attempt>>

Unread == [state |-> "none", figures |-> NoFigures, findings |-> {}]
Asked == [stage |-> "asked", parsed |-> FALSE, seen |-> Unread]

RecInit ==
  /\ row = [state |-> "running", figures |-> NoFigures, filed |-> FALSE]
  /\ stored = {} /\ artifact = {} /\ outcome = {}
  /\ runAt = "reviewing" /\ leftover = {}
  /\ writeAt = [w \in Writers |-> "idle"]
  /\ telling = [w \in Writers |-> "nothing"]
  /\ attempt = 1 /\ calls = 0 /\ broken = 0
  /\ channel = <<>> /\ streaming = FALSE
  /\ fetch = Asked /\ missed = FALSE /\ owed = FALSE

Works(ok) ==
  /\ ok \/ broken < MaxBroken
  /\ broken' = IF ok THEN broken ELSE broken + 1

-----------------------------------------------------------------------------
(* Writers: a statement, then RecordEvent with publishEvent. *)

\* A writer that is idle carries nothing.
Done(w) ==
  /\ writeAt' = [writeAt EXCEPT ![w] = "idle"]
  /\ telling' = [telling EXCEPT ![w] = "nothing"]

Tells(w, type) ==
  /\ writeAt' = [writeAt EXCEPT ![w] = "record"]
  /\ telling' = [telling EXCEPT ![w] = type]

Idle(w) == writeAt[w] = "idle"

\* Only an event of the page's own job that is no log makes it read again.
Invalidates(type) == type \notin {"analysis_log", "other_job"}

\* An event is lost on its way, which matters if it would have been heeded.
Lost(heeded) == missed' = (missed \/ heeded)

\* Something happens to another job: the row is another one, the bus the same.
Elsewhere(w) ==
  /\ Idle(w) /\ Tells(w, "other_job")
  /\ UNCHANGED <<row, stored, runVars, calls, broken, pageVars, missed, owed>>

Report(w) ==
  /\ writeAt[w] = "idle" /\ calls < MaxCalls /\ calls' = calls + 1

\* SetProgress: the last callback to write wins.
SetProgress(w) ==
  /\ Report(w) /\ runAt = "reviewing"
  /\ \E n \in Figures : row' = [row EXCEPT !.figures = n]
  /\ Tells(w, "progress_updated")
  /\ UNCHANGED <<stored, runVars, broken, pageVars, missed, owed>>

\* SetUsage, which tells of it even where the row has a larger total and keeps
\* it; also by a background compression after the review has ended.
OnUsage(w) ==
  /\ Report(w)
  /\ \E n \in Figures : row' = [row EXCEPT !.figures = n]
  /\ Tells(w, "usage_updated")
  /\ UNCHANGED <<stored, runVars, broken, pageVars, missed, owed>>

\* OnProgress without a finding: an analysis_log event only.
Log(w) ==
  /\ Report(w) /\ runAt = "reviewing"
  /\ Tells(w, "analysis_log")
  /\ UNCHANGED <<row, stored, runVars, broken, pageVars, missed, owed>>

\* RecordFinding from OnProgress: an upsert, whose failure is only logged.
LiveFinding(w) ==
  /\ Report(w) /\ runAt = "reviewing"
  /\ \E ok \in BOOLEAN, f \in Findings :
       /\ Works(ok)
       /\ IF ok THEN stored' = stored \union {f} /\ Tells(w, "finding_updated")
                ELSE UNCHANGED <<stored, writeAt, telling>>
  /\ UNCHANGED <<row, runVars, pageVars, missed, owed>>

Room == Len(channel) < BusCapacity

\* publishEvent without a subscriber, into a buffer with room, or not at once.
Send(w) ==
  \/ /\ ~streaming
     /\ Done(w) /\ Lost(Invalidates(telling[w])) /\ UNCHANGED channel
  \/ /\ streaming /\ Room
     /\ Done(w) /\ channel' = Append(channel, Invalidates(telling[w])) /\ UNCHANGED missed
  \/ /\ streaming /\ ~Room
     /\ writeAt' = [writeAt EXCEPT ![w] = "drop"] /\ UNCHANGED <<telling, channel, missed>>

\* RecordEvent: the event's row, which nobody reads here, and then its message; a
\* failure is ignored, except by ReplaceFindings.
RecordEvent(w) ==
  /\ writeAt[w] = "record"
  /\ \E ok \in BOOLEAN :
       /\ Works(ok)
       /\ IF ok THEN Send(w)
                ELSE Done(w) /\ Lost(Invalidates(telling[w])) /\ UNCHANGED channel
       /\ runAt' = IF ~ok /\ w = MainRun /\ runAt = "insert" THEN "failed"
                   ELSE runAt
  /\ UNCHANGED <<row, stored, artifact, outcome, leftover, attempt, calls,
                 streaming, fetch, owed>>

\* The default branch: one event, of whatever job, is taken out, if the page has
\* not been faster.
DropOldest(w) ==
  /\ writeAt[w] = "drop"
  /\ writeAt' = [writeAt EXCEPT ![w] = "resend"]
  /\ IF channel = <<>> THEN UNCHANGED <<channel, missed, owed>>
     ELSE channel' = Tail(channel) /\ Lost(Head(channel)) /\ owed' = TRUE
  /\ UNCHANGED <<row, stored, runVars, telling, calls, broken, streaming, fetch>>

\* Mutant of Resend: the event that found no room is not sent again.
ResendNothing(w) ==
  /\ writeAt[w] = "resend" /\ Done(w)
  /\ UNCHANGED <<row, stored, runVars, calls, broken, pageVars, missed, owed>>

\* Another publisher may have taken the place: the event is then discarded.
Resend(w) ==
  /\ writeAt[w] = "resend"
  /\ Done(w)
  /\ IF Room /\ streaming
     THEN channel' = Append(channel, Invalidates(telling[w])) /\ UNCHANGED <<missed, owed>>
     ELSE UNCHANGED channel /\ Lost(Invalidates(telling[w])) /\ owed' = streaming
  /\ UNCHANGED <<row, stored, runVars, calls, broken, streaming, fetch>>

-----------------------------------------------------------------------------
(* The worker, from the return of RunComponent to the end of the job. *)

MainAt(here) == runAt = here /\ Idle(MainRun)

\* The callbacks of files and comments have returned; usage may still come.
ReviewReturns ==
  /\ MainAt("reviewing")
  /\ \A w \in Reporters : Idle(w) \/ telling[w] = "usage_updated"
  /\ outcome' \in SUBSET Findings
  /\ runAt' \in {"replace", "failed"}
  /\ UNCHANGED <<row, stored, artifact, leftover, writeAt, telling, attempt,
                 calls, broken, pageVars, missed, owed>>

\* Mutant of Kept: the findings are added to those the callbacks stored.
KeptAll == stored

Kept == {}

\* ReplaceFindings: DELETE, which tells nobody.
DeleteFindings ==
  /\ MainAt("replace")
  /\ \E ok \in BOOLEAN :
       /\ Works(ok)
       /\ stored' = IF ok THEN Kept ELSE stored
       /\ runAt' = IF ok THEN "insert" ELSE "failed"
  /\ leftover' = outcome
  /\ UNCHANGED <<row, artifact, outcome, attempt, writeAt, telling, calls,
                 pageVars, missed, owed>>

\* ReplaceFindings: RecordFinding one by one; an error ends the loop.
InsertFinding ==
  /\ MainAt("insert")
  /\ \E f \in leftover, ok \in BOOLEAN :
       /\ Works(ok)
       /\ stored' = IF ok THEN stored \union {f} ELSE stored
       /\ leftover' = leftover \ {f}
       /\ IF ok THEN Tells(MainRun, "finding_updated") /\ UNCHANGED runAt
                ELSE runAt' = "failed" /\ UNCHANGED <<writeAt, telling>>
  /\ UNCHANGED <<row, artifact, outcome, attempt, calls, pageVars, missed, owed>>

\* WriteResult, also of a result that came with an error, or whose findings
\* could not be stored; a write that fails leaves no file that can be parsed.
WriteResult ==
  /\ MainAt("failed") \/ (MainAt("insert") /\ leftover = {})
  /\ \E ok \in BOOLEAN :
       /\ Works(ok)
       /\ artifact' = IF ok THEN {outcome} ELSE {}
       /\ runAt' = IF ok /\ runAt = "insert" THEN "publish" ELSE "retry"
  /\ UNCHANGED <<row, stored, outcome, leftover, attempt, writeAt, telling, calls,
                 pageVars, missed, owed>>

\* Enqueue makes the row of an older revision stale, in whatever place its
\* worker is, and records no event for it.
Supersede ==
  /\ row.state \in {"running", "retry_wait"}
  /\ row' = [row EXCEPT !.state = "stale"] /\ missed' = TRUE
  /\ runAt' = IF runAt = "waiting" THEN "ended" ELSE runAt
  /\ UNCHANGED <<stored, artifact, outcome, leftover, attempt, writeAt, telling, calls,
                 broken, pageVars, owed>>

\* Between a change that was not told and the event, the end or the restart that
\* follows it.
Untold == runAt \in {"insert", "failed", "publish", "retry", "abandoned"}

\* jobSuperseded, or the watcher's cause: the worker leaves without a word.
Leave ==
  /\ row.state = "stale" /\ \E here \in {"publish", "retry", "finish"} : MainAt(here)
  /\ runAt' = "ended" /\ missed' = (missed \/ Untold)
  /\ UNCHANGED <<row, stored, artifact, outcome, leftover, attempt, writeAt, telling,
                 calls, broken, pageVars, owed>>

\* SetStage publishing.
StartPublishing ==
  /\ MainAt("publish") /\ runAt' = "finish" /\ Tells(MainRun, "stage_started")
  /\ UNCHANGED <<row, stored, artifact, outcome, leftover, attempt, calls, broken,
                 pageVars, missed, owed>>

\* Finish and RetryAfter, with the usage of the result or none, leave a stale row
\* alone, but tell of it all the same; if the statement fails, the row stays as it
\* is and nobody works on it.
Ends(state, filed, type) ==
  /\ \E ok \in BOOLEAN, n \in Figures :
       /\ Works(ok)
       /\ IF ok
          THEN /\ row' = IF row.state = "stale" /\ state # "stale" THEN row
                         ELSE [row EXCEPT !.state = state, !.figures = n, !.filed = filed]
               /\ runAt' = IF row'.state = "retry_wait" THEN "waiting" ELSE "ended"
               /\ Tells(MainRun, type)
          ELSE UNCHANGED <<row, writeAt, telling>> /\ runAt' = "abandoned"
  /\ UNCHANGED <<stored, artifact, outcome, leftover, attempt, calls, pageVars,
                 missed, owed>>

\* MarkStale: ensureCurrent or ensureTargetCurrent fails.
FinishStale ==
  /\ MainAt("publish") \/ MainAt("retry")
  /\ Ends("stale", FALSE, "job_finished")

\* Finish: completed.
FinishCompleted == MainAt("finish") /\ Ends("completed", TRUE, "job_finished")

\* RetryAfter; an error of the model's configuration is retried at any attempt.
ScheduleAgain == MainAt("retry") /\ Ends("retry_wait", TRUE, "retry_scheduled")

\* finishInfra, which names no artifact: the attempts are used up, or
\* SetStage or Publish has failed.
FinishFailed ==
  /\ MainAt("publish") \/ MainAt("finish") \/ (MainAt("retry") /\ attempt = MaxAttempts)
  /\ Ends("failed_infra", FALSE, "job_finished")

\* Claim, by a worker or after a restart: it reads the row again, and only then
\* tells of it and has the job reviewed.
ClaimAgain ==
  /\ MainAt("waiting") /\ attempt < MaxAttempts
  /\ attempt' = attempt + 1 /\ leftover' = {} /\ outcome' = {}
  /\ row' = [row EXCEPT !.state = "running"]
  /\ \E ok \in BOOLEAN :
       /\ Works(ok)
       /\ IF ok THEN runAt' = "reviewing" /\ Tells(MainRun, "stage_started")
                ELSE runAt' = "abandoned" /\ UNCHANGED <<writeAt, telling>>
  /\ UNCHANGED <<stored, artifact, calls, pageVars, missed, owed>>

\* The process is killed: RecoverInterrupted; the page loses its stream.
KillProcess ==
  /\ Works(FALSE)
  /\ row' = [row EXCEPT !.state = IF @ = "running" THEN "retry_wait" ELSE @]
  /\ runAt' = IF row'.state = "retry_wait" THEN "waiting" ELSE "ended"
  /\ writeAt' = [w \in Writers |-> "idle"]
  /\ telling' = [w \in Writers |-> "nothing"]
  /\ outcome' = IF row.state = "completed" THEN outcome ELSE {}
  /\ leftover' = {}
  /\ channel' = <<>> /\ streaming' = FALSE /\ missed' = TRUE /\ owed' = FALSE
  /\ UNCHANGED <<stored, artifact, attempt, calls, fetch>>

-----------------------------------------------------------------------------
(* The page: eventStream.ts, ReviewDetail.vue and the handlers it calls. *)

\* SubscribeEvents: EventSource connects, at first and again after an error.
Subscribe ==
  /\ ~streaming /\ streaming' = TRUE /\ channel' = <<>>
  /\ UNCHANGED <<row, stored, runVars, writeAt, telling, calls, broken, fetch, missed, owed>>

\* The stream ends: unsubscribe takes the lock no publisher holds.
Unsubscribe ==
  /\ streaming /\ Works(FALSE)
  /\ \A w \in Writers : writeAt[w] \notin {"drop", "resend"}
  /\ streaming' = FALSE /\ channel' = <<>> /\ missed' = TRUE /\ owed' = FALSE
  /\ UNCHANGED <<row, stored, runVars, writeAt, telling, calls, fetch>>

\* handleEventStream skips an event whose job it cannot read; the page's listener
\* skips those of other jobs, and otherwise starts the request afresh.
Receive ==
  /\ channel # <<>> /\ channel' = Tail(channel) /\ owed' = FALSE
  /\ \E ok \in BOOLEAN :
       /\ Works(ok)
       /\ IF ok THEN UNCHANGED missed ELSE Lost(Head(channel))
       /\ fetch' = IF ok /\ Head(channel) THEN Asked ELSE fetch
  /\ UNCHANGED <<row, stored, runVars, writeAt, telling, calls, streaming>>

\* The row names the artifacts, and the result among them can be parsed.
Parsed == row.filed /\ artifact # {}

\* reviewDetail: GetJob and parseJobResult.
ReadJob ==
  /\ fetch.stage = "asked"
  /\ fetch' = [stage |-> "job", parsed |-> Parsed,
               seen |-> [state |-> row.state, figures |-> row.figures, findings |-> {}]]
  /\ missed' = FALSE
  /\ UNCHANGED <<row, stored, runVars, writeAt, telling, calls, broken, channel,
                 streaming, owed>>

\* What a page may show for findings: those of the table; if it has none, those of
\* the result or of the session's file, which grows without an event.
Shows(found, rows, parsed) == IF rows # {} THEN found = rows ELSE parsed \/ found = {}

\* storedFindings, where an error counts as an empty table, or jobFindings.
ReadFindings ==
  /\ fetch.stage = "job"
  /\ \E ok \in BOOLEAN, found \in SUBSET Findings :
       /\ Works(ok) /\ missed' = (missed \/ ~ok)
       /\ Shows(found, IF ok THEN stored ELSE {}, fetch.parsed)
       /\ fetch' = [fetch EXCEPT !.stage = "shown", !.parsed = FALSE, !.seen.findings = found]
  /\ UNCHANGED <<row, stored, runVars, writeAt, telling, calls, channel,
                 streaming, owed>>

RecNext ==
  \/ \E w \in Reporters : SetProgress(w) \/ OnUsage(w) \/ Log(w) \/ LiveFinding(w)
  \/ \E w \in Others : Elsewhere(w)
  \/ \E w \in Writers : RecordEvent(w) \/ DropOldest(w) \/ Resend(w)
  \/ ReviewReturns \/ DeleteFindings \/ InsertFinding \/ WriteResult
  \/ Supersede \/ Leave \/ StartPublishing \/ FinishStale
  \/ FinishCompleted \/ ScheduleAgain \/ FinishFailed \/ ClaimAgain \/ KillProcess
  \/ Subscribe \/ Unsubscribe \/ Receive \/ ReadJob \/ ReadFindings

RecSpec == RecInit /\ [][RecNext]_recVars

-----------------------------------------------------------------------------
(* Properties. *)

\* Every variable stays in its range.
RecTypeOK ==
  /\ row.state \in {"running", "retry_wait", "completed", "failed_infra", "stale"}
  /\ row.figures \in Figures /\ row.filed \in BOOLEAN
  /\ {stored, outcome, leftover, fetch.seen.findings} \subseteq SUBSET Findings
  /\ artifact \subseteq SUBSET Findings
  /\ \A w \in Writers : telling[w] \in Told
                        /\ writeAt[w] \in {"idle", "record", "drop", "resend"}
  /\ Len(channel) <= BusCapacity /\ (channel = <<>> \/ streaming)
  /\ fetch.stage \in {"asked", "job", "shown"}

\* A completed review has stored exactly the findings of its result: what the
\* callbacks stored and the filter dropped is gone, and no failed statement or
\* kill in the middle of ReplaceFindings leaves a part of them as the answer.
CompletedFindingsExact ==
  row.state = "completed" => stored = outcome /\ artifact = {outcome}

\* A writer or the buffer carries an event that makes the page read again.
News ==
  \/ \E w \in Writers : ~Idle(w) /\ Invalidates(telling[w])
  \/ \E i \in 1..Len(channel) : channel[i]

\* Unless news is on its way or the worker has yet to tell what it did, a page
\* that was told of every change shows the job as it is: every write that matters
\* to the page is followed by an event, never preceded by it, an event makes a
\* request begun before it start again, and a full buffer gives up events of
\* this job only by losing them (`missed`).  What nobody is told of is Enqueue's
\* stale, a recovery after a kill, and the end of a superseded run.
ShownUnlessMissed ==
  fetch.stage = "shown" /\ ~missed /\ ~News /\ ~Untold =>
    /\ fetch.seen.state = row.state /\ fetch.seen.figures = row.figures
    /\ Shows(fetch.seen.findings, stored, Parsed)

\* A full buffer gives way to the newest event, of whatever job: a page too slow
\* for the bus always has an event to come after one that was discarded.
OverrunLeavesNews ==
  (owed /\ \A w \in Writers : writeAt[w] \notin {"drop", "resend"})
  => channel # <<>>

\* A page catches up with the records, slow or fast.
PagesCatchUp == RecTypeOK /\ ShownUnlessMissed /\ OverrunLeavesNews
=============================================================================
