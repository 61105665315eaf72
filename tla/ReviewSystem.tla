---------------------------- MODULE ReviewSystem ----------------------------
(***************************************************************************)
(* The life of a review: GitLab's merge requests move, discovery enqueues  *)
(* their current revision, workers claim and review jobs, administrators   *)
(* cancel and retry them, and the process stops, crashes and restarts.     *)
(* ReviewStore is the table they share.                                    *)
(*                                                                         *)
(* worker.go's process is cut wherever it calls GitLab, the store or the   *)
(* project lock, because everything else can move between two such calls.  *)
(* A call with the review's context fails once that context is done; calls *)
(* also fail while the fault budget lasts.                                 *)
(***************************************************************************)
EXTENDS ReviewStore

CONSTANTS
  Projects,          \* target projects
  ProjectOf,         \* the target project of a merge request
  BadRule,           \* a rule file that ValidateRuleData rejects
  RuleAt,            \* what the rule file is at a target commit
  NoRevision,        \* no revision
  CodeGraphEnabled,  \* config code_graph.enabled
  MaxAttempts,       \* maxTransientReviewAttempts
  CanReturn,         \* a branch may be reset to an earlier commit
  Budgets            \* bounds: how often each thing outside the bot happens

\* moves: of branches and reviewers; admin: administrator's actions;
\* external: failed calls, timeouts; store: failed statements; crash, stop;
\* lease: running jobs whose lease runs out.
BudgetKinds ==
  {"moves", "admin", "external", "store", "crash", "stop", "lease"}

ASSUME SystemAssumption ==
  /\ Heads \subseteq Nat /\ Targets \subseteq Nat
  /\ Heads # {} /\ Targets # {}
  /\ ProjectOf \in [MRs -> Projects]
  /\ RuleAt \in [Targets -> Rules \union {NoRule, BadRule}]
  /\ BadRule \notin Rules \union {NoRule}
  /\ NoRevision \notin Revisions
  /\ CodeGraphEnabled \in BOOLEAN /\ CanReturn \in BOOLEAN
  /\ MaxAttempts \in Nat
  /\ Budgets \subseteq [BudgetKinds -> Nat]
  /\ {"git_prepare", "code_graph", "ocr_review", "publishing"} = WorkStages

VARIABLES
  gl,      \* GitLab: head and reviewability of each MR, target branch commits
  notes,   \* the conclusion notes on each merge request
  lock,    \* ProjectLocks: the worker that holds each project
  ws,      \* the revision checked out in each project's workspace
  wk,      \* each worker's place in process, its job and its context
  disc,    \* each discovery: merge requests listed, revision it read last
  mode,    \* the process is "up" or, after SIGTERM, "stopping"
  left     \* what is left of the budget, and what it was

bot == <<lock, ws, wk, disc, mode>>
vars == <<job, nextId, gl, notes, lock, ws, wk, disc, mode, left>>

Steps == {"idle", "ensure", "branch", "rule", "sessions", "lock", "stage_git",
          "prepare", "metadata", "stage_graph", "graph", "stage_ocr", "ocr",
          "superseded", "recheck", "recheck_target", "retry", "stage_publish",
          "delete_notes", "create_note", "finish", "mark_stale", "infra",
          "rule_failed", "leave"}

Results == Outcomes \union {"none", "transient", "config"}

IdleWorker == [pc |-> "idle", rev |-> NoRevision, attempt |-> 0,
               ctx |-> "live", prepared |-> FALSE, result |-> "none"]
IdleDiscovery == [listed |-> {}, found |-> NoRevision]

\* Who runs discoverReviews: the polling goroutine, and the administrator's
\* reconcile request (bound: one at a time).
Scanners == {"poll", "reconcile"}

Least(S) == CHOOSE x \in S : \A y \in S : x <= y

SystemInit ==
  /\ StoreInit
  /\ gl = [head |-> [m \in MRs |-> Least(Heads)],
           open |-> [m \in MRs |-> TRUE],
           target |-> [p \in Projects |-> Least(Targets)]]
  /\ notes = [m \in MRs |-> {}]
  /\ lock = [p \in Projects |-> NoOwner]
  /\ ws = [p \in Projects |-> NoRevision]
  /\ wk = [w \in Workers |-> IdleWorker]
  /\ disc = [s \in Scanners |-> IdleDiscovery]
  /\ mode = "up"
  /\ left \in {[of |-> budget, now |-> budget] : budget \in Budgets}

\* One use of the budget.
Spend(kind) == left.now[kind] > 0 /\ left' = [left EXCEPT !.now[kind] = @ - 1]

-----------------------------------------------------------------------------
(* The worker's calls. *)

At(w, pc) == wk[w].pc = pc
Goto(w, pc) == wk' = [wk EXCEPT ![w].pc = pc]
RevOf(w) == wk[w].rev
ProjectFor(w) == ProjectOf[RevOf(w).mr]

\* A call with the review's context succeeds only while the context is live,
\* and fails when it is not or when the other side does (kind).
CallOK(w) == wk[w].ctx = "live" /\ UNCHANGED left
CallFails(w, kind) ==
  IF wk[w].ctx = "live" THEN Spend(kind) ELSE UNCHANGED left

\* The merge request is open, the bot reviews it, and its head is the job's.
HeadCurrent(r) == gl.open[r.mr] /\ gl.head[r.mr] = r.head
TargetCurrent(r) == gl.target[ProjectOf[r.mr]] = r.target
IsCurrent(r) == HeadCurrent(r) /\ TargetCurrent(r)

\* ensureCurrent: every error, also a failed call, means the job is stale.
EnsureCurrent(w, next) ==
  /\ \/ CallOK(w) /\ HeadCurrent(RevOf(w)) /\ Goto(w, next)
     \/ CallOK(w) /\ ~HeadCurrent(RevOf(w)) /\ Goto(w, "mark_stale")
     \/ CallFails(w, "external") /\ Goto(w, "mark_stale")
  /\ UNCHANGED <<storeVars, gl, notes, lock, ws, disc, mode>>

\* SetStage with the review's context.
EnterStage(w, pc, stage, next) ==
  /\ At(w, pc)
  /\ \/ CallOK(w) /\ SetStage(RevOf(w), stage) /\ Goto(w, next)
     \/ CallFails(w, "store") /\ UNCHANGED storeVars /\ Goto(w, "infra")
  /\ UNCHANGED <<gl, notes, lock, ws, disc, mode>>

\* A statement with a background context: the review's context does not
\* stop it, and a failure is only logged.
Recorded(w, pc, statement) ==
  /\ At(w, pc)
  /\ \/ statement /\ UNCHANGED left
     \/ Spend("store") /\ UNCHANGED storeVars
  /\ Goto(w, "leave")
  /\ UNCHANGED <<gl, notes, lock, ws, disc, mode>>

\* Mutant of SupersededOrDone: any canceled context counts as superseded.
CanceledOrDone(w) == wk[w].ctx # "live" \/ ~IsActive(RevOf(w))

SupersededOrDone(w) == wk[w].ctx = "superseded" \/ ~IsActive(RevOf(w))

\* The worker goes on: the job is active, or the row cannot be read.
GoesOn(w) ==
  \/ ~SupersededOrDone(w) /\ UNCHANGED left
  \/ wk[w].ctx # "superseded" /\ ~IsActive(RevOf(w)) /\ Spend("store")

StopsAsSuperseded(w) == SupersededOrDone(w) /\ UNCHANGED left /\ Goto(w, "leave")

-----------------------------------------------------------------------------
(* process, up to the OCR run. *)

\* Claim commits before it reads the row back; if that read fails, or a stop
\* comes in between, the worker never learns which job it owns and the row stays
\* running: both are counted with the failed statements.
ClaimJob(w) ==
  /\ mode = "up" /\ At(w, "idle")
  /\ \E r \in Revisions :
       /\ Claim(w, r)
       /\ \/ /\ wk' = [wk EXCEPT ![w] = [IdleWorker EXCEPT
                         !.pc = "ensure", !.rev = r,
                         !.attempt = job[r].attempt + 1]]
             /\ UNCHANGED left
          \/ Spend("store") /\ UNCHANGED wk
  /\ UNCHANGED <<gl, notes, lock, ws, disc, mode>>

EnsureAtStart(w) == At(w, "ensure") /\ EnsureCurrent(w, "branch")

ReadTarget(w) ==
  /\ At(w, "branch")
  /\ \/ CallOK(w) /\ TargetCurrent(RevOf(w)) /\ Goto(w, "rule")
     \/ CallOK(w) /\ ~TargetCurrent(RevOf(w)) /\ Goto(w, "mark_stale")
     \/ CallFails(w, "external") /\ Goto(w, "infra")
  /\ UNCHANGED <<storeVars, gl, notes, lock, ws, disc, mode>>

\* Mutant of ReadRule: an invalid rule makes the job stale.
ReadRuleOrDrop(w) ==
  /\ At(w, "rule")
  /\ \/ CallOK(w) /\ RuleAt[RevOf(w).target] # BadRule /\ Goto(w, "sessions")
     \/ CallOK(w) /\ RuleAt[RevOf(w).target] = BadRule /\ Goto(w, "mark_stale")
     \/ CallFails(w, "external") /\ Goto(w, "rule_failed")
  /\ UNCHANGED <<storeVars, gl, notes, lock, ws, disc, mode>>

\* A missing rule file is not an error; an unreadable or invalid one is.
ReadRule(w) ==
  /\ At(w, "rule")
  /\ \/ CallOK(w) /\ RuleAt[RevOf(w).target] # BadRule /\ Goto(w, "sessions")
     \/ CallOK(w) /\ RuleAt[RevOf(w).target] = BadRule /\ Goto(w, "rule_failed")
     \/ CallFails(w, "external") /\ Goto(w, "rule_failed")
  /\ UNCHANGED <<storeVars, gl, notes, lock, ws, disc, mode>>

ListSessions(w) ==
  /\ At(w, "sessions")
  /\ \/ CallOK(w) /\ Goto(w, "lock")
     \/ CallFails(w, "store") /\ Goto(w, "infra")
  /\ UNCHANGED <<storeVars, gl, notes, lock, ws, disc, mode>>

\* Mutant of AcquireLock: the semaphore lets a second holder in.
AcquireAnyway(w) ==
  /\ At(w, "lock")
  /\ lock' = [lock EXCEPT ![ProjectFor(w)] = w]
  /\ Goto(w, "stage_git")
  /\ UNCHANGED <<storeVars, gl, notes, ws, disc, mode, left>>

\* Acquire selects between the semaphore and the context; when both are
\* ready it may take either.
AcquireLock(w) ==
  /\ At(w, "lock")
  /\ \/ /\ lock[ProjectFor(w)] = NoOwner
        /\ lock' = [lock EXCEPT ![ProjectFor(w)] = w]
        /\ Goto(w, "stage_git")
     \/ wk[w].ctx # "live" /\ UNCHANGED lock /\ Goto(w, "infra")
  /\ UNCHANGED <<storeVars, gl, notes, ws, disc, mode, left>>

StageGit(w) == EnterStage(w, "stage_git", "git_prepare", "prepare")

\* Prepare wipes the project's workspace, fetches and checks the head out.
\* The commit may be gone once the branch has moved on.
Prepare(w) ==
  /\ At(w, "prepare")
  /\ LET p == ProjectFor(w) r == RevOf(w) IN
     \/ /\ CallOK(w) /\ TargetCurrent(r)
        /\ ws' = [ws EXCEPT ![p] = r]
        /\ wk' = [wk EXCEPT ![w].pc = "metadata", ![w].prepared = TRUE]
     \/ /\ CallOK(w) /\ ~TargetCurrent(r)
        /\ ws' = [ws EXCEPT ![p] = NoRevision]
        /\ Goto(w, "mark_stale")
     \/ /\ \/ CallFails(w, "external")
           \/ CallOK(w) /\ gl.head[r.mr] # r.head
        /\ ws' = [ws EXCEPT ![p] = NoRevision]
        /\ Goto(w, "infra")
  /\ UNCHANGED <<storeVars, gl, notes, lock, disc, mode>>

RecordGitMetadata(w) ==
  /\ At(w, "metadata")
  /\ \/ /\ CallOK(w) /\ SetGitMetadata(RevOf(w), RuleAt[RevOf(w).target])
        /\ Goto(w, IF CodeGraphEnabled THEN "stage_graph" ELSE "stage_ocr")
     \/ CallFails(w, "store") /\ UNCHANGED storeVars /\ Goto(w, "infra")
  /\ UNCHANGED <<gl, notes, lock, ws, disc, mode>>

StageGraph(w) == EnterStage(w, "stage_graph", "code_graph", "graph")

BuildGraph(w) ==
  /\ At(w, "graph")
  /\ \/ CallOK(w) /\ Goto(w, "stage_ocr")
     \/ CallFails(w, "external") /\ Goto(w, "infra")
  /\ UNCHANGED <<storeVars, gl, notes, lock, ws, disc, mode>>

StageOCR(w) == EnterStage(w, "stage_ocr", "ocr_review", "ocr")

-----------------------------------------------------------------------------
(* The OCR run: its callbacks come from concurrent file reviews, so their  *)
(* writes and checks interleave freely until RunComponent returns.  The    *)
(* first error OnProgress returns silences it and becomes the run's error; *)
(* OnUsage goes on.  The writes use a background context.                  *)

Reporting(w) == At(w, "ocr") /\ wk[w].result = "none"

ReportSession(w) ==
  /\ Reporting(w)
  /\ \E session \in Sessions : SetLLMMetadata(RevOf(w), session)
  /\ UNCHANGED <<gl, notes, lock, ws, wk, disc, mode, left>>

ReportUsage(w) ==
  /\ At(w, "ocr")
  /\ \E tokens \in TokenCounts : SetUsage(RevOf(w), tokens)
  /\ UNCHANGED <<gl, notes, lock, ws, wk, disc, mode, left>>

\* The ensureCurrent of a callback.
ReportStopsRun(w) ==
  /\ Reporting(w)
  /\ \/ CallOK(w) /\ ~HeadCurrent(RevOf(w))
     \/ CallFails(w, "external")
  /\ wk' = [wk EXCEPT ![w].result = "transient"]
  /\ UNCHANGED <<storeVars, gl, notes, lock, ws, disc, mode>>

\* The session of the result, if it has one; a failure is ignored.
MayRecordSession(w) ==
  \/ UNCHANGED storeVars
  \/ \E session \in Sessions : SetLLMMetadata(RevOf(w), session)

\* The run passes, finds blocking problems or fails; a completed run may
\* still have outlived its context.  Its session id, if any, is recorded.
RunReturns(w) ==
  /\ At(w, "ocr")
  /\ MayRecordSession(w)
  /\ \/ /\ wk[w].result = "none"
        /\ \E verdict \in {"completed_pass", "completed_fail"} :
             wk' = [wk EXCEPT ![w].pc = "superseded", ![w].result = verdict]
        /\ UNCHANGED left
     \/ /\ wk' = [wk EXCEPT ![w].pc = "superseded", ![w].result = "transient"]
        /\ UNCHANGED left
     \/ /\ wk' = [wk EXCEPT ![w].pc = "superseded", ![w].result = "config"]
        /\ Spend("external")
  /\ UNCHANGED <<gl, notes, lock, ws, disc, mode>>

CheckSuperseded(w) ==
  /\ At(w, "superseded")
  /\ \/ StopsAsSuperseded(w)
     \/ GoesOn(w) /\ Goto(w, "recheck")
  /\ UNCHANGED <<storeVars, gl, notes, lock, ws, disc, mode>>

Recheck(w) == At(w, "recheck") /\ EnsureCurrent(w, "recheck_target")

Failed(w) == wk[w].result \in {"transient", "config"}

\* reviewRetryPolicy: a configuration error is retried for ever.
Exhausted(w) == wk[w].result = "transient" /\ wk[w].attempt >= MaxAttempts

RecheckTarget(w) ==
  /\ At(w, "recheck_target")
  /\ \/ /\ CallOK(w) /\ TargetCurrent(RevOf(w))
        /\ MayRecordSession(w)
        /\ Goto(w, IF ~Failed(w) THEN "stage_publish"
                   ELSE IF Exhausted(w) THEN "infra" ELSE "retry")
     \/ /\ \/ CallOK(w) /\ ~TargetCurrent(RevOf(w))
           \/ CallFails(w, "external")
        /\ UNCHANGED storeVars /\ Goto(w, "mark_stale")
  /\ UNCHANGED <<gl, notes, lock, ws, disc, mode>>

\* Mutant of ScheduleRetry: the row is put back without clearing its lease.
PutBack(w) ==
  Recorded(w, "retry", /\ job' = [job EXCEPT ![RevOf(w)].state = "retry_wait"]
                       /\ UNCHANGED nextId)

ScheduleRetry(w) ==
  Recorded(w, "retry", \E tokens \in TokenCounts : RetryAfter(RevOf(w), tokens))

-----------------------------------------------------------------------------
(* Publication and the ends of process. *)

StagePublishing(w) ==
  EnterStage(w, "stage_publish", "publishing", "delete_notes")

\* finishInfra and finishRuleFailure: unless the job was superseded, publish
\* the failure and finish; neither asks GitLab whether the job is current.
StartFailure(w, pc, outcome) ==
  /\ At(w, pc)
  /\ \/ StopsAsSuperseded(w)
     \/ /\ GoesOn(w)
        /\ wk' = [wk EXCEPT ![w].pc = "delete_notes", ![w].result = outcome]
  /\ UNCHANGED <<storeVars, gl, notes, lock, ws, disc, mode>>

InfraFailure(w) == StartFailure(w, "infra", "failed_infra")
RuleFailure(w) == StartFailure(w, "rule_failed", "rejected_rule_invalid")

Note(w) == [rev |-> RevOf(w), verdict |-> wk[w].result]

\* publishConclusion: delete every progress and conclusion note of the merge
\* request (a failure leaves some of them and is only logged), then create
\* the new one.
DeleteNotes(w) ==
  /\ At(w, "delete_notes")
  /\ \/ CallOK(w) /\ notes' = [notes EXCEPT ![RevOf(w).mr] = {}]
     \/ /\ CallFails(w, "external")
        /\ \E kept \in SUBSET notes[RevOf(w).mr] :
             notes' = [notes EXCEPT ![RevOf(w).mr] = kept]
  /\ Goto(w, "create_note")
  /\ UNCHANGED <<storeVars, gl, lock, ws, disc, mode>>

ReviewVerdict(verdict) == verdict \in {"completed_pass", "completed_fail"}

\* When a verdict cannot be published the job fails; a failure whose note
\* cannot be published is finished all the same.  A note whose request fails
\* may have been created.
CreateNote(w) ==
  /\ At(w, "create_note")
  /\ LET withNote == [notes EXCEPT ![RevOf(w).mr] = @ \union {Note(w)}] IN
     \/ CallOK(w) /\ notes' = withNote /\ Goto(w, "finish")
     \/ /\ CallFails(w, "external")
        /\ \/ UNCHANGED notes
           \/ wk[w].ctx = "live" /\ notes' = withNote
        /\ Goto(w, IF ReviewVerdict(wk[w].result) THEN "infra" ELSE "finish")
  /\ UNCHANGED <<storeVars, gl, lock, ws, disc, mode>>

\* Failures are finished with an empty Usage.
FinishJob(w) ==
  Recorded(w, "finish",
    \E tokens \in IF ReviewVerdict(wk[w].result) THEN TokenCounts ELSE {0} :
      Finish(RevOf(w), wk[w].result, tokens))

MarkJobStale(w) == Recorded(w, "mark_stale", MarkStale(RevOf(w)))

\* Mutant of Leave: the project is not released.
LeaveLocked(w) ==
  /\ At(w, "leave")
  /\ ws' = IF wk[w].prepared
             THEN [ws EXCEPT ![ProjectFor(w)] = NoRevision] ELSE ws
  /\ wk' = [wk EXCEPT ![w] = IdleWorker]
  /\ UNCHANGED <<storeVars, gl, notes, lock, disc, mode, left>>

\* The deferred calls of process, in their order: remove the workspace, then
\* release the project.
Leave(w) ==
  /\ At(w, "leave")
  /\ ws' = IF wk[w].prepared
             THEN [ws EXCEPT ![ProjectFor(w)] = NoRevision] ELSE ws
  /\ lock' = [p \in Projects |-> IF lock[p] = w THEN NoOwner ELSE lock[p]]
  /\ wk' = [wk EXCEPT ![w] = IdleWorker]
  /\ UNCHANGED <<storeVars, gl, notes, disc, mode, left>>

WorkerStep(w) ==
  \/ ClaimJob(w) \/ EnsureAtStart(w) \/ ReadTarget(w) \/ ReadRule(w)
  \/ ListSessions(w) \/ AcquireLock(w) \/ StageGit(w) \/ Prepare(w)
  \/ RecordGitMetadata(w) \/ StageGraph(w) \/ BuildGraph(w) \/ StageOCR(w)
  \/ ReportStopsRun(w) \/ RunReturns(w) \/ CheckSuperseded(w) \/ Recheck(w)
  \/ RecheckTarget(w) \/ ScheduleRetry(w) \/ StagePublishing(w)
  \/ InfraFailure(w) \/ RuleFailure(w) \/ DeleteNotes(w) \/ CreateNote(w)
  \/ FinishJob(w) \/ MarkJobStale(w) \/ Leave(w)

\* cancelWhenSuperseded looks at the row every second.
WatcherCancels(w) ==
  /\ ~At(w, "idle") /\ wk[w].ctx = "live"
  /\ ~IsActive(RevOf(w))
  /\ wk' = [wk EXCEPT ![w].ctx = "superseded"]
  /\ UNCHANGED <<storeVars, gl, notes, lock, ws, disc, mode, left>>

ReviewTimesOut(w) ==
  /\ ~At(w, "idle") /\ wk[w].ctx = "live"
  /\ Spend("external")
  /\ wk' = [wk EXCEPT ![w].ctx = "dead"]
  /\ UNCHANGED <<storeVars, gl, notes, lock, ws, disc, mode>>

-----------------------------------------------------------------------------
(* discoverReviews lists the open merge requests that the bot reviews,     *)
(* reads the target of each, and enqueues the pair.  The polling goroutine *)
(* and a reconcile request may do so at once.  (No token budget is         *)
(* configured here.)                                                       *)

DiscoverList(s) ==
  /\ mode = "up" /\ disc[s] = IdleDiscovery
  /\ IF s = "poll" THEN UNCHANGED left ELSE Spend("admin")
  /\ disc' = [disc EXCEPT ![s].listed =
                {[mr |-> m, head |-> gl.head[m]] : m \in {m \in MRs : gl.open[m]}}]
  /\ UNCHANGED <<storeVars, gl, notes, lock, ws, wk, mode>>

DiscoverTarget(s) ==
  /\ disc[s].found = NoRevision
  /\ \E x \in disc[s].listed :
       LET rest == disc[s].listed \ {x}
           r == [mr |-> x.mr, head |-> x.head,
                 target |-> gl.target[ProjectOf[x.mr]]] IN
       \/ /\ disc' = [disc EXCEPT ![s] = [listed |-> rest, found |-> r]]
          /\ UNCHANGED left
       \/ /\ disc' = [disc EXCEPT ![s].listed = rest]
          /\ Spend("external")
  /\ UNCHANGED <<storeVars, gl, notes, lock, ws, wk, mode>>

DiscoverEnqueue(s) ==
  /\ disc[s].found # NoRevision
  /\ \/ Enqueue(disc[s].found) /\ UNCHANGED left
     \/ Spend("store") /\ UNCHANGED storeVars
  /\ disc' = [disc EXCEPT ![s].found = NoRevision]
  /\ UNCHANGED <<gl, notes, lock, ws, wk, mode>>

Discovery(s) == DiscoverList(s) \/ DiscoverTarget(s) \/ DiscoverEnqueue(s)

-----------------------------------------------------------------------------
(* What happens outside the bot, and to its process. *)

Push(m) ==
  /\ Spend("moves")
  /\ \E h \in Heads :
       /\ h # gl.head[m] /\ (h > gl.head[m] \/ CanReturn)
       /\ gl' = [gl EXCEPT !.head[m] = h]
  /\ UNCHANGED <<storeVars, notes, bot>>

MoveTarget(p) ==
  /\ Spend("moves")
  /\ \E t \in Targets :
       /\ t # gl.target[p] /\ (t > gl.target[p] \/ CanReturn)
       /\ gl' = [gl EXCEPT !.target[p] = t]
  /\ UNCHANGED <<storeVars, notes, bot>>

\* The merge request is closed, merged, or the bot removed as a reviewer;
\* where branches may return, so may the merge request.
ToggleReview(m) ==
  /\ Spend("moves")
  /\ gl.open[m] \/ CanReturn
  /\ gl' = [gl EXCEPT !.open[m] = ~@]
  /\ UNCHANGED <<storeVars, notes, bot>>

Administrate ==
  /\ Spend("admin")
  /\ \E r \in Revisions :
       \/ CancelReview(r)
       \/ RetryReview(r)
       \/ \E prio \in Priorities : SetPriority(r, prio)
  /\ UNCHANGED <<gl, notes, bot>>

RetryTimePasses ==
  /\ \E r \in Revisions : job[r].state = "retry_wait" /\ LeaseExpires(r)
  /\ UNCHANGED <<gl, notes, bot, left>>

LeaseTimePasses ==
  /\ Spend("lease")
  /\ \E r \in Revisions : job[r].state = "running" /\ LeaseExpires(r)
  /\ UNCHANGED <<gl, notes, bot>>

\* SIGTERM cancels the parent context of every review and of the polling; a
\* reconcile request goes on until the process exits.
Stop ==
  /\ mode = "up" /\ Spend("stop")
  /\ mode' = "stopping"
  /\ wk' = [w \in Workers |->
              IF wk[w].ctx = "live" /\ ~At(w, "idle")
                THEN [wk[w] EXCEPT !.ctx = "dead"] ELSE wk[w]]
  /\ disc' = [disc EXCEPT !["poll"] = IdleDiscovery]
  /\ UNCHANGED <<storeVars, gl, notes, lock, ws>>

\* Mutant of Restart: interrupted jobs are not recovered.
RestartUnrecovered ==
  /\ IF mode = "stopping" THEN UNCHANGED left ELSE Spend("crash")
  /\ mode' = "up"
  /\ wk' = [w \in Workers |-> IdleWorker]
  /\ lock' = [p \in Projects |-> NoOwner]
  /\ disc' = [s \in Scanners |-> IdleDiscovery]
  /\ UNCHANGED <<storeVars, gl, notes, ws>>

\* The process exits or crashes; the next one recovers interrupted jobs
\* before it starts workers.  What is on disk stays.
Restart ==
  /\ IF mode = "stopping" THEN UNCHANGED left ELSE Spend("crash")
  /\ RecoverInterrupted
  /\ mode' = "up"
  /\ wk' = [w \in Workers |-> IdleWorker]
  /\ lock' = [p \in Projects |-> NoOwner]
  /\ disc' = [s \in Scanners |-> IdleDiscovery]
  /\ UNCHANGED <<gl, notes, ws>>

Environment ==
  \/ \E m \in MRs : Push(m) \/ ToggleReview(m)
  \/ \E p \in Projects : MoveTarget(p)
  \/ Administrate \/ LeaseTimePasses \/ RetryTimePasses
  \/ Stop \/ Restart

SystemNext ==
  \/ \E w \in Workers :
       \/ WorkerStep(w)
       \/ ReportSession(w) \/ ReportUsage(w)
       \/ WatcherCancels(w) \/ ReviewTimesOut(w)
  \/ \E s \in Scanners : Discovery(s)
  \/ Environment

SystemSpec == SystemInit /\ [][SystemNext]_vars

\* Goroutines that can run do run, time passes, a stopping process ends.
Fairness ==
  /\ \A w \in Workers : WF_vars(WorkerStep(w)) /\ WF_vars(WatcherCancels(w))
  /\ WF_vars(Discovery("poll"))
  /\ WF_vars(DiscoverTarget("reconcile") \/ DiscoverEnqueue("reconcile"))
  /\ WF_vars(RetryTimePasses)
  /\ WF_vars(mode = "stopping" /\ Restart)

FairSpec == SystemSpec /\ Fairness

-----------------------------------------------------------------------------
\* Every component keeps the shape its code gives it: workers only carry the
\* outcomes they pass to Finish, and conclusions only name those.
SystemTypeOK ==
  /\ StoreTypeOK
  /\ gl \in [head : [MRs -> Heads], open : [MRs -> BOOLEAN],
             target : [Projects -> Targets]]
  /\ notes \in [MRs -> SUBSET [rev : Revisions, verdict : Outcomes]]
  /\ lock \in [Projects -> Workers \union {NoOwner}]
  /\ ws \in [Projects -> Revisions \union {NoRevision}]
  /\ wk \in [Workers -> [pc : Steps, rev : Revisions \union {NoRevision},
                         attempt : Nat, ctx : {"live", "superseded", "dead"},
                         prepared : BOOLEAN, result : Results]]
  /\ disc \in [Scanners -> [listed : SUBSET [mr : MRs, head : Heads],
                            found : Revisions \union {NoRevision}]]
  /\ mode \in {"up", "stopping"}
  /\ left \in [of : [BudgetKinds -> Nat], now : [BudgetKinds -> Nat]]

\* Nothing of the kind has happened so far.
Never(kind) == left.now[kind] = left.of[kind]

Working(w) == wk[w].pc \notin {"idle", "leave"}

\* While no statement fails, a row marked running is being worked on by the
\* worker that owns it: through late writes of canceled reviews, retries,
\* stops and crashes, no job is left running with nobody on it, which nothing
\* but a restart would ever notice.
RunningIsWorkedOn ==
  Never("store") =>
    \A r \in Revisions : job[r].state = "running" =>
      \E w \in Workers : w = job[r].owner /\ RevOf(w) = r /\ Working(w)

\* The files a review reads are its own revision's: the project lock and the
\* order of the deferred clean-up and release keep every other review of the
\* project out of the workspace until the reviewer has left.
WorkspaceIsOwn ==
  \A w \in Workers : wk[w].prepared =>
    lock[ProjectFor(w)] = w /\ ws[ProjectFor(w)] = RevOf(w)

\* Unless an administrator brought a job back, no two workers are on one job.
WorkersOnDistinctJobs ==
  Never("admin") =>
    \A v, w \in Workers :
      v # w /\ Working(v) /\ Working(w) => RevOf(v) # RevOf(w)

\* Unless an administrator brought a job back, a merge request has at most
\* one active job: Enqueue closes the others in the transaction that inserts.
OneActiveJob ==
  Never("admin") =>
    \A m \in MRs : \A r, q \in ActiveOf(m) : r = q

\* Two reviews never share a workspace or a job, and the process's state and
\* the table keep their types.
ReviewersApart == SystemTypeOK /\ WorkspaceIsOwn /\ WorkersOnDistinctJobs

Older(r, q) == r.mr = q.mr /\ r.head < q.head

\* While branches only move forward, a worker about to replace the conclusion
\* of a merge request with the verdict of its review never finds the verdict
\* of a newer head there: it read the head again under the project lock.
VerdictsMoveForward ==
  ~CanReturn =>
    \A w \in Workers :
      wk[w].pc \in {"delete_notes", "create_note"} /\ ReviewVerdict(wk[w].result)
        => ~ \E n \in notes[RevOf(w).mr] :
               ReviewVerdict(n.verdict) /\ Older(RevOf(w), n.rev)

Undisturbed == \A kind \in {"external", "stop", "admin"} : Never(kind)

\* While no call fails, nobody intervenes and branches only move forward, a
\* job is made stale only once its revision is no longer current: not by the
\* discovery of an outdated list, and not by a worker that lost a race.
StaleIsTruthful ==
  [][Undisturbed /\ ~CanReturn =>
       \A r \in Revisions :
         job'[r].state = "stale" /\ job[r].state # "stale" => ~IsCurrent(r)]_vars

\* Whatever workers, administrators and restarts do, they only ever change
\* the table by its statements.
StoreRefined == StoreSpec

Decided(r) == Exists(r) /\ job[r].state \in Terminal \ {"stale"}

\* A revision that stays current is reviewed to an outcome, or canceled.
CurrentIsDecided ==
  \A r \in Revisions : <>[]IsCurrent(r) => []<>Decided(r)

\* A worker is never held for ever by a review: not by the project lock, not
\* by a job that was superseded, canceled or interrupted.
ReviewsEnd ==
  \A w \in Workers : ~At(w, "idle") ~> At(w, "idle")

=============================================================================
