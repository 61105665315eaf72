------------------------- MODULE ReviewSystemProofs -------------------------
(***************************************************************************)
(* What the workers, the discovery, the administrators, GitLab and the     *)
(* restarts do together, for any number of them: the system only uses the  *)
(* table by its statements, reviews do not meet in a workspace or on a     *)
(* job, and neither verdicts nor the state "stale" run backwards.          *)
(***************************************************************************)
EXTENDS ReviewSystem, ReviewStoreProofs, WellFoundedInduction

-----------------------------------------------------------------------------
(* The types, and what a worker's place in process says of its job.        *)

WorkerRecord == [pc : Steps, rev : Revisions \union {NoRevision},
                 attempt : Nat, ctx : {"live", "superseded", "dead"},
                 prepared : BOOLEAN, result : Results]

DiscoveryRecord == [listed : SUBSET [mr : MRs, head : Heads],
                    found : Revisions \union {NoRevision}]

\* The steps after the agent's run has returned and before the job's outcome.
Returned == {"superseded", "recheck", "recheck_target"}

\* The steps from the reading of the rule file to the recording of its digest.
RuleIsGood == {"sessions", "lock", "stage_git", "prepare", "metadata"}

\* The steps up to the preparation of the workspace.
Unprepared == {"idle", "ensure", "branch", "rule", "sessions", "lock",
               "stage_git", "prepare"}

\* A worker past Claim has a job, past ReadRule a rule file it may use, and a
\* workspace only once Prepare has made one; what it carries is an outcome of
\* the run, and what it finishes with is a state that Finish takes.
PlaceFits(c) ==
  /\ c.pc # "idle" => c.rev \in Revisions
  /\ c.pc \in Unprepared => ~c.prepared
  /\ c.pc \in RuleIsGood => RuleAt[c.rev.target] # BadRule
  /\ c.pc \in Returned =>
       c.result \in {"completed_pass", "completed_fail", "transient", "config"}
  /\ c.pc = "stage_publish" => ReviewVerdict(c.result)
  /\ c.pc \in {"delete_notes", "create_note", "finish"}
       => c.result \in Outcomes \ {"stale"}

WorkersFit == wk \in [Workers -> WorkerRecord] /\ \A w \in Workers : PlaceFits(wk[w])

GitLabTyped == gl \in [head : [MRs -> Heads], open : [MRs -> BOOLEAN],
                       target : [Projects -> Targets]]

\* The budget is spent, never given.
BudgetFits ==
  /\ left \in [of : [BudgetKinds -> Nat], now : [BudgetKinds -> Nat]]
  /\ \A k \in BudgetKinds : left.now[k] <= left.of[k]

RestTyped ==
  /\ notes \in [MRs -> SUBSET [rev : Revisions, verdict : Outcomes]]
  /\ lock \in [Projects -> Workers \union {NoOwner}]
  /\ ws \in [Projects -> Revisions \union {NoRevision}]
  /\ disc \in [Scanners -> DiscoveryRecord]
  /\ mode \in {"up", "stopping"}

ProcessInv == StoreInv /\ WorkersFit /\ GitLabTyped /\ BudgetFits /\ RestTyped

\* The invariant the induction uses implies the checked one.
LEMMA ProcessInvTyped == ProcessInv => SystemTypeOK
BY StoreInvIsSound DEF ProcessInv, SystemTypeOK, StoreSound, WorkersFit,
   GitLabTyped, BudgetFits, RestTyped, WorkerRecord, DiscoveryRecord

-----------------------------------------------------------------------------
(* The steps of a worker.                                                  *)

\* Everything one worker, its callbacks and its watcher do.
WorkerActs(w) ==
  \/ WorkerStep(w) \/ ReportSession(w) \/ ReportUsage(w)
  \/ WatcherCancels(w) \/ ReviewTimesOut(w)

\* Only w's place changes, and it stays on its job.
Moves(w) ==
  /\ wk' = [wk EXCEPT ![w] = wk'[w]]
  /\ wk'[w] \in WorkerRecord
  /\ wk[w].pc # "idle" /\ wk'[w].pc # "idle"
  /\ wk'[w].rev = wk[w].rev

\* Only the place in process changes.
Passes(w, pc) ==
  /\ Moves(w)
  /\ wk'[w].pc = pc
  /\ wk'[w].result = wk[w].result /\ wk'[w].ctx = wk[w].ctx
  /\ wk'[w].prepared = wk[w].prepared

\* Goto leaves everything but the place alone.
LEMMA GotoPasses ==
  ASSUME WorkersFit, NEW w \in Workers, wk[w].pc # "idle",
         NEW pc \in Steps \ {"idle"}, Goto(w, pc)
  PROVE  Passes(w, pc)
BY DEF WorkersFit, Goto, Passes, Moves, WorkerRecord

\* The steps in which a worker holds its project, and those in which it does
\* so if what it publishes is the verdict of a review.
Inside == {"stage_git", "prepare", "metadata", "stage_graph", "graph",
           "stage_ocr", "ocr", "superseded", "recheck", "recheck_target",
           "retry", "stage_publish"}
PublishesVerdict(c) ==
  c.pc \in {"delete_notes", "create_note"} /\ ReviewVerdict(c.result)
InProject(c) == c.pc \in Inside \/ PublishesVerdict(c)

\* The steps after the head was read again on the way to a verdict.
Rechecked(c) == c.pc \in {"recheck_target", "stage_publish"} \/ PublishesVerdict(c)

\* The statements that record the outcome of a job.
Ends(w) == ScheduleRetry(w) \/ FinishJob(w) \/ MarkJobStale(w)

\* How a worker goes from place to place: each way into a place that an
\* invariant speaks of.
Walks(w) ==
  /\ Moves(w) /\ PlaceFits(wk'[w])
  /\ wk[w].pc = "leave" => wk'[w].pc = "leave"
  /\ wk'[w].prepared => wk[w].prepared \/ Prepare(w)
  /\ InProject(wk'[w]) => InProject(wk[w]) \/ AcquireLock(w)
  /\ Rechecked(wk'[w]) => Rechecked(wk[w]) \/ (wk[w].pc = "recheck" /\ HeadCurrent(RevOf(w)))
  /\ wk'[w].pc = "leave" => wk[w].pc = "leave" \/ SupersededOrDone(w) \/ Ends(w)
  /\ wk'[w].pc = "mark_stale" =>
       \/ wk[w].pc = "mark_stale" \/ wk[w].ctx # "live"
       \/ ~IsCurrent(RevOf(w)) \/ Spend("external")
  /\ wk'[w].ctx = "superseded" => wk[w].ctx = "superseded" \/ ~IsActive(RevOf(w))
  /\ wk'[w].ctx = "dead" => wk[w].ctx = "dead" \/ Spend("external")

\* What a worker's step leaves alone.
Keeps(w) ==
  /\ UNCHANGED <<gl, disc, mode>>
  /\ UNCHANGED left \/ Spend("store") \/ Spend("external")
  /\ UNCHANGED notes \/ DeleteNotes(w) \/ CreateNote(w)
  /\ UNCHANGED lock \/ AcquireLock(w) \/ Leave(w)
  /\ UNCHANGED ws \/ Prepare(w) \/ Leave(w)

\* The columns a running review writes beside its state.
Marks(r) ==
  \/ \E stage \in WorkStages : SetStage(r, stage)
  \/ \E rule \in Rules \union {NoRule} : SetGitMetadata(r, rule)
  \/ \E session \in Sessions : SetLLMMetadata(r, session)
  \/ \E tokens \in TokenCounts : SetUsage(r, tokens)

\* What a worker's step does to the table.
Writes(w) ==
  \/ UNCHANGED storeVars \/ (Working(w) /\ Marks(RevOf(w)))
  \/ ClaimJob(w) \/ Ends(w)

\* Steps that only read.
LEMMA ReadingSteps ==
  ASSUME ProcessInv, NEW w \in Workers,
         \/ EnsureAtStart(w) \/ ReadTarget(w) \/ ReadRule(w)
         \/ ListSessions(w) \/ BuildGraph(w) \/ Recheck(w)
  PROVE  Walks(w) /\ Keeps(w) /\ UNCHANGED storeVars
<1> USE DEF CallOK, CallFails, At, Inside, Returned, RuleIsGood, Unprepared, Steps, Passes, PlaceFits,
            InProject, PublishesVerdict, Rechecked, Moves, RevOf
<1>1. CASE EnsureAtStart(w)
  BY <1>1, GotoPasses DEF EnsureAtStart, EnsureCurrent, Walks, Keeps, IsCurrent, ProcessInv, WorkersFit
<1>2. CASE ReadTarget(w)
  BY <1>2, GotoPasses DEF ReadTarget, Walks, Keeps, IsCurrent, ProcessInv, WorkersFit
<1>3. CASE ReadRule(w)
  BY <1>3, GotoPasses DEF ReadRule, Walks, Keeps, IsCurrent, ProcessInv, WorkersFit
<1>4. CASE ListSessions(w)
  BY <1>4, GotoPasses DEF ListSessions, Walks, Keeps, IsCurrent, ProcessInv, WorkersFit
<1>5. CASE BuildGraph(w)
  BY <1>5, GotoPasses DEF BuildGraph, Walks, Keeps, IsCurrent, ProcessInv, WorkersFit
<1>6. CASE Recheck(w)
  BY <1>6, GotoPasses DEF Recheck, EnsureCurrent, Walks, Keeps, IsCurrent, ProcessInv, WorkersFit
<1> QED BY <1>1, <1>2, <1>3, <1>4, <1>5, <1>6

\* The steps that hold, prepare or release something of the project, and those
\* that write to GitLab.
LEMMA ProjectSteps ==
  ASSUME ProcessInv, NEW w \in Workers,
         \/ AcquireLock(w) \/ Prepare(w) \/ DeleteNotes(w) \/ CreateNote(w)
  PROVE  Walks(w) /\ Keeps(w) /\ UNCHANGED storeVars
<1> USE DEF CallOK, CallFails, At, Inside, Returned, RuleIsGood, Unprepared, Steps, Passes, PlaceFits,
            InProject, PublishesVerdict, Rechecked, Moves, RevOf
<1>1. CASE AcquireLock(w)
  BY <1>1, GotoPasses DEF AcquireLock, Walks, Keeps, ProcessInv, WorkersFit
<1>2. CASE Prepare(w)
  <2>1. CASE CallOK(w) /\ ~TargetCurrent(RevOf(w)) /\ Goto(w, "mark_stale")
    BY <1>2, <2>1, GotoPasses DEF Prepare, Walks, Keeps, IsCurrent, ProcessInv, WorkersFit
  <2>2. CASE Goto(w, "infra")
    BY <1>2, <2>2, GotoPasses DEF Prepare, Walks, Keeps, ProcessInv, WorkersFit
  <2>3. CASE wk' = [wk EXCEPT ![w].pc = "metadata", ![w].prepared = TRUE]
    BY <1>2, <2>3 DEF Prepare, Walks, Keeps, ProcessInv, WorkersFit, WorkerRecord
  <2> QED BY <1>2, <2>1, <2>2, <2>3 DEF Prepare
<1>3. CASE DeleteNotes(w)
  <2>1. /\ UNCHANGED <<gl, disc, mode, lock, ws, storeVars>>
        /\ UNCHANGED left \/ Spend("external")
    BY <1>3 DEF DeleteNotes
  <2>2. wk[w].pc = "delete_notes" /\ Goto(w, "create_note")
    BY <1>3 DEF DeleteNotes
  <2>3. Walks(w)
    BY <2>2, GotoPasses DEF Walks, ProcessInv, WorkersFit
  <2> QED BY <1>3, <2>1, <2>3 DEF Keeps
<1>4. CASE CreateNote(w)
  <2>1. /\ UNCHANGED <<gl, disc, mode, lock, ws, storeVars>>
        /\ UNCHANGED left \/ Spend("external")
    BY <1>4 DEF CreateNote
  <2>2. /\ wk[w].pc = "create_note"
        /\ Goto(w, "finish") \/ Goto(w, "infra")
    BY <1>4 DEF CreateNote
  <2>3. PICK pc \in {"finish", "infra"} : Goto(w, pc)
    BY <2>2
  <2>4. Passes(w, pc) /\ PlaceFits(wk[w])
    BY <2>2, <2>3, GotoPasses DEF ProcessInv, WorkersFit
  <2>5. Walks(w)
    BY <2>2, <2>4 DEF Walks
  <2> QED BY <1>4, <2>1, <2>5 DEF Keeps
<1> QED BY <1>1, <1>2, <1>3, <1>4

\* Steps that mark the row of the job.
LEMMA MarkingSteps ==
  ASSUME SystemAssumption, ProcessInv, NEW w \in Workers,
         \/ StageGit(w) \/ RecordGitMetadata(w) \/ StageGraph(w) \/ StageOCR(w)
         \/ StagePublishing(w) \/ RecheckTarget(w)
  PROVE  Walks(w) /\ Keeps(w) /\ (UNCHANGED storeVars \/ (Working(w) /\ Marks(RevOf(w))))
<1> USE DEF Working, CallOK, CallFails, At, Inside, Returned, RuleIsGood, Unprepared, Steps, Passes, PlaceFits,
            InProject, PublishesVerdict, Rechecked, Moves, RevOf
<1>1. CASE StageGit(w)
  BY <1>1, GotoPasses DEF StageGit, EnterStage, SystemAssumption, Marks, Walks, Keeps, ProcessInv, WorkersFit
<1>2. CASE StageGraph(w)
  BY <1>2, GotoPasses DEF StageGraph, EnterStage, SystemAssumption, Marks, Walks, Keeps, ProcessInv, WorkersFit
<1>3. CASE StageOCR(w)
  BY <1>3, GotoPasses DEF StageOCR, EnterStage, SystemAssumption, Marks, Walks, Keeps, ProcessInv, WorkersFit
<1>4. CASE StagePublishing(w)
  BY <1>4, GotoPasses DEF StagePublishing, EnterStage, SystemAssumption, Marks, Walks, Keeps, ProcessInv, WorkersFit,
     Outcomes, ReviewVerdict
<1>5. CASE RecordGitMetadata(w)
  <2>1. RuleAt[RevOf(w).target] \in Rules \union {NoRule}
    BY <1>5 DEF RecordGitMetadata, ProcessInv, WorkersFit, RevOf, Revisions, SystemAssumption
  <2>2. Goto(w, "stage_graph") \/ Goto(w, "stage_ocr") \/ Goto(w, "infra")
    BY <1>5 DEF RecordGitMetadata
  <2>3. UNCHANGED storeVars \/ (Working(w) /\ Marks(RevOf(w)))
    BY <1>5, <2>1 DEF RecordGitMetadata, Marks
  <2> QED BY <1>5, <2>2, <2>3, GotoPasses DEF RevOf, RecordGitMetadata, Walks, Keeps, ProcessInv, WorkersFit
<1>6. CASE RecheckTarget(w)
  BY <1>6, GotoPasses DEF RecheckTarget, MayRecordSession, Marks, Failed, ReviewVerdict,
     IsCurrent, Walks, Keeps, ProcessInv, WorkersFit
<1> QED BY <1>1, <1>2, <1>3, <1>4, <1>5, <1>6

\* The callbacks of the run, its return, the watcher and the timeout.
LEMMA CallbackSteps ==
  ASSUME ProcessInv, NEW w \in Workers,
         \/ ReportSession(w) \/ ReportUsage(w) \/ ReportStopsRun(w)
         \/ RunReturns(w) \/ WatcherCancels(w) \/ ReviewTimesOut(w)
  PROVE  /\ Walks(w) \/ UNCHANGED wk
         /\ Keeps(w)
         /\ UNCHANGED storeVars \/ (Working(w) /\ Marks(RevOf(w)))
<1> USE DEF Working, Reporting, CallOK, CallFails, At, Inside, Returned, RuleIsGood, Unprepared, Steps, Results, Outcomes,
            PlaceFits, InProject, PublishesVerdict, Rechecked, Moves, RevOf,
            ProcessInv, WorkersFit
<1>1. CASE ReportSession(w)
  BY <1>1 DEF ReportSession, Keeps, Marks
<1>2. CASE ReportUsage(w)
  BY <1>2 DEF ReportUsage, Keeps, Marks
<1>3. CASE ReportStopsRun(w)
  BY <1>3 DEF ReportStopsRun, Reporting, Walks, Keeps, WorkerRecord
<1>4. CASE RunReturns(w)
  <2>1. PICK result \in {"completed_pass", "completed_fail", "transient", "config"} :
          wk' = [wk EXCEPT ![w].pc = "superseded", ![w].result = result]
    BY <1>4 DEF RunReturns
  <2>2. Walks(w)
    <3>1. wk[w].pc = "ocr"
      BY <1>4 DEF RunReturns
    <3>2. wk'[w] = [wk[w] EXCEPT !.pc = "superseded", !.result = result]
      BY <2>1
    <3>3. wk[w] \in WorkerRecord /\ wk[w].rev \in Revisions
      BY <3>1
    <3>4. wk'[w] \in WorkerRecord
      BY <3>2, <3>3 DEF WorkerRecord
    <3>5. /\ wk'[w].pc = "superseded" /\ wk'[w].result = result
          /\ wk'[w].rev = wk[w].rev /\ wk'[w].ctx = wk[w].ctx
          /\ wk'[w].prepared = wk[w].prepared
      BY <3>2, <3>3 DEF WorkerRecord
    <3>6. Moves(w)
      BY <2>1, <3>1, <3>4, <3>5
    <3>7. PlaceFits(wk'[w])
      BY <3>3, <3>5
    <3> QED BY <3>1, <3>5, <3>6, <3>7 DEF Walks, WorkerRecord
  <2>3. Keeps(w)
    BY <1>4 DEF RunReturns, Keeps
  <2>4. UNCHANGED storeVars \/ (Working(w) /\ Marks(RevOf(w)))
    BY <1>4 DEF RunReturns, MayRecordSession, Marks
  <2> QED BY <2>2, <2>3, <2>4
<1>5. CASE WatcherCancels(w)
  BY <1>5 DEF WatcherCancels, Walks, Keeps, WorkerRecord
<1>6. CASE ReviewTimesOut(w)
  BY <1>6 DEF ReviewTimesOut, Walks, Keeps, WorkerRecord
<1> QED BY <1>1, <1>2, <1>3, <1>4, <1>5, <1>6

\* The ends of process: superseded, failed, or recorded.
LEMMA EndingSteps ==
  ASSUME ProcessInv, NEW w \in Workers,
         \/ CheckSuperseded(w) \/ InfraFailure(w) \/ RuleFailure(w) \/ Ends(w)
  PROVE  Walks(w) /\ Keeps(w) /\ (UNCHANGED storeVars \/ Ends(w))
<1> USE DEF CallOK, CallFails, At, Inside, Returned, RuleIsGood, Unprepared, Steps, Results, Outcomes,
            PlaceFits, InProject, PublishesVerdict, Rechecked, Moves, RevOf,
            ProcessInv, WorkersFit, ReviewVerdict
<1>1. CASE CheckSuperseded(w)
  BY <1>1, GotoPasses DEF CheckSuperseded, StopsAsSuperseded, GoesOn, Walks, Keeps, Passes
<1>2. ASSUME NEW pc \in {"infra", "rule_failed"},
             NEW outcome \in {"failed_infra", "rejected_rule_invalid"},
             StartFailure(w, pc, outcome)
      PROVE  Walks(w) /\ Keeps(w) /\ UNCHANGED storeVars
  <2>1. CASE StopsAsSuperseded(w)
    BY <1>2, <2>1, GotoPasses DEF StartFailure, StopsAsSuperseded, Walks, Keeps, Passes
  <2>2. CASE wk' = [wk EXCEPT ![w].pc = "delete_notes", ![w].result = outcome]
    <3>1. /\ wk[w].pc = pc /\ wk[w] \in WorkerRecord
          /\ UNCHANGED <<storeVars, gl, notes, lock, ws, disc, mode>>
      BY <1>2 DEF StartFailure
    <3>2. UNCHANGED left \/ Spend("store")
      BY <1>2, <2>2, <3>1 DEF StartFailure, GoesOn, StopsAsSuperseded
    <3>3. /\ wk'[w] = [wk[w] EXCEPT !.pc = "delete_notes", !.result = outcome]
          /\ wk' = [wk EXCEPT ![w] = wk'[w]]
      BY <2>2
    <3>4. /\ wk'[w] \in WorkerRecord
          /\ wk'[w].pc = "delete_notes" /\ wk'[w].result = outcome
          /\ wk'[w].rev = wk[w].rev /\ wk'[w].ctx = wk[w].ctx
          /\ wk'[w].prepared = wk[w].prepared
      BY <1>2, <3>1, <3>3 DEF WorkerRecord
    <3>5. Walks(w)
      BY <1>2, <3>1, <3>3, <3>4 DEF Walks
    <3>6. Keeps(w)
      BY <3>1, <3>2 DEF Keeps
    <3> QED BY <3>1, <3>5, <3>6
  <2> QED BY <1>2, <2>1, <2>2 DEF StartFailure
<1>3. CASE InfraFailure(w) \/ RuleFailure(w)
  BY <1>2, <1>3 DEF InfraFailure, RuleFailure
<1>4. CASE Ends(w)
  <2>1. /\ wk[w].pc # "idle" /\ Goto(w, "leave")
        /\ UNCHANGED <<gl, notes, lock, ws, disc, mode>>
        /\ UNCHANGED left \/ Spend("store")
    BY <1>4 DEF Ends, ScheduleRetry, FinishJob, MarkJobStale, Recorded
  <2>2. Passes(w, "leave")
    BY <2>1, GotoPasses
  <2>3. Walks(w)
    BY <1>4, <2>2 DEF Walks, Passes
  <2>4. Keeps(w)
    BY <2>1 DEF Keeps
  <2> QED BY <1>4, <2>3, <2>4
<1> QED BY <1>1, <1>3, <1>4

\* A worker that leaves, and one that claims or learns nothing of its claim.
LEMMA OuterSteps ==
  ASSUME ProcessInv, NEW w \in Workers, ClaimJob(w) \/ Leave(w)
  PROVE  /\ Keeps(w) /\ (UNCHANGED storeVars \/ ClaimJob(w))
         /\ wk' = [wk EXCEPT ![w] = wk'[w]]
         /\ wk'[w] \in WorkerRecord /\ PlaceFits(wk'[w])
<1> USE DEF ProcessInv, WorkersFit, WorkerRecord, IdleWorker, PlaceFits,
            Steps, Results, Returned, RuleIsGood, Unprepared
<1>1. CASE Leave(w)
  BY <1>1 DEF Leave, Keeps
<1>2. CASE ClaimJob(w)
  <2>1. PICK r \in Revisions :
          /\ Claim(w, r)
          /\ \/ wk' = [wk EXCEPT ![w] = [IdleWorker EXCEPT
                         !.pc = "ensure", !.rev = r,
                         !.attempt = job[r].attempt + 1]]
             \/ UNCHANGED wk
    BY <1>2 DEF ClaimJob
  <2>2. job[r].attempt \in Nat
    BY DEF StoreInv, RowOK, Row
  <2>3. wk' = [wk EXCEPT ![w] = wk'[w]] /\ wk'[w] \in WorkerRecord /\ PlaceFits(wk'[w])
    <3> DEFINE new == [IdleWorker EXCEPT !.pc = "ensure", !.rev = r,
                                         !.attempt = job[r].attempt + 1]
    <3>1. new \in WorkerRecord /\ PlaceFits(new)
      <4>1. job[r].attempt + 1 \in Nat
        BY <2>2
      <4>2. /\ new.pc = "ensure" /\ new.rev = r /\ new.result = "none"
            /\ new.attempt = job[r].attempt + 1
            /\ new.ctx = "live" /\ new.prepared = FALSE
        OBVIOUS
      <4>3. new \in WorkerRecord
        BY <4>1
      <4>4. PlaceFits(new)
        BY <4>2
      <4> QED BY <4>3, <4>4
    <3>2. CASE UNCHANGED wk
      BY <3>2
    <3>3. CASE wk' = [wk EXCEPT ![w] = new]
      <4> HIDE DEF new
      <4>1. wk'[w] = new
        BY <3>3
      <4> QED BY <3>1, <3>3, <4>1
    <3> QED BY <2>1, <3>2, <3>3
  <2>4. Keeps(w)
    BY <1>2 DEF ClaimJob, Keeps
  <2> QED BY <1>2, <2>3, <2>4
<1> QED BY <1>1, <1>2

\* Every step of a worker is one that walks, one that only marks its row, or
\* the first or the last of a review.
LEMMA WorkerSteps ==
  ASSUME SystemAssumption, ProcessInv, NEW w \in Workers, WorkerActs(w)
  PROVE  /\ Keeps(w) /\ Writes(w)
         /\ \/ Walks(w) /\ ~ClaimJob(w) /\ ~Leave(w)
            \/ UNCHANGED wk
            \/ ClaimJob(w)
            \/ Leave(w)
<1>1. CASE ClaimJob(w) \/ Leave(w)
  BY <1>1, OuterSteps DEF Writes
<1>2. CASE ~(ClaimJob(w) \/ Leave(w))
  BY <1>2, ReadingSteps, ProjectSteps, MarkingSteps, CallbackSteps, EndingSteps
     DEF WorkerActs, WorkerStep, Writes, Ends
<1> QED BY <1>1, <1>2


-----------------------------------------------------------------------------
(* The budget, and the columns of the table that the invariants speak of.  *)

Spends == UNCHANGED left \/ \E kind \in BudgetKinds : Spend(kind)

\* A budget is only spent; what has been spent stays so, and tells that the
\* thing has happened.
LEMMA SpendingCounts ==
  ASSUME BudgetFits, Spends
  PROVE  /\ BudgetFits'
         /\ \A kind \in BudgetKinds : Never(kind)' => Never(kind)
         /\ \A kind \in BudgetKinds : Spend(kind) => ~Never(kind)'
<1>1. CASE UNCHANGED left
  BY <1>1 DEF BudgetFits, Never, Spend
<1>2. ASSUME NEW kind \in BudgetKinds, Spend(kind)
      PROVE  /\ BudgetFits' /\ ~Never(kind)'
             /\ \A k \in BudgetKinds : Never(k)' => Never(k)
  <2> DEFINE now == [left.now EXCEPT ![kind] = @ - 1]
  <2>1. /\ left.now \in [BudgetKinds -> Nat] /\ left.of \in [BudgetKinds -> Nat]
        /\ left.now[kind] > 0 /\ left' = [left EXCEPT !.now = now]
    BY <1>2 DEF Spend, BudgetFits
  <2>2. now \in [BudgetKinds -> Nat]
    BY <2>1
  <2>3. left'.now = now /\ left'.of = left.of
        /\ left' \in [of : [BudgetKinds -> Nat], now : [BudgetKinds -> Nat]]
    BY <2>1, <2>2 DEF BudgetFits
  <2>4. \A k \in BudgetKinds : now[k] <= left.now[k] /\ left.now[k] <= left.of[k]
    BY <2>1 DEF BudgetFits
  <2>5. now[kind] < left.now[kind]
    BY <2>1
  <2>6. \A k \in BudgetKinds : now[k] \in Nat /\ left.now[k] \in Nat /\ left.of[k] \in Nat
    BY <2>1, <2>2
  <2> HIDE DEF now
  <2> QED BY <2>3, <2>4, <2>5, <2>6 DEF BudgetFits, Never
<1> QED BY <1>1, <1>2 DEF Spends

\* The row of q keeps its id, its state and its owner.
SameJob(q) == /\ job'[q].id = job[q].id /\ job'[q].state = job[q].state
              /\ job'[q].owner = job[q].owner
SameJobs == \A q \in Revisions : SameJob(q)

\* A running review marks its row without changing its state.
LEMMA MarksKeep ==
  ASSUME StoreInv, NEW r \in Revisions, Marks(r)
  PROVE  SameJobs
BY DEF StoreInv, RowOK, Row, Marks, SetStage, SetGitMetadata, SetLLMMetadata,
   SetUsage, SameJobs, SameJob

\* Nor do a priority or the passing of time.
LEMMA ChoresKeep ==
  ASSUME StoreInv, NEW r \in Revisions,
         (\E prio \in Priorities : SetPriority(r, prio)) \/ LeaseExpires(r)
  PROVE  SameJobs
BY DEF StoreInv, RowOK, Row, SetPriority, LeaseExpires, SameJobs, SameJob

\* What the end of a review writes: one statement about its own row, or none.
LEMMA EndsByStatement ==
  ASSUME ProcessInv, NEW w \in Workers, Ends(w)
  PROVE  /\ Working(w) /\ RevOf(w) \in Revisions /\ Goto(w, "leave")
         /\ \/ Spend("store") /\ UNCHANGED storeVars
            \/ \E tokens \in TokenCounts : RetryAfter(RevOf(w), tokens)
            \/ \E state \in Outcomes \ {"stale"}, tokens \in TokenCounts \union {0} :
                 Finish(RevOf(w), state, tokens)
            \/ At(w, "mark_stale") /\ MarkStale(RevOf(w))
<1>1. Working(w) /\ wk[w].pc # "idle" /\ Goto(w, "leave")
  BY DEF Ends, ScheduleRetry, FinishJob, MarkJobStale, Recorded, At, Working
<1>2. RevOf(w) \in Revisions
  BY <1>1 DEF ProcessInv, WorkersFit, PlaceFits, RevOf
<1>3. CASE ScheduleRetry(w)
  BY <1>1, <1>2, <1>3 DEF ScheduleRetry, Recorded
<1>4. CASE FinishJob(w)
  <2>1. wk[w].result \in Outcomes \ {"stale"}
    BY <1>4 DEF FinishJob, Recorded, At, ProcessInv, WorkersFit, PlaceFits
  <2> QED BY <1>1, <1>2, <1>4, <2>1 DEF FinishJob, Recorded
<1>5. CASE MarkJobStale(w)
  BY <1>1, <1>2, <1>5 DEF MarkJobStale, Recorded
<1> QED BY <1>3, <1>4, <1>5 DEF Ends

\* So no other row changes, a stale row stays stale, only mark_stale makes one
\* stale, and the row is not left running unless the statement failed.
LEMMA EndsWrites ==
  ASSUME StoreAssumption, ProcessInv, NEW w \in Workers, Ends(w)
  PROVE  /\ \A q \in Revisions \ {RevOf(w)} : job'[q] = job[q]
         /\ job'[RevOf(w)].id = job[RevOf(w)].id
         /\ job[RevOf(w)].state = "stale" => job'[RevOf(w)].state = "stale"
         /\ job'[RevOf(w)].state = "stale" =>
              job[RevOf(w)].state = "stale" \/ At(w, "mark_stale")
         /\ job'[RevOf(w)].state = "running" => Spend("store")
<1> DEFINE r == RevOf(w)
<1>1. r \in Revisions /\ job[r] \in Row /\ job = [q \in Revisions |-> job[q]]
  BY EndsByStatement DEF ProcessInv, StoreInv, RowOK
<1>2. CASE Spend("store") /\ UNCHANGED storeVars
  BY <1>2 DEF storeVars
<1>3. ASSUME NEW tokens \in TokenCounts, RetryAfter(r, tokens)
      PROVE  /\ \A q \in Revisions \ {r} : job'[q] = job[q]
             /\ job'[r].id = job[r].id
             /\ job[r].state = "stale" => job'[r].state = "stale"
             /\ job'[r].state = "stale" => job[r].state = "stale"
             /\ job'[r].state # "running"
  BY <1>1, <1>3 DEF RetryAfter, Row
<1>4. ASSUME NEW state \in Outcomes, NEW tokens \in TokenCounts \union {0},
             Finish(r, state, tokens)
      PROVE  /\ \A q \in Revisions \ {r} : job'[q] = job[q]
             /\ job'[r].id = job[r].id
             /\ job[r].state = "stale" => job'[r].state = "stale"
             /\ job'[r].state = "stale" => job[r].state = "stale" \/ state = "stale"
             /\ job'[r].state # "running"
  BY <1>1, <1>4 DEF Finish, Row, Outcomes
<1>5. CASE At(w, "mark_stale") /\ MarkStale(r)
  <2>1. Finish(r, "stale", 0) /\ "stale" \in Outcomes
    BY <1>5 DEF MarkStale, Outcomes
  <2> QED BY <1>4, <1>5, <2>1
<1> QED BY <1>2, <1>3, <1>4, <1>5, EndsByStatement

-----------------------------------------------------------------------------
(* The system uses the table by its statements only.                       *)

\* A worker writes the row of its own job.
LEMMA WorkerStatements ==
  ASSUME StoreAssumption, ProcessInv, NEW w \in Workers, Writes(w)
  PROVE  [StoreNext]_storeVars
<1>1. CASE UNCHANGED storeVars
  BY <1>1
<1>2. CASE Working(w) /\ Marks(RevOf(w))
  <2>1. RevOf(w) \in Revisions
    BY <1>2 DEF Working, ProcessInv, WorkersFit, PlaceFits, RevOf
  <2> QED BY <1>2, <2>1 DEF Marks, StoreNext
<1>3. CASE ClaimJob(w)
  BY <1>3 DEF ClaimJob, StoreNext
<1>4. CASE Ends(w)
  <2>1. 0 \in TokenCounts /\ "stale" \in Outcomes
    BY DEF StoreAssumption, Outcomes
  <2>2. RevOf(w) \in Revisions
    BY <1>4, EndsByStatement
  <2>3. CASE \E state \in Outcomes, tokens \in TokenCounts : Finish(RevOf(w), state, tokens)
    BY <2>2, <2>3 DEF StoreNext
  <2>4. CASE \E tokens \in TokenCounts : RetryAfter(RevOf(w), tokens)
    BY <2>2, <2>4 DEF StoreNext
  <2>5. TokenCounts \union {0} = TokenCounts
    BY <2>1
  <2> QED BY <1>1, <1>4, <2>1, <2>3, <2>4, <2>5, EndsByStatement DEF MarkStale
<1> QED BY <1>1, <1>2, <1>3, <1>4 DEF Writes

\* A discovery inserts the revision it has found.
Enqueues(s) == DiscoverEnqueue(s) /\ disc[s].found \in Revisions /\ Enqueue(disc[s].found)

\* A discovery keeps its shape, and inserts the revision it has read.
LEMMA DiscoverySteps ==
  ASSUME SystemAssumption, ProcessInv, NEW s \in Scanners, Discovery(s)
  PROVE  /\ UNCHANGED <<gl, notes, lock, ws, wk, mode>>
         /\ UNCHANGED left \/ Spend("admin") \/ Spend("external") \/ Spend("store")
         /\ disc' \in [Scanners -> DiscoveryRecord]
         /\ \/ UNCHANGED storeVars
            \/ Enqueues(s)
<1>1. /\ disc \in [Scanners -> DiscoveryRecord]
      /\ gl.head \in [MRs -> Heads] /\ gl.target \in [Projects -> Targets]
      /\ ProjectOf \in [MRs -> Projects]
  BY DEF ProcessInv, RestTyped, GitLabTyped, SystemAssumption
<1>2. CASE DiscoverList(s)
  <2> DEFINE list == {[mr |-> m, head |-> gl.head[m]] : m \in {m \in MRs : gl.open[m]}}
  <2>1. list \in SUBSET [mr : MRs, head : Heads]
    BY <1>1
  <2>2. disc' = [disc EXCEPT ![s].listed = list]
    BY <1>2 DEF DiscoverList
  <2> HIDE DEF list
  <2>3. disc' \in [Scanners -> DiscoveryRecord]
    BY <1>1, <2>1, <2>2 DEF DiscoveryRecord
  <2> QED BY <1>2, <2>3 DEF DiscoverList
<1>3. CASE DiscoverTarget(s)
  <2>1. PICK x \in disc[s].listed :
          LET rest == disc[s].listed \ {x}
              r == [mr |-> x.mr, head |-> x.head,
                    target |-> gl.target[ProjectOf[x.mr]]] IN
          \/ disc' = [disc EXCEPT ![s] = [listed |-> rest, found |-> r]]
          \/ disc' = [disc EXCEPT ![s].listed = rest]
    BY <1>3 DEF DiscoverTarget
  <2> DEFINE rest == disc[s].listed \ {x}
             r == [mr |-> x.mr, head |-> x.head,
                   target |-> gl.target[ProjectOf[x.mr]]]
  <2>2. /\ disc[s].listed \in SUBSET [mr : MRs, head : Heads]
        /\ disc[s].found \in Revisions \union {NoRevision}
    BY <1>1 DEF DiscoveryRecord
  <2>3. rest \in SUBSET [mr : MRs, head : Heads] /\ x.mr \in MRs /\ x.head \in Heads
    BY <2>2
  <2>4. r \in Revisions
    BY <1>1, <2>3 DEF Revisions
  <2>5. \/ disc' = [disc EXCEPT ![s] = [listed |-> rest, found |-> r]]
        \/ disc' = [disc EXCEPT ![s].listed = rest]
    BY <2>1
  <2> HIDE DEF rest, r
  <2>6. /\ [listed |-> rest, found |-> r] \in DiscoveryRecord
        /\ [disc[s] EXCEPT !.listed = rest] \in DiscoveryRecord
    BY <1>1, <2>3, <2>4 DEF DiscoveryRecord
  <2>7. PICK e \in DiscoveryRecord : disc' = [disc EXCEPT ![s] = e]
    BY <2>5, <2>6
  <2>8. disc' \in [Scanners -> DiscoveryRecord]
    BY <1>1, <2>7
  <2> QED BY <1>3, <2>8 DEF DiscoverTarget
<1>4. CASE DiscoverEnqueue(s)
  <2>1. disc' \in [Scanners -> DiscoveryRecord] /\ disc[s].found \in Revisions
    BY <1>1, <1>4 DEF DiscoverEnqueue, DiscoveryRecord
  <2> QED BY <1>4, <2>1 DEF DiscoverEnqueue, Enqueues
<1> QED BY <1>2, <1>3, <1>4 DEF Discovery

\* What happens outside touches the table by the administrator's statements,
\* the passing of time and the recovery.
LEMMA OutsideStatements ==
  ASSUME Environment
  PROVE  [StoreNext]_storeVars
<1>1. CASE Administrate
  BY <1>1 DEF Administrate, StoreNext
<1>2. CASE LeaseTimePasses \/ RetryTimePasses
  BY <1>2 DEF LeaseTimePasses, RetryTimePasses, StoreNext
<1>3. CASE Restart
  BY <1>3 DEF Restart, StoreNext
<1>4. CASE Stop
  BY <1>4 DEF Stop
<1>5. CASE \E m \in MRs : Push(m) \/ ToggleReview(m)
  BY <1>5 DEF Push, ToggleReview
<1>6. CASE \E p \in Projects : MoveTarget(p)
  BY <1>6 DEF MoveTarget
<1> QED BY <1>1, <1>2, <1>3, <1>4, <1>5, <1>6 DEF Environment

\* So every step of the system is a statement of the table or none.
LEMMA SystemStatements ==
  ASSUME StoreAssumption, SystemAssumption, ProcessInv, [SystemNext]_vars
  PROVE  [StoreNext]_storeVars
<1>1. CASE UNCHANGED vars
  BY <1>1 DEF vars, storeVars
<1>2. ASSUME NEW w \in Workers, WorkerActs(w) PROVE [StoreNext]_storeVars
  BY <1>2, WorkerSteps, WorkerStatements
<1>3. ASSUME NEW s \in Scanners, Discovery(s) PROVE [StoreNext]_storeVars
  BY <1>3, DiscoverySteps DEF StoreNext, Enqueues
<1>4. CASE Environment
  BY <1>4, OutsideStatements
<1> QED BY <1>1, <1>2, <1>3, <1>4 DEF SystemNext, WorkerActs

-----------------------------------------------------------------------------
(* Every step keeps the types and the places.                              *)

\* A worker leaves notes, locks and workspaces of their types.
LEMMA WorkerKeepsTypes ==
  ASSUME SystemAssumption, ProcessInv, NEW w \in Workers, Keeps(w)
  PROVE  RestTyped' /\ GitLabTyped' /\ Spends
<1> DEFINE N == [rev : Revisions, verdict : Outcomes]
<1>1. /\ wk \in [Workers -> WorkerRecord] /\ PlaceFits(wk[w])
      /\ notes \in [MRs -> SUBSET N]
      /\ lock \in [Projects -> Workers \union {NoOwner}]
      /\ ws \in [Projects -> Revisions \union {NoRevision}]
      /\ disc \in [Scanners -> DiscoveryRecord] /\ mode \in {"up", "stopping"}
  BY DEF ProcessInv, WorkersFit, RestTyped
<1>2. UNCHANGED <<gl, disc, mode>> /\ Spends
  BY DEF Keeps, Spends, BudgetKinds
<1>3. notes' \in [MRs -> SUBSET N]
  <2>1. CASE UNCHANGED notes
    BY <1>1, <2>1
  <2>2. ASSUME At(w, "delete_notes") \/ At(w, "create_note")
        PROVE  RevOf(w).mr \in MRs /\ Note(w) \in N
    BY <1>1, <2>2 DEF At, RevOf, Note, PlaceFits, Revisions
  <2>3. CASE DeleteNotes(w)
    <3>1. RevOf(w).mr \in MRs
      BY <2>2, <2>3 DEF DeleteNotes
    <3>2. \E kept \in SUBSET notes[RevOf(w).mr] :
             notes' = [notes EXCEPT ![RevOf(w).mr] = kept]
      BY <2>3 DEF DeleteNotes
    <3> HIDE DEF N
    <3> QED BY <1>1, <3>1, <3>2
  <2>4. CASE CreateNote(w)
    <3>1. RevOf(w).mr \in MRs /\ Note(w) \in N
      BY <2>2, <2>4 DEF CreateNote
    <3>2. notes' = notes
          \/ notes' = [notes EXCEPT ![RevOf(w).mr] = @ \union {Note(w)}]
      BY <2>4 DEF CreateNote
    <3> HIDE DEF N
    <3> QED BY <1>1, <3>1, <3>2
  <2> QED BY <2>1, <2>3, <2>4 DEF Keeps
<1>4. lock' \in [Projects -> Workers \union {NoOwner}]
  BY <1>1 DEF Keeps, AcquireLock, Leave
<1>5. ws' \in [Projects -> Revisions \union {NoRevision}]
  <2>1. CASE Prepare(w)
    <3>1. RevOf(w) \in Revisions
      BY <1>1, <2>1 DEF Prepare, At, PlaceFits, RevOf
    <3> QED BY <1>1, <2>1, <3>1 DEF Prepare
  <2>2. CASE Leave(w)
    BY <1>1, <2>2 DEF Leave
  <2> QED BY <1>1, <2>1, <2>2 DEF Keeps
<1> QED BY <1>1, <1>2, <1>3, <1>4, <1>5 DEF RestTyped, GitLabTyped, ProcessInv

\* A worker's step keeps every worker's place.
LEMMA WorkerKeepsPlaces ==
  ASSUME SystemAssumption, ProcessInv, NEW w \in Workers, WorkerActs(w)
  PROVE  WorkersFit'
<1>1. UNCHANGED wk \/ (/\ wk' = [wk EXCEPT ![w] = wk'[w]]
                       /\ wk'[w] \in WorkerRecord /\ PlaceFits(wk'[w]))
  BY WorkerSteps, OuterSteps DEF Walks, Moves
<1> QED BY <1>1 DEF ProcessInv, WorkersFit

\* What happens outside keeps GitLab's types, spends the budget, and leaves
\* the bot alone, except where the process ends.
LEMMA OutsideSteps ==
  ASSUME ProcessInv, Environment
  PROVE  /\ Spends /\ GitLabTyped'
         /\ UNCHANGED <<notes, bot>> \/ Stop \/ Restart
<1>1. gl \in [head : [MRs -> Heads], open : [MRs -> BOOLEAN],
              target : [Projects -> Targets]]
  BY DEF ProcessInv, GitLabTyped
<1>2. ASSUME NEW m \in MRs, Push(m) PROVE GitLabTyped'
  <2>1. PICK h \in Heads : gl' = [gl EXCEPT !.head = [gl.head EXCEPT ![m] = h]]
    BY <1>2 DEF Push
  <2>2. [gl.head EXCEPT ![m] = h] \in [MRs -> Heads]
    BY <1>1
  <2> QED BY <1>1, <2>1, <2>2 DEF GitLabTyped
<1>3. ASSUME NEW m \in MRs, ToggleReview(m) PROVE GitLabTyped'
  <2>1. gl' = [gl EXCEPT !.open = [gl.open EXCEPT ![m] = ~@]]
    BY <1>3 DEF ToggleReview
  <2>2. [gl.open EXCEPT ![m] = ~@] \in [MRs -> BOOLEAN]
    BY <1>1
  <2> QED BY <1>1, <2>1, <2>2 DEF GitLabTyped
<1>4. ASSUME NEW p \in Projects, MoveTarget(p) PROVE GitLabTyped'
  <2>1. PICK t \in Targets : gl' = [gl EXCEPT !.target = [gl.target EXCEPT ![p] = t]]
    BY <1>4 DEF MoveTarget
  <2>2. [gl.target EXCEPT ![p] = t] \in [Projects -> Targets]
    BY <1>1
  <2> QED BY <1>1, <2>1, <2>2 DEF GitLabTyped
<1>5. CASE Administrate \/ LeaseTimePasses \/ RetryTimePasses
  BY <1>1, <1>5 DEF Administrate, LeaseTimePasses, RetryTimePasses, GitLabTyped,
     Spends, BudgetKinds
<1>6. CASE Stop \/ Restart
  BY <1>1, <1>6 DEF Stop, Restart, GitLabTyped, Spends, BudgetKinds
<1>7. CASE \E m \in MRs : Push(m) \/ ToggleReview(m)
  BY <1>2, <1>3, <1>7 DEF Push, ToggleReview, Spends, BudgetKinds
<1>8. CASE \E p \in Projects : MoveTarget(p)
  BY <1>4, <1>8 DEF MoveTarget, Spends, BudgetKinds
<1> QED BY <1>5, <1>6, <1>7, <1>8 DEF Environment

\* A worker whose context alone changes stays where it is.
LEMMA StopKeepsPlaces ==
  ASSUME ProcessInv, Stop
  PROVE  /\ WorkersFit' /\ RestTyped'
         /\ \A w \in Workers :
              /\ wk'[w].pc = wk[w].pc /\ wk'[w].rev = wk[w].rev
              /\ wk'[w].prepared = wk[w].prepared /\ wk'[w].result = wk[w].result
              /\ wk'[w].ctx = wk[w].ctx \/ wk'[w].ctx = "dead"
<1>1. wk \in [Workers -> WorkerRecord] /\ \A w \in Workers : PlaceFits(wk[w])
  BY DEF ProcessInv, WorkersFit
<1>2. ASSUME NEW w \in Workers
      PROVE  /\ wk'[w] \in WorkerRecord
             /\ wk'[w].pc = wk[w].pc /\ wk'[w].rev = wk[w].rev
             /\ wk'[w].prepared = wk[w].prepared /\ wk'[w].result = wk[w].result
             /\ wk'[w].ctx = wk[w].ctx \/ wk'[w].ctx = "dead"
  <2>1. wk'[w] = wk[w] \/ wk'[w] = [wk[w] EXCEPT !.ctx = "dead"]
    BY DEF Stop
  <2> QED BY <1>1, <2>1 DEF WorkerRecord
<1>3. wk' = [w \in Workers |-> wk'[w]]
  BY DEF Stop
<1>4. \A w \in Workers : PlaceFits(wk'[w])
  BY <1>1, <1>2 DEF PlaceFits
<1>5. IdleDiscovery \in DiscoveryRecord
  BY DEF IdleDiscovery, DiscoveryRecord
<1>6. RestTyped'
  BY <1>5 DEF Stop, ProcessInv, RestTyped
<1> QED BY <1>2, <1>3, <1>4, <1>6 DEF WorkersFit

\* A new process starts with every worker idle and every project free.
LEMMA RestartIsFresh ==
  ASSUME ProcessInv, Restart
  PROVE  WorkersFit' /\ RestTyped'
<1>1. IdleWorker \in WorkerRecord /\ PlaceFits(IdleWorker)
  BY DEF IdleWorker, WorkerRecord, PlaceFits, Steps, Results, Returned,
     RuleIsGood, Unprepared
<1>2. IdleDiscovery \in DiscoveryRecord
  BY DEF IdleDiscovery, DiscoveryRecord
<1>3. WorkersFit'
  BY <1>1 DEF Restart, WorkersFit
<1> QED BY <1>2, <1>3 DEF Restart, ProcessInv, RestTyped

\* The invariant is inductive.
LEMMA ProcessInvStep ==
  ASSUME StoreAssumption, SystemAssumption, ProcessInv, [SystemNext]_vars
  PROVE  ProcessInv' /\ Spends
<1>1. StoreInv'
  BY SystemStatements, StoreInvStep DEF ProcessInv
<1>2. CASE UNCHANGED vars
  BY <1>1, <1>2 DEF vars, ProcessInv, WorkersFit, GitLabTyped, BudgetFits,
     RestTyped, Spends
<1>3. ASSUME NEW w \in Workers, WorkerActs(w) PROVE ProcessInv' /\ Spends
  BY <1>1, <1>3, WorkerSteps, WorkerKeepsTypes, WorkerKeepsPlaces,
     SpendingCounts DEF ProcessInv
<1>4. ASSUME NEW s \in Scanners, Discovery(s) PROVE ProcessInv' /\ Spends
  <2>1. Spends
    BY <1>4, DiscoverySteps DEF Spends, BudgetKinds
  <2>2. WorkersFit' /\ GitLabTyped' /\ RestTyped'
    BY <1>4, DiscoverySteps DEF ProcessInv, WorkersFit, GitLabTyped, RestTyped
  <2> QED BY <1>1, <2>1, <2>2, SpendingCounts DEF ProcessInv
<1>5. CASE Environment
  <2>1. WorkersFit' /\ RestTyped'
    <3>1. CASE UNCHANGED <<notes, bot>>
      BY <3>1 DEF bot, ProcessInv, WorkersFit, RestTyped
    <3> QED BY <1>5, <3>1, OutsideSteps, StopKeepsPlaces, RestartIsFresh
  <2> QED BY <1>1, <1>5, <2>1, OutsideSteps, SpendingCounts DEF ProcessInv
<1> QED BY <1>2, <1>3, <1>4, <1>5 DEF SystemNext, WorkerActs

\* Branches start at their least commit.
LEMMA LeastIsMember ==
  ASSUME NEW S \in SUBSET Nat, S # {}
  PROVE  Least(S) \in S
<1> DEFINE R == {pair \in Nat \X Nat : pair[1] < pair[2]}
<1>1. IsWellFoundedOn(R, Nat)
  BY NatLessThanWellFounded DEF OpToRel
<1> HIDE DEF R
<1>2. PICK x \in S : \A y \in S : ~(<<y, x>> \in R)
  BY <1>1, WFMin
<1>3. ASSUME NEW y \in S PROVE x <= y
  <2>1. x \in Nat /\ y \in Nat
    BY <1>2
  <2>2. <<y, x>> \in Nat \X Nat /\ <<y, x>>[1] = y /\ <<y, x>>[2] = x
    BY <2>1
  <2>3. ~(y < x)
    BY <1>2, <2>2 DEF R
  <2> QED BY <2>1, <2>3
<1> QED BY <1>3 DEF Least

\* It holds at the start.
LEMMA ProcessInvInit ==
  ASSUME StoreAssumption, SystemAssumption, SystemInit
  PROVE  ProcessInv
<1>1. StoreInv
  BY StoreInit1 DEF SystemInit
<1>2. IdleWorker \in WorkerRecord /\ PlaceFits(IdleWorker)
  BY DEF IdleWorker, WorkerRecord, PlaceFits, Steps, Results, Returned,
     RuleIsGood, Unprepared
<1>3. WorkersFit
  BY <1>2 DEF SystemInit, WorkersFit
<1>4. Least(Heads) \in Heads /\ Least(Targets) \in Targets
  BY LeastIsMember DEF SystemAssumption
<1> QED BY <1>1, <1>3, <1>4 DEF SystemInit, ProcessInv, GitLabTyped, RestTyped,
     BudgetFits, SystemAssumption, IdleDiscovery, DiscoveryRecord

\* The inductive invariant holds in every state the system reaches.
THEOREM SystemInvariant == SystemSpec => []ProcessInv
<1> USE StoreAssumption, SystemAssumption
<1>1. SystemInit => ProcessInv
  BY ProcessInvInit
<1>2. ProcessInv /\ [SystemNext]_vars => ProcessInv'
  BY ProcessInvStep
<1> QED BY <1>1, <1>2, PTL DEF SystemSpec

\* Workers, discovery and the table always keep their types; what a worker
\* finishes a job with is a state that Finish takes.
THEOREM SystemStaysTyped == SystemSpec => []SystemTypeOK
BY SystemInvariant, ProcessInvTyped, PTL

\* Whatever workers, administrators and restarts do, they change the table by
\* its statements only: the system implements the store.
THEOREM SystemImplementsStore == SystemSpec => StoreRefined
<1> USE StoreAssumption, SystemAssumption
<1>1. SystemInit => StoreInit
  BY DEF SystemInit
<1>2. ProcessInv /\ [SystemNext]_vars => [StoreNext]_storeVars
  BY SystemStatements
<1> QED BY <1>1, <1>2, SystemInvariant, PTL DEF SystemSpec, StoreSpec, StoreRefined

\* So in the running system, too, exactly the running rows are owned and
\* leased, a superseded revision never comes back to work, and a second active
\* row of a merge request has been brought back from an end.
THEOREM SystemTableSound ==
  SystemSpec => []StoreSound /\ StaleIsFinal /\ SecondActiveIsReactivated
BY SystemImplementsStore, StoreStaysSound, StaleStaysFinal,
   SecondActiveNeedsRetry, PTL DEF StoreRefined

-----------------------------------------------------------------------------
\* A claim takes one row; the worker starts on it unless the row could not be
\* read back.
LEMMA ClaimTakes ==
  ASSUME ProcessInv, NEW w \in Workers, ClaimJob(w)
  PROVE  /\ wk[w].pc = "idle" /\ UNCHANGED <<gl, notes, lock, ws, disc, mode>>
         /\ \E r \in Revisions :
              /\ Claim(w, r)
              /\ \/ UNCHANGED wk /\ Spend("store")
                 \/ /\ UNCHANGED left
                    /\ wk' = [wk EXCEPT ![w] = wk'[w]]
                    /\ wk'[w].pc = "ensure" /\ wk'[w].rev = r
                    /\ wk'[w].ctx = "live" /\ ~wk'[w].prepared
<1>1. PICK r \in Revisions :
        /\ Claim(w, r)
        /\ \/ wk' = [wk EXCEPT ![w] = [IdleWorker EXCEPT
                       !.pc = "ensure", !.rev = r,
                       !.attempt = job[r].attempt + 1]] /\ UNCHANGED left
           \/ Spend("store") /\ UNCHANGED wk
  BY DEF ClaimJob
<1> DEFINE new == [IdleWorker EXCEPT !.pc = "ensure", !.rev = r,
                                     !.attempt = job[r].attempt + 1]
<1>2. new.pc = "ensure" /\ new.rev = r /\ new.ctx = "live" /\ new.prepared = FALSE
  BY DEF IdleWorker
<1>3. wk \in [Workers -> WorkerRecord]
  BY DEF ProcessInv, WorkersFit
<1>4. wk' = [wk EXCEPT ![w] = new] => wk'[w] = new /\ wk' = [wk EXCEPT ![w] = wk'[w]]
  <2> HIDE DEF new
  <2> QED BY <1>3
<1> QED BY <1>1, <1>2, <1>4 DEF ClaimJob, At

-----------------------------------------------------------------------------
(* The project lock and the workspace.                                     *)

Holds(w) == lock[ProjectFor(w)] = w

\* A worker inside its project holds it, and from Prepare to its leaving the
\* workspace holds its revision.
LockInv ==
  \A w \in Workers :
    /\ InProject(wk[w]) => Holds(w)
    /\ wk[w].prepared => Holds(w) /\ ws[ProjectFor(w)] = RevOf(w)

\* A worker inside, or with a workspace, is on a job of a project.
LEMMA InsideHasProject ==
  ASSUME SystemAssumption, ProcessInv, NEW w \in Workers,
         wk[w].pc # "idle" \/ InProject(wk[w]) \/ wk[w].prepared
  PROVE  RevOf(w) \in Revisions /\ ProjectFor(w) \in Projects
<1>1. wk[w].pc # "idle"
  BY DEF InProject, Inside, PublishesVerdict, ProcessInv, WorkersFit, PlaceFits, Unprepared
<1> QED BY <1>1 DEF ProcessInv, WorkersFit, PlaceFits, RevOf, ProjectFor, Revisions,
        SystemAssumption

\* What one worker does leaves the project of another alone.
LEMMA OthersKeepProject ==
  ASSUME StoreAssumption, SystemAssumption, ProcessInv, LockInv,
         NEW v \in Workers, WorkerActs(v), NEW w \in Workers \ {v},
         Holds(w), ProjectFor(w) \in Projects
  PROVE  /\ wk'[w] = wk[w]
         /\ lock'[ProjectFor(w)] = w /\ ws'[ProjectFor(w)] = ws[ProjectFor(w)]
<1>1. wk'[w] = wk[w]
  <2>1. UNCHANGED wk \/ wk' = [wk EXCEPT ![v] = wk'[v]]
    BY WorkerSteps, OuterSteps DEF Walks, Moves
  <2> QED BY <2>1 DEF ProcessInv, WorkersFit
<1>2. w # NoOwner /\ lock \in [Projects -> Workers \union {NoOwner}]
      /\ ws \in [Projects -> Revisions \union {NoRevision}]
  BY DEF StoreAssumption, ProcessInv, RestTyped
<1>3. lock'[ProjectFor(w)] = w
  <2>1. CASE AcquireLock(v)
    <3>1. lock' = lock \/ (lock[ProjectFor(v)] = NoOwner
                           /\ lock' = [lock EXCEPT ![ProjectFor(v)] = v])
      BY <2>1 DEF AcquireLock
    <3> QED BY <1>2, <3>1 DEF Holds
  <2>2. CASE Leave(v)
    BY <1>2, <2>2 DEF Leave, Holds
  <2> QED BY <1>2, <2>1, <2>2, WorkerSteps DEF Keeps, Holds
<1>4. ws'[ProjectFor(w)] = ws[ProjectFor(w)]
  <2>1. CASE Prepare(v)
    <3>1. lock[ProjectFor(v)] = v
      BY <2>1 DEF Prepare, At, LockInv, InProject, Inside, Holds
    <3>2. ProjectFor(v) # ProjectFor(w)
      BY <3>1 DEF Holds
    <3>3. \E x : ws' = [ws EXCEPT ![ProjectFor(v)] = x]
      BY <2>1 DEF Prepare
    <3> QED BY <1>2, <3>2, <3>3
  <2>2. CASE Leave(v)
    <3>1. CASE wk[v].prepared
      <4>1. ProjectFor(v) # ProjectFor(w)
        BY <3>1 DEF LockInv, Holds
      <4>2. ws' = [ws EXCEPT ![ProjectFor(v)] = NoRevision]
        BY <2>2, <3>1 DEF Leave
      <4> QED BY <1>2, <4>1, <4>2
    <3>2. CASE ~wk[v].prepared
      BY <2>2, <3>2 DEF Leave
    <3> QED BY <3>1, <3>2
  <2> QED BY <2>1, <2>2, WorkerSteps DEF Keeps
<1> QED BY <1>1, <1>3, <1>4

\* A worker's step keeps the invariant: its own project is its own from
\* AcquireLock to Leave, and the workspace from Prepare.
LEMMA LockInvWorker ==
  ASSUME StoreAssumption, SystemAssumption, ProcessInv, LockInv,
         NEW v \in Workers, WorkerActs(v)
  PROVE  LockInv'
<1>1. ASSUME NEW w \in Workers \ {v}
      PROVE  /\ InProject(wk'[w]) => lock'[ProjectOf[wk'[w].rev.mr]] = w
             /\ wk'[w].prepared =>
                  /\ lock'[ProjectOf[wk'[w].rev.mr]] = w
                  /\ ws'[ProjectOf[wk'[w].rev.mr]] = wk'[w].rev
  <2>1. UNCHANGED wk \/ wk' = [wk EXCEPT ![v] = wk'[v]]
    BY WorkerSteps, OuterSteps DEF Walks, Moves
  <2>2. wk'[w] = wk[w]
    BY <2>1 DEF ProcessInv, WorkersFit
  <2> QED BY <2>2, OthersKeepProject, InsideHasProject DEF LockInv, ProjectFor, RevOf
<1>2. /\ InProject(wk'[v]) => lock'[ProjectOf[wk'[v].rev.mr]] = v
      /\ wk'[v].prepared =>
           /\ lock'[ProjectOf[wk'[v].rev.mr]] = v
           /\ ws'[ProjectOf[wk'[v].rev.mr]] = wk'[v].rev
  <2>1. /\ lock \in [Projects -> Workers \union {NoOwner}]
        /\ ws \in [Projects -> Revisions \union {NoRevision}]
        /\ wk \in [Workers -> WorkerRecord]
    BY DEF ProcessInv, WorkersFit, RestTyped
  <2>2. CASE ClaimJob(v)
    <3>1. UNCHANGED <<lock, ws>>
      BY <2>2, ClaimTakes
    <3>2. wk'[v] = wk[v] \/ (wk'[v].pc = "ensure" /\ ~wk'[v].prepared)
      BY <2>2, ClaimTakes
    <3> QED BY <3>1, <3>2 DEF LockInv, Holds, ProjectFor, RevOf, InProject, Inside, PublishesVerdict
  <2>3. CASE Leave(v)
    <3>1. wk'[v] = IdleWorker
      BY <2>1, <2>3 DEF Leave
    <3> QED BY <3>1 DEF IdleWorker, InProject, Inside, PublishesVerdict
  <2>4. CASE ~ClaimJob(v) /\ ~Leave(v)
    <3>1. Keeps(v) /\ (UNCHANGED wk \/ Walks(v))
      BY <2>4, WorkerSteps
    <3>2. CASE AcquireLock(v)
      <4>1. Walks(v) /\ At(v, "lock") /\ UNCHANGED ws
        BY <3>2, ProjectSteps DEF AcquireLock
      <4>2. wk'[v].rev = wk[v].rev /\ wk[v].pc = "lock" /\ ~wk[v].prepared
            /\ ProjectFor(v) \in Projects
        BY <4>1, InsideHasProject DEF Walks, Moves, At, ProcessInv, WorkersFit, PlaceFits, Unprepared
      <4>3. ~wk'[v].prepared
        BY <3>2, <4>1, <4>2 DEF Walks, Prepare, At
      <4>4. (Goto(v, "infra") \/ lock' = [lock EXCEPT ![ProjectFor(v)] = v])
        BY <3>2 DEF AcquireLock
      <4>5. CASE Goto(v, "infra")
        <5>1. wk'[v].pc = "infra"
          BY <2>1, <4>5 DEF Goto, WorkerRecord
        <5> QED BY <4>3, <5>1 DEF InProject, Inside, PublishesVerdict
      <4>6. CASE lock' = [lock EXCEPT ![ProjectFor(v)] = v]
        BY <2>1, <4>2, <4>3, <4>6 DEF ProjectFor, RevOf
      <4> QED BY <4>4, <4>5, <4>6
    <3>3. CASE Prepare(v)
      <4>1. Walks(v) /\ At(v, "prepare") /\ UNCHANGED lock
        BY <3>3, ProjectSteps DEF Prepare
      <4>2. wk'[v].rev = wk[v].rev /\ wk[v].pc = "prepare" /\ ~wk[v].prepared
            /\ ProjectFor(v) \in Projects
        BY <4>1, InsideHasProject DEF Walks, Moves, At, ProcessInv, WorkersFit, PlaceFits, Unprepared
      <4>3. Holds(v)
        BY <4>2 DEF LockInv, InProject, Inside
      <4>4. wk'[v].prepared => ws' = [ws EXCEPT ![ProjectFor(v)] = RevOf(v)]
        BY <2>1, <3>3, <4>2 DEF Prepare, Goto, WorkerRecord
      <4> QED BY <2>1, <4>1, <4>2, <4>3, <4>4 DEF Holds, ProjectFor, RevOf
    <3>4. CASE ~AcquireLock(v) /\ ~Prepare(v)
      <4>1. UNCHANGED <<lock, ws>>
        BY <2>4, <3>1, <3>4 DEF Keeps
      <4> QED BY <3>1, <3>4, <4>1 DEF Walks, Moves, LockInv, Holds, ProjectFor, RevOf
    <3> QED BY <3>2, <3>3, <3>4
  <2> QED BY <2>2, <2>3, <2>4
<1> QED BY <1>1, <1>2 DEF LockInv, Holds, ProjectFor, RevOf

\* So does everything else: only the end of the process frees a project, and
\* nobody is at work then.
LEMMA LockInvStep ==
  ASSUME StoreAssumption, SystemAssumption, ProcessInv, LockInv, [SystemNext]_vars
  PROVE  LockInv'
<1>1. CASE UNCHANGED <<wk, lock, ws>>
  BY <1>1 DEF LockInv, Holds, ProjectFor, RevOf
<1>2. ASSUME NEW v \in Workers, WorkerActs(v) PROVE LockInv'
  BY <1>2, LockInvWorker
<1>3. CASE Stop
  <2>1. UNCHANGED <<lock, ws>>
    BY <1>3 DEF Stop
  <2> QED BY <1>3, <2>1, StopKeepsPlaces DEF LockInv, Holds, ProjectFor, RevOf,
         InProject, PublishesVerdict
<1>4. CASE Restart
  <2>1. \A w \in Workers : wk'[w] = IdleWorker
    BY <1>4 DEF Restart
  <2> QED BY <2>1 DEF IdleWorker, LockInv, InProject, Inside, PublishesVerdict
<1>5. CASE Environment
  BY <1>1, <1>3, <1>4, <1>5, OutsideSteps DEF bot
<1>6. ASSUME NEW s \in Scanners, Discovery(s) PROVE LockInv'
  BY <1>1, <1>6, DiscoverySteps
<1> QED BY <1>1, <1>2, <1>5, <1>6 DEF SystemNext, WorkerActs, vars

\* It holds at the start.
LEMMA LockInvInit == SystemInit => LockInv
BY DEF SystemInit, IdleWorker, LockInv, InProject, Inside, PublishesVerdict

\* No review meets another in a workspace: the project lock and the order of
\* the deferred clean-up and release keep the others out until it has left.
THEOREM WorkspaceStaysOwn == SystemSpec => []WorkspaceIsOwn
<1> USE StoreAssumption, SystemAssumption
<1>1. ProcessInv /\ LockInv /\ [SystemNext]_vars => LockInv'
  BY LockInvStep
<1>2. LockInv => WorkspaceIsOwn
  BY DEF LockInv, Holds, WorkspaceIsOwn
<1> QED BY <1>1, <1>2, LockInvInit, SystemInvariant, PTL DEF SystemSpec

-----------------------------------------------------------------------------
(* Rows and the workers on them.                                           *)

\* Claim takes a waiting row.
LEMMA ClaimRows ==
  ASSUME StoreInv, NEW w \in Workers, NEW r \in Revisions, Claim(w, r)
  PROVE  /\ \A q \in Revisions \ {r} : job'[q] = job[q]
         /\ Exists(r) /\ job[r].state \in Waiting
         /\ job'[r].id = job[r].id /\ job'[r].state = "running" /\ job'[r].owner = w
BY DEF StoreInv, RowOK, Row, Claim, FirstInQueue, Claimable

\* Enqueue makes active rows stale and inserts a waiting one.
LEMMA EnqueueRows ==
  ASSUME StoreInv, NEW r \in Revisions, Enqueue(r), NEW q \in Revisions
  PROVE  \/ SameJob(q)
         \/ /\ Exists(q) /\ IsActive(q) /\ q # r /\ q.mr = r.mr
            /\ job'[q].id = job[q].id /\ job'[q].state = "stale"
         \/ q = r /\ ~Exists(q) /\ job'[q].state = "queued"
<1>1. PICK from \in Resumable(r.mr) :
        job' = [p \in Revisions |->
                 IF p = r /\ ~Exists(r)
                   THEN [NewRow EXCEPT !.id = nextId, !.rule = from.rule,
                                       !.session = from.session]
                 ELSE IF p # r /\ p.mr = r.mr /\ IsActive(p)
                   THEN Superseded(job[p])
                 ELSE job[p]]
  BY DEF Enqueue
<1>2. CASE q = r /\ ~Exists(r)
  <2>1. job'[q].state = "queued"
    BY <1>1, <1>2 DEF NewRow
  <2> QED BY <1>2, <2>1
<1>3. CASE q # r /\ q.mr = r.mr /\ IsActive(q)
  <2>1. job'[q] = Superseded(job[q]) /\ job[q] \in Row
    BY <1>1, <1>3 DEF StoreInv, RowOK
  <2> QED BY <1>3, <2>1 DEF Superseded, Row, IsActive
<1> QED BY <1>1, <1>2, <1>3 DEF SameJob

\* The recovery makes interrupted rows wait.
LEMMA RecoverRows ==
  ASSUME StoreInv, RecoverInterrupted, NEW q \in Revisions
  PROVE  \/ SameJob(q) /\ ~(Exists(q) /\ job[q].state \in {"running", "publishing"})
         \/ /\ Exists(q) /\ job[q].state \in {"running", "publishing"}
            /\ job'[q].id = job[q].id /\ job'[q].state = "retry_wait"
<1>1. job[q] \in Row
  BY DEF StoreInv, RowOK
<1> QED BY <1>1 DEF RecoverInterrupted, Interrupted, Row, SameJob

\* What a worker's step does to rows and places.
LEMMA WorkerJobs ==
  ASSUME StoreAssumption, SystemAssumption, ProcessInv,
         NEW v \in Workers, WorkerActs(v)
  PROVE  /\ Keeps(v)
         /\ \A w \in Workers \ {v} : wk'[w] = wk[w]
         /\ \/ ClaimJob(v)
            \/ Ends(v) /\ Walks(v)
            \/ SameJobs /\ ~Ends(v)
                 /\ \/ wk'[v] = wk[v] \/ Walks(v)
                    \/ Leave(v) /\ wk'[v] = IdleWorker
<1>1. Keeps(v) /\ Writes(v)
  BY WorkerSteps
<1>2. \A w \in Workers \ {v} : wk'[w] = wk[w]
  <2>1. UNCHANGED wk \/ wk' = [wk EXCEPT ![v] = wk'[v]]
    BY WorkerSteps, OuterSteps DEF Walks, Moves
  <2> QED BY <2>1 DEF ProcessInv, WorkersFit
<1>3. CASE Ends(v)
  BY <1>1, <1>2, <1>3, EndingSteps
<1>4. CASE ~ClaimJob(v) /\ ~Ends(v)
  <2>1. SameJobs
    <3>1. CASE UNCHANGED storeVars
      BY <3>1 DEF storeVars, SameJobs, SameJob
    <3>2. CASE Working(v) /\ Marks(RevOf(v))
      <4>1. RevOf(v) \in Revisions
        BY <3>2 DEF Working, ProcessInv, WorkersFit, PlaceFits, RevOf
      <4> QED BY <3>2, <4>1, MarksKeep DEF ProcessInv
    <3> QED BY <1>1, <1>4, <3>1, <3>2 DEF Writes
  <2>2. Leave(v) => wk'[v] = IdleWorker
    BY DEF Leave, ProcessInv, WorkersFit
  <2> QED BY <1>1, <1>2, <1>4, <2>1, <2>2, WorkerSteps
<1> QED BY <1>1, <1>2, <1>3, <1>4

\* What everything else does to rows and places.
LEMMA OtherJobs ==
  ASSUME SystemAssumption, ProcessInv, [SystemNext]_vars,
         ~ \E w \in Workers : WorkerActs(w)
  PROVE  \/ UNCHANGED wk /\ SameJobs
         \/ UNCHANGED wk /\ \E s \in Scanners : Enqueues(s)
         \/ UNCHANGED wk /\ Administrate
         \/ Stop /\ SameJobs
         \/ Restart
<1>1. UNCHANGED storeVars => SameJobs
  BY DEF storeVars, SameJobs, SameJob
<1>2. CASE UNCHANGED vars
  BY <1>1, <1>2 DEF vars, storeVars
<1>3. ASSUME NEW s \in Scanners, Discovery(s)
      PROVE  UNCHANGED wk /\ (SameJobs \/ Enqueues(s))
  BY <1>1, <1>3, DiscoverySteps
<1>4. CASE LeaseTimePasses \/ RetryTimePasses
  BY <1>4, ChoresKeep DEF LeaseTimePasses, RetryTimePasses, bot, ProcessInv
<1>5. CASE Stop
  BY <1>1, <1>5 DEF Stop
<1>6. CASE \E m \in MRs : Push(m) \/ ToggleReview(m)
  BY <1>1, <1>6 DEF Push, ToggleReview, bot
<1>7. CASE \E p \in Projects : MoveTarget(p)
  BY <1>1, <1>7 DEF MoveTarget, bot
<1>8. Administrate => UNCHANGED wk
  BY DEF Administrate, bot
<1> QED BY <1>2, <1>3, <1>4, <1>5, <1>6, <1>7, <1>8 DEF SystemNext, WorkerActs, Environment

\* Without an administrator, a worker's job is its own until it leaves, or was
\* superseded for good.
OnOwnJob(w) ==
  Working(w) => /\ Exists(RevOf(w))
                /\ \/ job[RevOf(w)].state = "stale"
                   \/ job[RevOf(w)].state = "running" /\ job[RevOf(w)].owner = w
JobInv == Never("admin") => \A w \in Workers : OnOwnJob(w)

\* A row that keeps its state, or turns stale, is still the worker's.
LEMMA OwnJobKept ==
  ASSUME NEW w \in Workers, OnOwnJob(w), RevOf(w) \in Revisions,
         wk'[w].rev = wk[w].rev, Working(w)' => Working(w),
         \/ SameJob(RevOf(w))
         \/ /\ job'[RevOf(w)].id = job[RevOf(w)].id
            /\ job'[RevOf(w)].state = "stale"
  PROVE  OnOwnJob(w)'
BY DEF OnOwnJob, SameJob, RevOf, Exists

\* Nobody else's statement takes it away.
LEMMA JobInvWorker ==
  ASSUME StoreAssumption, SystemAssumption, ProcessInv,
         \A w \in Workers : OnOwnJob(w), NEW v \in Workers, WorkerActs(v),
         NEW w \in Workers
  PROVE  OnOwnJob(w)'
<1>1. CASE ~Working(w)'
  BY <1>1 DEF OnOwnJob
<1>2. CASE Working(w)' /\ ~Working(w)
  <2>1. w = v
    BY <1>2, WorkerJobs DEF Working
  <2>2. ClaimJob(v)
    <3>1. ~(wk'[v] = wk[v] \/ wk'[v] = IdleWorker \/ Walks(v))
      BY <1>2, <2>1 DEF Working, Walks, Moves, IdleWorker
    <3> QED BY <3>1, WorkerJobs
  <2>3. PICK r \in Revisions : Claim(v, r) /\ (UNCHANGED wk \/ wk'[v].rev = r)
    BY <2>2, ClaimTakes
  <2>4. wk'[v].rev = r
    BY <1>2, <2>1, <2>3 DEF Working
  <2> QED BY <2>1, <2>3, <2>4, ClaimRows DEF OnOwnJob, RevOf, Exists, ProcessInv
<1>3. CASE Working(w)' /\ Working(w)
  <2>1. RevOf(w) \in Revisions /\ Exists(RevOf(w))
    BY <1>3 DEF Working, ProcessInv, WorkersFit, PlaceFits, RevOf, OnOwnJob
  <2>2. CASE ClaimJob(v)
    <3>1. PICK r \in Revisions : Claim(v, r) /\ wk[v].pc = "idle"
      BY <2>2, ClaimTakes
    <3>2. w # v /\ r # RevOf(w)
      BY <1>3, <3>1, ClaimRows DEF Working, OnOwnJob, Waiting, ProcessInv
    <3>3. SameJob(RevOf(w)) /\ wk'[w] = wk[w]
      BY <2>1, <3>1, <3>2, ClaimRows, WorkerJobs DEF SameJob, ProcessInv
    <3> QED BY <1>3, <2>1, <3>3, OwnJobKept
  <2>3. CASE Ends(v)
    <3>1. w # v
      <4>1. wk'[v].pc = "leave"
        BY <2>3, EndsByStatement DEF Goto, ProcessInv, WorkersFit, WorkerRecord
      <4> QED BY <1>3, <4>1 DEF Working
    <3>2. wk'[w] = wk[w]
      BY <3>1, WorkerJobs
    <3>3. CASE RevOf(w) # RevOf(v)
      BY <1>3, <2>1, <2>3, <3>2, <3>3, EndsWrites, OwnJobKept DEF SameJob
    <3>4. CASE RevOf(w) = RevOf(v)
      <4>1. Working(v)
        BY <2>3, EndsByStatement
      <4>2. job[RevOf(w)].state = "stale"
        BY <1>3, <3>1, <3>4, <4>1 DEF OnOwnJob
      <4> QED BY <1>3, <2>1, <2>3, <3>2, <3>4, <4>2, EndsWrites, OwnJobKept
    <3> QED BY <3>3, <3>4
  <2>4. CASE SameJobs /\ wk'[w].rev = wk[w].rev
    BY <1>3, <2>1, <2>4, OwnJobKept DEF SameJobs
  <2>5. CASE SameJobs /\ wk'[w].rev # wk[w].rev
    <3>1. w = v /\ ~ClaimJob(v)
      BY <2>5, WorkerJobs, ClaimTakes, <1>3 DEF Working
    <3> QED BY <1>3, <2>3, <2>5, <3>1, WorkerJobs DEF Walks, Moves, IdleWorker, Working
  <2> QED BY <2>2, <2>3, <2>4, <2>5, WorkerJobs
<1> QED BY <1>1, <1>2, <1>3

\* Nor does anything else, while no administrator acts.
LEMMA JobInvStep ==
  ASSUME StoreAssumption, SystemAssumption, ProcessInv, JobInv, [SystemNext]_vars
  PROVE  JobInv'
<1> SUFFICES ASSUME Never("admin")', NEW w \in Workers PROVE OnOwnJob(w)'
  BY DEF JobInv
<1>1. Never("admin") /\ ~Spend("admin")
  BY ProcessInvStep, SpendingCounts DEF ProcessInv, BudgetKinds
<1>2. \A u \in Workers : OnOwnJob(u)
  BY <1>1 DEF JobInv
<1>3. Working(w) => RevOf(w) \in Revisions
  BY DEF Working, ProcessInv, WorkersFit, PlaceFits, RevOf
<1>4. CASE UNCHANGED wk /\ SameJobs
  BY <1>2, <1>3, <1>4, OwnJobKept DEF SameJobs, Working, OnOwnJob
<1>5. ASSUME NEW r \in Revisions, Enqueue(r), UNCHANGED wk
      PROVE  OnOwnJob(w)'
  <2>1. CASE Working(w)
    <3>1. Exists(RevOf(w)) /\ RevOf(w) \in Revisions
      BY <1>2, <1>3, <2>1 DEF OnOwnJob
    <3>2. \/ SameJob(RevOf(w))
          \/ job'[RevOf(w)].id = job[RevOf(w)].id /\ job'[RevOf(w)].state = "stale"
      BY <1>5, <3>1, EnqueueRows DEF ProcessInv
    <3> QED BY <1>2, <1>5, <2>1, <3>1, <3>2, OwnJobKept
  <2>2. CASE ~Working(w)
    BY <1>5, <2>2 DEF OnOwnJob, Working
  <2> QED BY <2>1, <2>2
<1>6. CASE Administrate
  BY <1>1, <1>6 DEF Administrate
<1>7. CASE Stop /\ SameJobs
  <2>1. wk'[w].pc = wk[w].pc /\ wk'[w].rev = wk[w].rev
    BY <1>7, StopKeepsPlaces
  <2> QED BY <1>2, <1>3, <1>7, <2>1, OwnJobKept DEF SameJobs, Working, OnOwnJob
<1>8. CASE Restart
  BY <1>8 DEF Restart, IdleWorker, OnOwnJob, Working
<1>9. ASSUME NEW v \in Workers, WorkerActs(v) PROVE OnOwnJob(w)'
  BY <1>2, <1>9, JobInvWorker
<1> QED BY <1>4, <1>5, <1>6, <1>7, <1>8, <1>9, OtherJobs DEF Enqueues

\* It holds at the start: nobody is working.
LEMMA JobInvInit == SystemInit => JobInv
BY DEF SystemInit, IdleWorker, JobInv, OnOwnJob, Working

\* A worker is on the job it was on, or has just claimed a waiting one.
LEMMA JobsTaken ==
  ASSUME StoreAssumption, SystemAssumption, ProcessInv, [SystemNext]_vars,
         NEW w \in Workers, Working(w)'
  PROVE  \/ Working(w) /\ wk'[w].rev = wk[w].rev
         \/ /\ ~Working(w) /\ ClaimJob(w)
            /\ \E r \in Revisions : Claim(w, r) /\ wk'[w].rev = r
<1>1. CASE UNCHANGED wk
  BY <1>1 DEF Working
<1>2. CASE Stop
  BY <1>2, StopKeepsPlaces DEF Working
<1>3. CASE Restart
  BY <1>3 DEF Restart, IdleWorker, Working
<1>4. ASSUME NEW v \in Workers, WorkerActs(v)
      PROVE  \/ Working(w) /\ wk'[w].rev = wk[w].rev
             \/ /\ ~Working(w) /\ ClaimJob(w)
                /\ \E r \in Revisions : Claim(w, r) /\ wk'[w].rev = r
  <2>1. CASE wk'[w] = wk[w]
    BY <2>1 DEF Working
  <2>2. CASE w = v /\ ClaimJob(v)
    <3>1. PICK r \in Revisions : Claim(v, r) /\ (UNCHANGED wk \/ wk'[v].rev = r)
      BY <2>2, ClaimTakes
    <3>2. wk[v].pc = "idle"
      BY <2>2, ClaimTakes
    <3> QED BY <2>2, <3>1, <3>2 DEF Working
  <2>3. CASE w = v /\ Walks(v)
    BY <2>3 DEF Walks, Moves, Working
  <2>4. CASE wk'[w] = IdleWorker
    BY <2>4 DEF IdleWorker, Working
  <2> QED BY <1>4, <2>1, <2>2, <2>3, <2>4, WorkerJobs
<1> QED BY <1>1, <1>2, <1>3, <1>4, OtherJobs

\* Who is on a job has its row stale or running, and only a waiting row is
\* claimed: no second worker joins.
LEMMA DistinctStep ==
  ASSUME StoreAssumption, SystemAssumption, ProcessInv, JobInv,
         WorkersOnDistinctJobs, [SystemNext]_vars
  PROVE  WorkersOnDistinctJobs'
<1> SUFFICES ASSUME Never("admin")', NEW u \in Workers, NEW w \in Workers,
                    u # w, Working(u)', Working(w)'
             PROVE  wk'[u].rev # wk'[w].rev
  BY DEF WorkersOnDistinctJobs, RevOf
<1>1. Never("admin")
  BY ProcessInvStep, SpendingCounts DEF ProcessInv, BudgetKinds
<1>2. ASSUME NEW v \in Workers, NEW x \in Workers, NEW r \in Revisions,
             Claim(v, r), Working(x)
      PROVE  wk[x].rev # r
  BY <1>1, <1>2, ClaimRows DEF JobInv, OnOwnJob, RevOf, Waiting, ProcessInv
<1>3. CASE Working(u) /\ Working(w)
  BY <1>1, <1>3, JobsTaken DEF WorkersOnDistinctJobs, RevOf
<1>4. ASSUME NEW v \in Workers, NEW x \in Workers, v # x, ~Working(v),
             Working(v)', Working(x)'
      PROVE  wk'[v].rev # wk'[x].rev
  <2>1. PICK r \in Revisions : ClaimJob(v) /\ Claim(v, r) /\ wk'[v].rev = r
    BY <1>4, JobsTaken
  <2>2. WorkerActs(v)
    BY <2>1 DEF WorkerActs, WorkerStep
  <2>3. wk'[x] = wk[x]
    BY <1>4, <2>2, WorkerJobs
  <2>4. Working(x)
    BY <1>4, <2>3 DEF Working
  <2> QED BY <1>2, <2>1, <2>3, <2>4
<1> QED BY <1>3, <1>4

\* Two reviews never share a workspace, and unless an administrator brought a
\* job back never a job, for any number of workers and projects.
THEOREM ReviewersStayApart == SystemSpec => []ReviewersApart
<1> USE StoreAssumption, SystemAssumption
<1>1. SystemInit => WorkersOnDistinctJobs
  BY DEF SystemInit, IdleWorker, WorkersOnDistinctJobs, Working
<1>2. ProcessInv /\ JobInv /\ [SystemNext]_vars => JobInv'
  BY JobInvStep
<1>3. ProcessInv /\ JobInv /\ WorkersOnDistinctJobs /\ [SystemNext]_vars
        => WorkersOnDistinctJobs'
  BY DistinctStep
<1>4. SystemSpec => []WorkersOnDistinctJobs
  BY <1>1, <1>2, <1>3, JobInvInit, SystemInvariant, PTL DEF SystemSpec
<1> QED BY <1>4, SystemStaysTyped, WorkspaceStaysOwn, PTL DEF ReviewersApart

-----------------------------------------------------------------------------
(* One active job, and nobody's running row.                               *)

\* No statement but Enqueue and the administrator's makes a row active that
\* was not.
LEMMA NoneBroughtBack ==
  ASSUME StoreAssumption, SystemAssumption, ProcessInv,
         \A w \in Workers : OnOwnJob(w), [SystemNext]_vars, ~Spend("admin"),
         ~ \E r \in Revisions : Enqueue(r), NEW q \in Revisions,
         Exists(q), job[q].state \notin Active
  PROVE  job'[q].state \notin Active
<1>1. SameJobs => job'[q].state \notin Active
  BY DEF SameJobs, SameJob
<1>2. Restart => job'[q].state \notin Active
  BY RecoverRows DEF Restart, ProcessInv, SameJob, Active
<1>3. ASSUME NEW v \in Workers, WorkerActs(v) PROVE job'[q].state \notin Active
  <2>1. CASE ClaimJob(v)
    <3>1. PICK r \in Revisions : Claim(v, r)
      BY <2>1, ClaimTakes
    <3> QED BY <3>1, ClaimRows DEF ProcessInv, Active
  <2>2. CASE Ends(v)
    <3>1. CASE q # RevOf(v)
      BY <2>2, <3>1, EndsWrites
    <3>2. CASE q = RevOf(v)
      <4>1. job[q].state = "stale"
        BY <2>2, <3>2, EndsByStatement DEF OnOwnJob, Active
      <4> QED BY <2>2, <3>2, <4>1, EndsWrites DEF Active, Waiting
    <3> QED BY <3>1, <3>2
  <2> QED BY <1>1, <1>3, <2>1, <2>2, WorkerJobs
<1>4. ~Administrate
  BY DEF Administrate
<1> QED BY <1>1, <1>2, <1>3, <1>4, OtherJobs DEF Enqueues

\* So a merge request keeps its one active row.
LEMMA OneActiveStep ==
  ASSUME StoreAssumption, SystemAssumption, ProcessInv, JobInv, OneActiveJob,
         [SystemNext]_vars
  PROVE  OneActiveJob'
<1> SUFFICES ASSUME Never("admin")', NEW m \in MRs
             PROVE  \A r, q \in ActiveOf(m)' : r = q
  BY DEF OneActiveJob
<1>1. Never("admin") /\ ~Spend("admin")
  BY ProcessInvStep, SpendingCounts DEF ProcessInv, BudgetKinds
<1>2. OnlyActiveOnce(m) /\ \A w \in Workers : OnOwnJob(w)
  BY <1>1 DEF OneActiveJob, OnlyActiveOnce, JobInv
<1>3. CASE \E r \in Revisions : Enqueue(r)
  BY <1>2, <1>3, EnqueueLeavesOne DEF ProcessInv
<1>4. CASE ~ \E r \in Revisions : Enqueue(r)
  <2>1. IdsKept
    BY <1>4, SystemStatements, OtherStepsKeep DEF ProcessInv
  <2>2. ~Reactivated(m)
    <3>1. \A r \in Revisions : Exists(r) /\ job[r].state \in Terminal
            => ~(job'[r].state \in Active)
      BY <1>1, <1>2, <1>4, NoneBroughtBack
         DEF Terminal, Retryable, Active, Waiting
    <3> QED BY <3>1 DEF Reactivated, ActiveOf, IsActive
  <2> QED BY <1>2, <2>1, <2>2, OthersOnlyReactivate DEF ProcessInv
<1> QED BY <1>3, <1>4

\* Discovery, retries, stops, crashes and late workers never make two
\* revisions of a merge request compete; only an administrator can.
THEOREM OneActiveJobOnly == SystemSpec => []OneActiveJob
<1> USE StoreAssumption, SystemAssumption
<1>1. SystemInit => OneActiveJob
  BY DEF SystemInit, StoreInit, NewRow, OneActiveJob, ActiveOf, IsActive, Exists
<1>2. ProcessInv /\ JobInv /\ [SystemNext]_vars => JobInv'
  BY JobInvStep
<1>3. ProcessInv /\ JobInv /\ OneActiveJob /\ [SystemNext]_vars => OneActiveJob'
  BY OneActiveStep
<1> QED BY <1>1, <1>2, <1>3, JobInvInit, SystemInvariant, PTL DEF SystemSpec

\* No administrator's statement makes a row running.
LEMMA AdminRows ==
  ASSUME StoreInv, Administrate, NEW q \in Revisions, job'[q].state = "running"
  PROVE  SameJob(q)
<1>1. job[q] \in Row /\ job = [r \in Revisions |-> job[r]]
  BY DEF StoreInv, RowOK
<1>2. PICK r \in Revisions :
        CancelReview(r) \/ RetryReview(r) \/ \E prio \in Priorities : SetPriority(r, prio)
  BY DEF Administrate
<1>3. CASE \E prio \in Priorities : SetPriority(r, prio)
  BY <1>3, ChoresKeep DEF SameJobs
<1>4. CASE CancelReview(r) \/ RetryReview(r)
  <2>1. q # r
    BY <1>1, <1>4 DEF CancelReview, RetryReview, Row
  <2> QED BY <1>1, <1>4, <2>1 DEF CancelReview, RetryReview, SameJob
<1> QED BY <1>2, <1>3, <1>4

\* The owner of a running row is on it, and was not told to stop.
WorkedOn(r) ==
  \E w \in Workers : /\ w = job[r].owner /\ RevOf(w) = r
                     /\ Working(w) /\ wk[w].ctx # "superseded"
OwnerInv ==
  Never("store") => \A r \in Revisions : job[r].state = "running" => WorkedOn(r)

\* It goes on until it writes an outcome, which ends the row's running, or
\* finds it ended already.
LEMMA OwnerInvStep ==
  ASSUME StoreAssumption, SystemAssumption, ProcessInv, OwnerInv, [SystemNext]_vars
  PROVE  OwnerInv'
<1> SUFFICES ASSUME Never("store")', NEW r \in Revisions, job'[r].state = "running"
             PROVE  WorkedOn(r)'
  BY DEF OwnerInv
<1>1. Never("store") /\ ~Spend("store")
  BY ProcessInvStep, SpendingCounts DEF ProcessInv, BudgetKinds
<1>2. ASSUME SameJob(r)
      PROVE  /\ job[r].owner \in Workers /\ RevOf(job[r].owner) = r
             /\ Working(job[r].owner) /\ wk[job[r].owner].ctx # "superseded"
             /\ IsActive(r)
  <2>1. job[r].state = "running" /\ WorkedOn(r)
    BY <1>1, <1>2 DEF OwnerInv, SameJob
  <2>2. job[r].owner \in Workers /\ job[r].owner # NoOwner
    BY <2>1 DEF WorkedOn, StoreAssumption
  <2>3. IsActive(r)
    BY <2>1, <2>2 DEF ProcessInv, StoreInv, RowOK, LeaseFits, IsActive, Exists, Active
  <2> QED BY <2>1, <2>2, <2>3 DEF WorkedOn
<1>3. ASSUME SameJob(r), LET w == job[r].owner IN
               /\ wk'[w].rev = wk[w].rev /\ wk'[w].pc \notin {"idle", "leave"}
               /\ wk'[w].ctx # "superseded"
      PROVE  WorkedOn(r)'
  BY <1>2, <1>3 DEF WorkedOn, SameJob, RevOf, Working
<1>4. ASSUME NEW v \in Workers, WorkerActs(v) PROVE WorkedOn(r)'
  <2>1. CASE ClaimJob(v)
    <3>1. PICK q \in Revisions :
            /\ Claim(v, q) /\ wk[v].pc = "idle"
            /\ wk'[v].pc = "ensure" /\ wk'[v].rev = q /\ wk'[v].ctx = "live"
      BY <1>1, <2>1, ClaimTakes
    <3>2. CASE q = r
      BY <3>1, <3>2, ClaimRows DEF WorkedOn, RevOf, Working, ProcessInv
    <3>3. CASE q # r
      <4>1. SameJob(r)
        BY <3>1, <3>3, ClaimRows DEF SameJob, ProcessInv
      <4>2. job[r].owner # v
        BY <1>2, <3>1, <4>1 DEF Working
      <4>3. wk'[job[r].owner] = wk[job[r].owner]
        BY <1>2, <1>4, <4>1, <4>2, WorkerJobs
      <4> QED BY <1>2, <1>3, <4>1, <4>3 DEF Working
    <3> QED BY <3>2, <3>3
  <2>2. CASE Ends(v)
    <3>1. r # RevOf(v)
      BY <1>1, <2>2, EndsWrites
    <3>2. SameJob(r)
      BY <2>2, <3>1, EndsWrites DEF SameJob
    <3>3. wk'[job[r].owner] = wk[job[r].owner]
      BY <1>2, <1>4, <3>1, <3>2, WorkerJobs
    <3> QED BY <1>2, <1>3, <3>2, <3>3 DEF Working
  <2>3. CASE SameJobs /\ ~Ends(v)
    <3> DEFINE w == job[r].owner
    <3>1. SameJob(r)
      BY <2>3 DEF SameJobs
    <3>2. CASE wk'[w] = wk[w]
      BY <1>2, <1>3, <3>1, <3>2 DEF Working
    <3>3. CASE w = v /\ Walks(v)
      <4>1. ~SupersededOrDone(v)
        BY <1>2, <3>1, <3>3 DEF SupersededOrDone
      <4>2. wk'[v].pc \notin {"idle", "leave"}
        BY <1>2, <2>3, <3>1, <3>3, <4>1 DEF Walks, Moves, Working
      <4>3. wk'[v].ctx # "superseded" /\ wk'[v].rev = wk[v].rev
        BY <1>2, <3>1, <3>3 DEF Walks, Moves
      <4> QED BY <1>3, <3>1, <3>3, <4>2, <4>3
    <3>4. ~(w = v /\ Leave(v))
      BY <1>2, <3>1 DEF Leave, At, Working
    <3> QED BY <1>2, <1>4, <2>1, <2>3, <3>1, <3>2, <3>3, <3>4, WorkerJobs
  <2> QED BY <1>4, <2>1, <2>2, <2>3, WorkerJobs
<1>5. CASE UNCHANGED wk /\ SameJobs
  BY <1>2, <1>3, <1>5 DEF SameJobs, Working
<1>6. ASSUME UNCHANGED wk, NEW q \in Revisions, Enqueue(q) PROVE WorkedOn(r)'
  <2>1. SameJob(r)
    BY <1>6, EnqueueRows DEF ProcessInv
  <2> QED BY <1>2, <1>3, <1>6, <2>1 DEF Working
<1>7. CASE UNCHANGED wk /\ Administrate
  <2>1. SameJob(r)
    BY <1>7, AdminRows DEF ProcessInv
  <2> QED BY <1>2, <1>3, <1>7, <2>1 DEF Working
<1>8. CASE Stop /\ SameJobs
  <2>1. SameJob(r)
    BY <1>8 DEF SameJobs
  <2> QED BY <1>2, <1>3, <1>8, <2>1, StopKeepsPlaces DEF Working
<1>9. CASE Restart
  <2>1. SameJob(r) /\ ~(Exists(r) /\ job[r].state \in {"running", "publishing"})
    BY <1>9, RecoverRows DEF Restart, ProcessInv
  <2>2. job[r].state = "running" /\ Exists(r)
    BY <1>2, <2>1 DEF SameJob, IsActive
  <2> QED BY <2>1, <2>2
<1> QED BY <1>4, <1>5, <1>6, <1>7, <1>8, <1>9, OtherJobs DEF Enqueues

\* Unless a statement failed, no job is ever left marked running with nobody on
\* it, through late writes, retries, stops and crashes.
THEOREM RunningStaysWorkedOn == SystemSpec => []RunningIsWorkedOn
<1> USE StoreAssumption, SystemAssumption
<1>1. SystemInit => OwnerInv
  BY DEF SystemInit, StoreInit, NewRow, OwnerInv
<1>2. ProcessInv /\ OwnerInv /\ [SystemNext]_vars => OwnerInv'
  BY OwnerInvStep
<1>3. OwnerInv => RunningIsWorkedOn
  BY DEF OwnerInv, WorkedOn, RunningIsWorkedOn
<1> QED BY <1>1, <1>2, <1>3, SystemInvariant, PTL DEF SystemSpec

-----------------------------------------------------------------------------
(* Verdicts.                                                               *)

\* No verdict on a merge request is of a newer head than n's.
NoNewerVerdict(m, head) ==
  \A n \in notes[m] : ReviewVerdict(n.verdict) => n.rev.head <= head

\* While branches only move forward, a worker that is about to publish a
\* verdict has a head that GitLab has reached, and no verdict there is newer.
NotesInv ==
  \A m \in MRs : \A n \in notes[m] :
    ReviewVerdict(n.verdict) => n.rev.mr = m /\ n.rev.head <= gl.head[m]
RecheckInv ==
  \A w \in Workers : Rechecked(wk[w]) =>
    /\ RevOf(w).head <= gl.head[RevOf(w).mr]
    /\ NoNewerVerdict(RevOf(w).mr, RevOf(w).head)
NoteInv == ~CanReturn => NotesInv /\ RecheckInv

MovesOn == /\ \A m \in MRs : gl'.head[m] >= gl.head[m] /\ (gl'.open[m] => gl.open[m])
           /\ \A p \in Projects : gl'.target[p] >= gl.target[p]

\* Branches that only move forward do so, and a closed merge request stays
\* closed; notes are the workers'.
LEMMA GitLabMovesOn ==
  ASSUME StoreAssumption, SystemAssumption, ProcessInv, [SystemNext]_vars, ~CanReturn
  PROVE  MovesOn /\ (UNCHANGED notes \/ \E w \in Workers : WorkerActs(w))
<1>1. gl \in [head : [MRs -> Heads], open : [MRs -> BOOLEAN],
              target : [Projects -> Targets]]
      /\ Heads \subseteq Nat /\ Targets \subseteq Nat
  BY DEF ProcessInv, GitLabTyped, SystemAssumption
<1>2. /\ \A m \in MRs : gl.head[m] >= gl.head[m]
      /\ \A p \in Projects : gl.target[p] >= gl.target[p]
  <2>1. /\ \A m \in MRs : gl.head[m] \in Nat
        /\ \A p \in Projects : gl.target[p] \in Nat
    BY <1>1
  <2> QED BY <2>1
<1>3. UNCHANGED gl => MovesOn
  BY <1>2 DEF MovesOn
<1>4. ASSUME NEW m \in MRs, Push(m) PROVE MovesOn
  <2>1. PICK h \in Heads : h > gl.head[m] /\ gl' = [gl EXCEPT !.head = [gl.head EXCEPT ![m] = h]]
    BY <1>4 DEF Push
  <2>2. gl'.head = [gl.head EXCEPT ![m] = h] /\ gl'.open = gl.open /\ gl'.target = gl.target
    BY <1>1, <2>1
  <2>3. \A x \in MRs : gl'.head[x] = IF x = m THEN h ELSE gl.head[x]
    BY <1>1, <2>2
  <2>4. h >= gl.head[m]
    BY <1>1, <2>1
  <2> QED BY <1>2, <2>2, <2>3, <2>4 DEF MovesOn
<1>5. ASSUME NEW m \in MRs, ToggleReview(m) PROVE MovesOn
  <2>1. gl.open[m] /\ gl' = [gl EXCEPT !.open = [gl.open EXCEPT ![m] = ~@]]
    BY <1>5 DEF ToggleReview
  <2>2. gl'.open = [gl.open EXCEPT ![m] = ~@] /\ gl'.head = gl.head /\ gl'.target = gl.target
    BY <1>1, <2>1
  <2>3. \A x \in MRs : gl'.open[x] = IF x = m THEN ~gl.open[m] ELSE gl.open[x]
    BY <1>1, <2>2
  <2>4. \A x \in MRs : gl'.open[x] => gl.open[x]
    BY <2>1, <2>3
  <2> QED BY <1>2, <2>2, <2>4 DEF MovesOn
<1>6. ASSUME NEW p \in Projects, MoveTarget(p) PROVE MovesOn
  <2>1. PICK t \in Targets : t > gl.target[p] /\ gl' = [gl EXCEPT !.target = [gl.target EXCEPT ![p] = t]]
    BY <1>6 DEF MoveTarget
  <2>2. gl'.target = [gl.target EXCEPT ![p] = t] /\ gl'.open = gl.open /\ gl'.head = gl.head
    BY <1>1, <2>1
  <2>3. \A x \in Projects : gl'.target[x] = IF x = p THEN t ELSE gl.target[x]
    BY <1>1, <2>2
  <2>4. t >= gl.target[p]
    BY <1>1, <2>1
  <2> QED BY <1>2, <2>2, <2>3, <2>4 DEF MovesOn
<1>7. ASSUME NEW s \in Scanners, Discovery(s) PROVE UNCHANGED <<gl, notes>>
  BY <1>7, DiscoverySteps
<1>8. ASSUME NEW w \in Workers, WorkerActs(w) PROVE UNCHANGED gl
  BY <1>8, WorkerSteps DEF Keeps
<1>9. CASE Environment
  <2>1. CASE Administrate \/ LeaseTimePasses \/ RetryTimePasses \/ Stop \/ Restart
    BY <1>3, <2>1 DEF Administrate, LeaseTimePasses, RetryTimePasses, Stop, Restart
  <2> QED BY <1>4, <1>5, <1>6, <1>9, <2>1 DEF Environment, Push, ToggleReview, MoveTarget
<1> QED BY <1>3, <1>7, <1>8, <1>9 DEF SystemNext, WorkerActs, vars

\* Where a worker changes the notes of a merge request, it deletes some of
\* them, or adds its own; a verdict only if it was rechecked.
LEMMA NotesWritten ==
  ASSUME ProcessInv, NEW v \in Workers, WorkerActs(v), Keeps(v)
  PROVE  \/ \A m \in MRs : notes'[m] \subseteq notes[m]
         \/ /\ PublishesVerdict(wk[v]) \/ ~ReviewVerdict(wk[v].result)
            /\ wk[v].pc = "create_note" /\ wk'[v].pc \in {"finish", "infra"}
            /\ \A m \in MRs : notes'[m] \subseteq
                 IF m = RevOf(v).mr THEN notes[m] \union {Note(v)} ELSE notes[m]
<1>1. notes \in [MRs -> SUBSET [rev : Revisions, verdict : Outcomes]]
      /\ wk \in [Workers -> WorkerRecord]
  BY DEF ProcessInv, RestTyped, WorkersFit
<1>2. CASE DeleteNotes(v)
  <2>1. \E kept \in SUBSET notes[RevOf(v).mr] :
           notes' = [notes EXCEPT ![RevOf(v).mr] = kept]
    BY <1>2 DEF DeleteNotes
  <2> QED BY <1>1, <2>1
<1>3. CASE CreateNote(v)
  <2>1. wk[v].pc = "create_note" /\ (Goto(v, "finish") \/ Goto(v, "infra"))
    BY <1>3 DEF CreateNote, At
  <2>2. notes' = notes \/ notes' = [notes EXCEPT ![RevOf(v).mr] = @ \union {Note(v)}]
    BY <1>3 DEF CreateNote
  <2>3. wk'[v].pc \in {"finish", "infra"}
    BY <1>1, <2>1 DEF Goto, WorkerRecord
  <2>4. \A m \in MRs : notes'[m] \subseteq
          IF m = RevOf(v).mr THEN notes[m] \union {Note(v)} ELSE notes[m]
    BY <1>1, <2>2
  <2> QED BY <2>1, <2>3, <2>4 DEF PublishesVerdict
<1> QED BY <1>2, <1>3 DEF Keeps

\* What a worker does keeps the order: who publishes a verdict holds the
\* project, so nobody else has been rechecked on the merge request.
LEMMA NoteInvWorker ==
  ASSUME StoreAssumption, SystemAssumption, ProcessInv, LockInv, NotesInv,
         RecheckInv, NEW v \in Workers, WorkerActs(v)
  PROVE  NotesInv' /\ RecheckInv'
<1>1. /\ notes \in [MRs -> SUBSET [rev : Revisions, verdict : Outcomes]]
      /\ gl.head \in [MRs -> Nat] /\ UNCHANGED gl
  BY WorkerSteps DEF ProcessInv, RestTyped, GitLabTyped, SystemAssumption, Keeps
<1>2. Rechecked(wk[v]) =>
        /\ RevOf(v) \in Revisions /\ RevOf(v).head <= gl.head[RevOf(v).mr]
        /\ NoNewerVerdict(RevOf(v).mr, RevOf(v).head)
  BY DEF RecheckInv, Rechecked, PublishesVerdict, ProcessInv, WorkersFit, PlaceFits, RevOf
<1>3. Note(v).verdict = wk[v].result /\ Note(v).rev = RevOf(v)
  BY DEF Note
<1>4. PublishesVerdict(wk[v]) => Rechecked(wk[v])
  BY DEF Rechecked
<1>5. NotesInv'
  <2>1. ASSUME NEW m \in MRs, NEW n \in notes'[m], ReviewVerdict(n.verdict)
        PROVE  n.rev.mr = m /\ n.rev.head <= gl.head[m]
    <3>1. CASE n \in notes[m]
      BY <2>1, <3>1 DEF NotesInv
    <3>2. CASE n \notin notes[m]
      BY <1>2, <1>3, <1>4, <2>1, <3>2, NotesWritten, WorkerSteps
    <3> QED BY <3>1, <3>2
  <2> QED BY <1>1, <2>1 DEF NotesInv
<1>6. ASSUME NEW w \in Workers, Rechecked(wk'[w])
      PROVE  /\ wk'[w].rev \in Revisions
             /\ wk'[w].rev.head <= gl.head[wk'[w].rev.mr]
             /\ \A n \in notes'[wk'[w].rev.mr] :
                  ReviewVerdict(n.verdict) => n.rev.head <= wk'[w].rev.head
  <2>1. CASE w # v
    <3>1. wk'[w] = wk[w]
      BY <2>1, WorkerJobs
    <3>2. /\ RevOf(w) \in Revisions /\ RevOf(w).head <= gl.head[RevOf(w).mr]
          /\ NoNewerVerdict(RevOf(w).mr, RevOf(w).head)
      BY <1>6, <3>1 DEF RecheckInv, Rechecked, PublishesVerdict, ProcessInv,
         WorkersFit, PlaceFits, RevOf
    <3>3. InProject(wk[w])
      BY <1>6, <3>1 DEF Rechecked, InProject, Inside
    <3>4. PublishesVerdict(wk[v]) => RevOf(v).mr # RevOf(w).mr
      BY <2>1, <3>3 DEF LockInv, InProject, Holds, ProjectFor
    <3>5. ASSUME NEW n \in notes'[RevOf(w).mr], ReviewVerdict(n.verdict)
          PROVE  n \in notes[RevOf(w).mr]
      <4>1. RevOf(w).mr \in MRs
        BY <3>2 DEF Revisions
      <4> QED BY <1>3, <3>4, <3>5, <4>1, NotesWritten, WorkerSteps
    <3> QED BY <3>1, <3>2, <3>5 DEF NoNewerVerdict, RevOf
  <2>2. CASE w = v
    <3>1. wk'[v].pc \in {"recheck_target", "stage_publish", "delete_notes", "create_note"}
      BY <1>6, <2>2 DEF Rechecked, PublishesVerdict
    <3>2. CASE Walks(v)
      <4>1. wk'[v].rev = wk[v].rev /\ RevOf(v) \in Revisions
        BY <3>2 DEF Walks, Moves, ProcessInv, WorkersFit, PlaceFits, RevOf
      <4>2. \A n \in notes'[RevOf(v).mr] : n \in notes[RevOf(v).mr]
        <5>1. RevOf(v).mr \in MRs
          BY <4>1 DEF Revisions
        <5> QED BY <3>1, <5>1, NotesWritten, WorkerSteps
      <4>3. CASE Rechecked(wk[v])
        BY <1>2, <2>2, <4>1, <4>2, <4>3 DEF NoNewerVerdict, RevOf
      <4>4. CASE HeadCurrent(RevOf(v))
        <5>1. gl.head[RevOf(v).mr] = RevOf(v).head /\ RevOf(v).mr \in MRs
          BY <4>1, <4>4 DEF HeadCurrent, Revisions
        <5>2. \A n \in notes[RevOf(v).mr] :
                ReviewVerdict(n.verdict) => n.rev.head <= RevOf(v).head
          BY <5>1 DEF NotesInv
        <5>3. gl.head[RevOf(v).mr] <= gl.head[RevOf(v).mr]
          BY <1>1, <5>1
        <5> QED BY <2>2, <4>1, <4>2, <5>1, <5>2, <5>3 DEF RevOf
      <4> QED BY <1>6, <2>2, <3>2, <4>3, <4>4 DEF Walks
    <3>3. CASE wk'[v] = wk[v]
      <4>1. RevOf(v).mr \in MRs /\ Rechecked(wk[v])
        BY <1>2, <1>6, <2>2, <3>3 DEF Revisions
      <4>2. \A n \in notes'[RevOf(v).mr] : n \in notes[RevOf(v).mr]
        BY <3>1, <4>1, NotesWritten, WorkerSteps
      <4> QED BY <1>2, <2>2, <3>3, <4>1, <4>2 DEF NoNewerVerdict, RevOf
    <3>4. ~ClaimJob(v) \/ wk'[v] = wk[v]
      BY <3>1, ClaimTakes
    <3>5. wk'[v] # IdleWorker
      BY <3>1 DEF IdleWorker
    <3> QED BY <3>2, <3>3, <3>4, <3>5, WorkerJobs
  <2> QED BY <2>1, <2>2
<1> QED BY <1>1, <1>5, <1>6 DEF RecheckInv, NoNewerVerdict, RevOf

\* Nor does anything else disturb it: branches only move on.
LEMMA NoteInvStep ==
  ASSUME StoreAssumption, SystemAssumption, ProcessInv, LockInv, NoteInv,
         [SystemNext]_vars
  PROVE  NoteInv'
<1> SUFFICES ASSUME ~CanReturn PROVE NotesInv' /\ RecheckInv'
  BY DEF NoteInv
<1>1. NotesInv /\ RecheckInv
  BY DEF NoteInv
<1>2. ASSUME NEW v \in Workers, WorkerActs(v) PROVE NotesInv' /\ RecheckInv'
  BY <1>1, <1>2, NoteInvWorker
<1>3. CASE ~ \E w \in Workers : WorkerActs(w)
  <2>1. MovesOn /\ UNCHANGED notes
    BY <1>3, GitLabMovesOn
  <2>2. /\ \A m \in MRs : gl.head[m] \in Nat /\ gl'.head[m] \in Nat
        /\ \A m \in MRs : \A n \in notes[m] : n.rev.head \in Nat
    <3>1. GitLabTyped /\ GitLabTyped' /\ RestTyped
      BY ProcessInvStep DEF ProcessInv
    <3>2. \A m \in MRs : gl.head[m] \in Nat /\ gl'.head[m] \in Nat
      BY <3>1 DEF GitLabTyped, SystemAssumption
    <3>3. \A m \in MRs : \A n \in notes[m] : n.rev \in Revisions
      BY <3>1 DEF RestTyped
    <3> QED BY <3>2, <3>3 DEF Revisions, SystemAssumption
  <2>3. NotesInv'
    BY <1>1, <2>1, <2>2 DEF NotesInv, MovesOn
  <2>4. ASSUME NEW w \in Workers, Rechecked(wk'[w])
        PROVE  /\ wk'[w].rev.head <= gl'.head[wk'[w].rev.mr]
               /\ \A n \in notes[wk'[w].rev.mr] :
                    ReviewVerdict(n.verdict) => n.rev.head <= wk'[w].rev.head
    <3>1. Rechecked(wk[w]) /\ wk'[w].rev = wk[w].rev
      <4>1. CASE UNCHANGED wk
        BY <2>4, <4>1
      <4>2. CASE Stop
        BY <2>4, <4>2, StopKeepsPlaces DEF Rechecked, PublishesVerdict
      <4>3. CASE Restart
        BY <2>4, <4>3 DEF Restart, IdleWorker, Rechecked, PublishesVerdict
      <4> QED BY <1>3, <4>1, <4>2, <4>3, OtherJobs
    <3>2. wk[w].rev \in Revisions
      BY <3>1 DEF Rechecked, PublishesVerdict, ProcessInv, WorkersFit, PlaceFits
    <3>3. wk[w].rev.mr \in MRs /\ wk[w].rev.head \in Nat
      BY <3>2 DEF Revisions, SystemAssumption
    <3>4. wk[w].rev.head <= gl.head[wk[w].rev.mr]
          /\ NoNewerVerdict(wk[w].rev.mr, wk[w].rev.head)
      BY <1>1, <3>1 DEF RecheckInv, RevOf
    <3> QED BY <2>1, <2>2, <3>1, <3>3, <3>4 DEF MovesOn, NoNewerVerdict
  <2> QED BY <2>1, <2>3, <2>4 DEF RecheckInv, NoNewerVerdict, RevOf
<1> QED BY <1>2, <1>3

\* While branches only move forward, no worker replaces the verdict on a newer
\* head with that of its own.
THEOREM VerdictsOnlyForward == SystemSpec => []VerdictsMoveForward
<1> USE StoreAssumption, SystemAssumption
<1>1. SystemInit => NoteInv
  BY DEF SystemInit, IdleWorker, NoteInv, NotesInv, RecheckInv, Rechecked, PublishesVerdict
<1>2. ProcessInv /\ LockInv /\ [SystemNext]_vars => LockInv'
  BY LockInvStep
<1>3. ProcessInv /\ LockInv /\ NoteInv /\ [SystemNext]_vars => NoteInv'
  BY NoteInvStep
<1>4. ProcessInv /\ NoteInv => VerdictsMoveForward
  <2> SUFFICES ASSUME ProcessInv, NoteInv, ~CanReturn, NEW w \in Workers,
                      PublishesVerdict(wk[w]), NEW n \in notes[RevOf(w).mr],
                      ReviewVerdict(n.verdict), Older(RevOf(w), n.rev)
               PROVE  FALSE
    BY DEF VerdictsMoveForward, PublishesVerdict
  <2>1. Rechecked(wk[w]) /\ RevOf(w) \in Revisions
    BY DEF Rechecked, PublishesVerdict, ProcessInv, WorkersFit, PlaceFits, RevOf
  <2>2. n.rev \in Revisions
    BY <2>1 DEF ProcessInv, RestTyped, Revisions
  <2>3. RevOf(w).head \in Nat /\ n.rev.head \in Nat
    BY <2>1, <2>2 DEF Revisions, SystemAssumption
  <2>4. n.rev.head <= RevOf(w).head
    BY <2>1 DEF NoteInv, RecheckInv, NoNewerVerdict
  <2> QED BY <2>3, <2>4 DEF Older
<1> QED BY <1>1, <1>2, <1>3, <1>4, LockInvInit, SystemInvariant, PTL DEF SystemSpec

-----------------------------------------------------------------------------
(* What discovery knows, and when a job turns stale.                       *)

\* GitLab has reached the revision r.
NotAhead(r) == r.head <= gl.head[r.mr] /\ r.target <= gl.target[ProjectOf[r.mr]]

\* No row of m has a newer head, or a newer target, than the one given.
NoNewerRow(m, head) == \A q \in Revisions : Exists(q) /\ q.mr = m => q.head <= head
NoNewerTarget(m, target) ==
  \A q \in Revisions : Exists(q) /\ q.mr = m => q.target <= target

\* A list of discovery: each merge request once, with a head that GitLab has
\* reached and no row has passed.
ListFits(list) ==
  \A x \in list : /\ x.mr \in MRs /\ x.head <= gl.head[x.mr]
                  /\ NoNewerRow(x.mr, x.head)
                  /\ \A y \in list : x.mr = y.mr => x = y

\* A revision about to be inserted, the rest of the list being about others.
FoundFits(r, list) ==
  /\ NotAhead(r) /\ NoNewerRow(r.mr, r.head) /\ NoNewerTarget(r.mr, r.target)
  /\ \A x \in list : x.mr # r.mr

ScanFits(d) == /\ ListFits(d.listed)
               /\ d.found # NoRevision => FoundFits(d.found, d.listed)

\* While only the polling discovers and branches only move forward, it never
\* inserts a revision older than a row.
DiscoveryKnows ==
  /\ disc["reconcile"] = IdleDiscovery
  /\ \A r \in Revisions : Exists(r) => NotAhead(r)
  /\ ScanFits(disc["poll"])
DiscoveryInv == ~CanReturn /\ Never("admin") => DiscoveryKnows

\* Every row other than an inserted one was there before.
RowsKnown == \A q \in Revisions : Exists(q)' => Exists(q)

\* A scan that has not begun fits.
LEMMA IdleFits == ScanFits(IdleDiscovery)
BY DEF ScanFits, IdleDiscovery, ListFits

\* What was reached stays reached, and nothing passes it by itself.
LEMMA ScanFitsKept ==
  ASSUME StoreAssumption, SystemAssumption, ProcessInv, ProcessInv', MovesOn,
         RowsKnown, NEW d \in DiscoveryRecord, ScanFits(d)
  PROVE  ScanFits(d)'
<1>1. /\ \A m \in MRs : gl.head[m] \in Nat /\ gl'.head[m] \in Nat
      /\ \A p \in Projects : gl.target[p] \in Nat /\ gl'.target[p] \in Nat
      /\ \A r \in Revisions : /\ r.mr \in MRs /\ r.head \in Nat /\ r.target \in Nat
                              /\ ProjectOf[r.mr] \in Projects
      /\ \A x \in d.listed : x.mr \in MRs /\ x.head \in Nat
  <2>1. GitLabTyped /\ GitLabTyped'
    BY DEF ProcessInv
  <2> QED BY <2>1 DEF GitLabTyped, SystemAssumption, Revisions, DiscoveryRecord
<1>2. \A r \in Revisions : NotAhead(r) => NotAhead(r)'
  BY <1>1 DEF NotAhead, MovesOn
<1>3. ListFits(d.listed)'
  BY <1>1 DEF ScanFits, ListFits, MovesOn, RowsKnown, NoNewerRow
<1>4. d.found # NoRevision => FoundFits(d.found, d.listed)'
  <2>1. d.found # NoRevision => d.found \in Revisions
    BY DEF DiscoveryRecord
  <2> QED BY <1>2, <2>1 DEF ScanFits, FoundFits, NoNewerRow, NoNewerTarget, RowsKnown
<1> QED BY <1>3, <1>4 DEF ScanFits

\* No row is inserted but by discovery.
LEMMA OthersInsertNone ==
  ASSUME StoreAssumption, SystemAssumption, ProcessInv, [SystemNext]_vars,
         ~Spend("admin"), ~ \E s \in Scanners : Enqueues(s)
  PROVE  RowsKnown
<1>1. SameJobs => RowsKnown
  BY DEF SameJobs, SameJob, RowsKnown, Exists
<1>2. CASE Restart
  BY <1>2, RecoverRows DEF Restart, ProcessInv, SameJob, RowsKnown, Exists
<1>3. ASSUME NEW v \in Workers, ClaimJob(v) PROVE RowsKnown
  BY <1>3, ClaimTakes, ClaimRows DEF ProcessInv, RowsKnown, Exists
<1>4. ASSUME NEW v \in Workers, Ends(v) PROVE RowsKnown
  BY <1>4, EndsWrites DEF RowsKnown, Exists
<1>5. ~Administrate
  BY DEF Administrate
<1>6. ASSUME NEW v \in Workers, WorkerActs(v) PROVE RowsKnown
  BY <1>1, <1>3, <1>4, <1>6, WorkerJobs
<1> QED BY <1>1, <1>2, <1>5, <1>6, OtherJobs

\* The polling's own steps.
LEMMA DiscoveryKnowsPoll ==
  ASSUME StoreAssumption, SystemAssumption, ProcessInv, ProcessInv',
         DiscoveryKnows, Discovery("poll")
  PROVE  DiscoveryKnows'
<1> DEFINE d == disc["poll"]
           e == disc'["poll"]
<1>1. /\ UNCHANGED gl /\ disc \in [Scanners -> DiscoveryRecord]
      /\ gl.head \in [MRs -> Nat] /\ gl.target \in [Projects -> Nat]
      /\ \A r \in Revisions : /\ r.mr \in MRs /\ r.head \in Nat /\ r.target \in Nat
                              /\ ProjectOf[r.mr] \in Projects
      /\ d.listed \in SUBSET [mr : MRs, head : Heads]
      /\ \A x \in d.listed : x.mr \in MRs /\ x.head \in Nat
  <2>1. "poll" \in Scanners
    BY DEF Scanners
  <2>2. UNCHANGED gl
    BY <2>1, DiscoverySteps
  <2>3. disc \in [Scanners -> DiscoveryRecord] /\ d \in DiscoveryRecord
    BY <2>1 DEF ProcessInv, RestTyped
  <2>4. gl.head \in [MRs -> Nat] /\ gl.target \in [Projects -> Nat]
    BY DEF ProcessInv, GitLabTyped, SystemAssumption
  <2> QED BY <2>2, <2>3, <2>4 DEF DiscoveryRecord, Revisions, SystemAssumption
<1>2. disc'["reconcile"] = IdleDiscovery
  <2>1. \E x : disc' = [disc EXCEPT !["poll"] = x]
    BY DEF Discovery, DiscoverList, DiscoverTarget, DiscoverEnqueue
  <2> QED BY <1>1, <2>1 DEF DiscoveryKnows, Scanners
<1>3. CASE UNCHANGED storeVars
  <2>1. \A q \in Revisions : Exists(q)' <=> Exists(q)
    BY <1>3 DEF storeVars, Exists
  <2>2. \A r \in Revisions : NotAhead(r)' <=> NotAhead(r)
    BY <1>1 DEF NotAhead
  <2>3. ListFits(e.listed) /\ (e.found # NoRevision => FoundFits(e.found, e.listed))
    <3>1. CASE DiscoverList("poll")
      <4> DEFINE list == {[mr |-> m, head |-> gl.head[m]] : m \in {m \in MRs : gl.open[m]}}
      <4>1. d.found = NoRevision
        BY <3>1 DEF DiscoverList, IdleDiscovery
      <4>2. disc' = [disc EXCEPT !["poll"].listed = list]
        BY <3>1 DEF DiscoverList
      <4>3. e.listed = list /\ e.found = NoRevision
        <5> HIDE DEF list
        <5> QED BY <1>1, <4>1, <4>2 DEF DiscoveryRecord, Scanners
      <4>4. ListFits(list)
        BY <1>1 DEF ListFits, NoNewerRow, DiscoveryKnows, NotAhead
      <4> QED BY <4>3, <4>4
    <3>2. CASE DiscoverTarget("poll")
      <4>1. PICK x \in d.listed :
              LET rest == d.listed \ {x}
                  r == [mr |-> x.mr, head |-> x.head,
                        target |-> gl.target[ProjectOf[x.mr]]] IN
              \/ disc' = [disc EXCEPT !["poll"] = [listed |-> rest, found |-> r]]
              \/ disc' = [disc EXCEPT !["poll"].listed = rest]
        BY <3>2 DEF DiscoverTarget
      <4> DEFINE rest == d.listed \ {x}
                 r == [mr |-> x.mr, head |-> x.head,
                       target |-> gl.target[ProjectOf[x.mr]]]
      <4>2. d.found = NoRevision
        BY <3>2 DEF DiscoverTarget
      <4>3. e.listed = rest /\ (e.found = r \/ e.found = NoRevision)
        <5> HIDE DEF rest, r
        <5>1. \/ disc' = [disc EXCEPT !["poll"] = [listed |-> rest, found |-> r]]
              \/ disc' = [disc EXCEPT !["poll"].listed = rest]
          BY <4>1 DEF rest, r
        <5> QED BY <1>1, <4>2, <5>1 DEF DiscoveryRecord, Scanners
      <4>4. ListFits(rest)
        BY DEF DiscoveryKnows, ScanFits, ListFits
      <4>5. FoundFits(r, rest)
        <5>1. /\ r.mr = x.mr /\ r.head = x.head /\ r.target = gl.target[ProjectOf[x.mr]]
              /\ x.mr \in MRs /\ x.head <= gl.head[x.mr] /\ NoNewerRow(x.mr, x.head)
              /\ \A y \in d.listed : x.mr = y.mr => x = y
          BY <1>1 DEF DiscoveryKnows, ScanFits, ListFits
        <5>2. gl.target[ProjectOf[x.mr]] \in Nat
          BY <1>1, <5>1 DEF SystemAssumption
        <5>3. NotAhead(r)
          BY <5>1, <5>2 DEF NotAhead
        <5>4. NoNewerTarget(r.mr, r.target)
          BY <5>1 DEF NoNewerTarget, DiscoveryKnows, NotAhead
        <5> HIDE DEF r
        <5> QED BY <5>1, <5>3, <5>4 DEF FoundFits
      <4> HIDE DEF rest, r
      <4> QED BY <4>3, <4>4, <4>5
    <3>3. CASE DiscoverEnqueue("poll")
      <4>1. disc' = [disc EXCEPT !["poll"].found = NoRevision]
        BY <3>3 DEF DiscoverEnqueue
      <4>2. e.listed = d.listed /\ e.found = NoRevision
        BY <1>1, <4>1 DEF DiscoveryRecord, Scanners
      <4> QED BY <4>2 DEF DiscoveryKnows, ScanFits
    <3> QED BY <3>1, <3>2, <3>3 DEF Discovery
  <2>4. ScanFits(d)'
    BY <1>1, <2>1, <2>2, <2>3 DEF ScanFits, ListFits, FoundFits, NoNewerRow,
       NoNewerTarget, NotAhead
  <2> QED BY <1>2, <2>1, <2>2, <2>4 DEF DiscoveryKnows
<1>4. CASE Enqueues("poll")
  <2>1. /\ d.found \in Revisions /\ Enqueue(d.found) /\ d.found # NoRevision
        /\ FoundFits(d.found, d.listed)
    BY <1>4 DEF Enqueues, DiscoverEnqueue, DiscoveryKnows, ScanFits
  <2>2. e.listed = d.listed /\ e.found = NoRevision
    <3>1. disc' = [disc EXCEPT !["poll"].found = NoRevision]
      BY <1>4 DEF Enqueues, DiscoverEnqueue
    <3> QED BY <1>1, <3>1 DEF DiscoveryRecord, Scanners
  <2>3. \A q \in Revisions : Exists(q)' => Exists(q) \/ q = d.found
    BY <2>1, EnqueueRows DEF SameJob, Exists, ProcessInv
  <2>4. \A r \in Revisions : Exists(r)' => NotAhead(r)'
    BY <1>1, <2>1, <2>3 DEF DiscoveryKnows, NotAhead, FoundFits
  <2>5. ListFits(d.listed)'
    BY <1>1, <2>1, <2>2, <2>3 DEF DiscoveryKnows, ScanFits, ListFits, FoundFits, NoNewerRow
  <2>6. ScanFits(d)'
    BY <2>2, <2>5 DEF ScanFits
  <2> QED BY <1>2, <2>4, <2>6 DEF DiscoveryKnows
<1> QED BY <1>3, <1>4, DiscoverySteps DEF Scanners

\* Everybody keeps what the polling knows.
LEMMA DiscoveryInvStep ==
  ASSUME StoreAssumption, SystemAssumption, ProcessInv, DiscoveryInv,
         [SystemNext]_vars
  PROVE  DiscoveryInv'
<1> SUFFICES ASSUME ~CanReturn, Never("admin")' PROVE DiscoveryKnows'
  BY DEF DiscoveryInv
<1>1. Never("admin") /\ ~Spend("admin") /\ ProcessInv'
  BY ProcessInvStep, SpendingCounts DEF ProcessInv, BudgetKinds
<1>2. DiscoveryKnows /\ MovesOn
  BY <1>1, GitLabMovesOn DEF DiscoveryInv
<1>3. CASE Discovery("poll")
  BY <1>1, <1>2, <1>3, DiscoveryKnowsPoll
<1>4. ~Discovery("reconcile")
  BY <1>1, <1>2 DEF DiscoveryKnows, Discovery, DiscoverList, DiscoverTarget,
     DiscoverEnqueue, IdleDiscovery
<1>5. CASE ~ \E s \in Scanners : Discovery(s)
  <2>1. \A s \in Scanners : disc'[s] = disc[s] \/ disc'[s] = IdleDiscovery
    <3>1. ASSUME NEW w \in Workers, WorkerActs(w) PROVE UNCHANGED disc
      BY <3>1, WorkerSteps DEF Keeps
    <3>2. CASE Stop \/ Restart
      BY <3>2 DEF Stop, Restart, ProcessInv, RestTyped
    <3>3. UNCHANGED <<notes, bot>> => UNCHANGED disc
      BY DEF bot
    <3>4. CASE Environment
      BY <3>2, <3>3, <3>4, OutsideSteps
    <3> QED BY <1>5, <3>1, <3>4 DEF SystemNext, WorkerActs, vars
  <2>2. RowsKnown
    BY <1>1, <1>5, OthersInsertNone DEF Enqueues, Discovery
  <2>3. /\ disc["poll"] \in DiscoveryRecord /\ "poll" \in Scanners
        /\ "reconcile" \in Scanners
    BY DEF ProcessInv, RestTyped, Scanners
  <2>4. ScanFits(disc["poll"])'
    <3>1. CASE disc'["poll"] = disc["poll"]
      <4> DEFINE d == disc["poll"]
      <4>1. PICK c \in DiscoveryRecord : c = disc["poll"]
        BY <2>3
      <4>2. ScanFits(c)'
        BY <1>1, <1>2, <2>2, <4>1, ScanFitsKept DEF DiscoveryKnows
      <4> QED BY <3>1, <4>1, <4>2
    <3>2. CASE disc'["poll"] = IdleDiscovery
      BY <3>2 DEF ScanFits, IdleDiscovery, ListFits
    <3> QED BY <2>1, <2>3, <3>1, <3>2
  <2>5. ASSUME NEW r \in Revisions, Exists(r)' PROVE NotAhead(r)'
    <3>1. NotAhead(r)
      BY <1>2, <2>2, <2>5 DEF DiscoveryKnows, RowsKnown
    <3>2. GitLabTyped /\ GitLabTyped'
      BY <1>1 DEF ProcessInv
    <3>3. /\ gl.head[r.mr] \in Nat /\ gl'.head[r.mr] \in Nat
          /\ gl.target[ProjectOf[r.mr]] \in Nat /\ gl'.target[ProjectOf[r.mr]] \in Nat
          /\ r.head \in Nat /\ r.target \in Nat
          /\ r.mr \in MRs /\ ProjectOf[r.mr] \in Projects
      BY <3>2 DEF GitLabTyped, SystemAssumption, Revisions
    <3> QED BY <1>2, <3>1, <3>3 DEF NotAhead, MovesOn
  <2> QED BY <1>2, <2>1, <2>3, <2>4, <2>5 DEF DiscoveryKnows
<1> QED BY <1>3, <1>4, <1>5 DEF Scanners

\* It holds at the start.
LEMMA DiscoveryInvInit == SystemInit => DiscoveryInv
<1> SUFFICES ASSUME SystemInit PROVE DiscoveryKnows
  BY DEF DiscoveryInv
<1>1. \A s \in Scanners : disc[s] = IdleDiscovery
  BY DEF SystemInit
<1>2. \A r \in Revisions : ~Exists(r)
  BY DEF SystemInit, StoreInit, NewRow, Exists
<1> QED BY <1>1, <1>2, IdleFits DEF DiscoveryKnows, Scanners

\* A revision that GitLab has left behind is never current again.
LEMMA PassedStaysPassed ==
  ASSUME SystemAssumption, ProcessInv, ProcessInv', MovesOn,
         NEW r \in Revisions, NotAhead(r), ~IsCurrent(r)
  PROVE  ~IsCurrent(r)'
<1>1. GitLabTyped /\ GitLabTyped'
  BY DEF ProcessInv
<1>2. /\ gl.head[r.mr] \in Nat /\ gl'.head[r.mr] \in Nat
      /\ gl.target[ProjectOf[r.mr]] \in Nat /\ gl'.target[ProjectOf[r.mr]] \in Nat
      /\ r.head \in Nat /\ r.target \in Nat
      /\ r.mr \in MRs /\ ProjectOf[r.mr] \in Projects
  BY <1>1 DEF GitLabTyped, SystemAssumption, Revisions
<1> QED BY <1>2 DEF NotAhead, MovesOn, IsCurrent, HeadCurrent, TargetCurrent

\* While nothing disturbs the workers, one that is canceled has a job that was
\* superseded, and one about to make its job stale has a reason that lasts.
HasReason(w) ==
  Working(w) =>
    /\ wk[w].ctx # "live" => job[RevOf(w)].state = "stale"
    /\ At(w, "mark_stale") => ~IsCurrent(RevOf(w)) \/ job[RevOf(w)].state = "stale"
Forward == Undisturbed /\ ~CanReturn
StaleInv == Forward => \A w \in Workers : HasReason(w)

\* A reason lasts.
LEMMA ReasonKept ==
  ASSUME StoreAssumption, SystemAssumption, ProcessInv, ProcessInv', MovesOn,
         DiscoveryKnows, StaleKept, NEW w \in Workers, OnOwnJob(w),
         Working(w), wk'[w].rev = wk[w].rev,
         wk'[w].ctx # "live" => job[RevOf(w)].state = "stale",
         wk'[w].pc = "mark_stale" =>
           ~IsCurrent(RevOf(w)) \/ job[RevOf(w)].state = "stale"
  PROVE  HasReason(w)'
<1>1. RevOf(w) \in Revisions /\ Exists(RevOf(w))
  BY DEF Working, ProcessInv, WorkersFit, PlaceFits, RevOf, OnOwnJob
<1>2. job[RevOf(w)].state = "stale" => job'[RevOf(w)].state = "stale"
  BY <1>1 DEF StaleKept
<1>3. ~IsCurrent(RevOf(w)) => ~IsCurrent(RevOf(w))'
  <2>1. RevOf(w)' = RevOf(w)
    BY DEF RevOf
  <2>2. PICK r \in Revisions : r = RevOf(w)
    BY <1>1
  <2>3. NotAhead(r)
    BY <1>1, <2>2 DEF DiscoveryKnows
  <2>4. ~IsCurrent(r) => ~IsCurrent(r)'
    BY <2>3, PassedStaysPassed
  <2> QED BY <2>1, <2>2, <2>4
<1> QED BY <1>2, <1>3 DEF HasReason, RevOf, At

\* What does not disturb does not disturb.
LEMMA ForwardBefore ==
  ASSUME StoreAssumption, SystemAssumption, ProcessInv, [SystemNext]_vars, Forward'
  PROVE  /\ Forward /\ Never("admin") /\ ProcessInv' /\ MovesOn /\ StaleKept
         /\ ~Spend("admin") /\ ~Spend("external") /\ ~Spend("stop")
<1>1. ProcessInv' /\ MovesOn /\ Spends
  BY ProcessInvStep, GitLabMovesOn DEF Forward
<1>2. StaleKept
  BY SystemStatements, EnqueueKeeps, OtherStepsKeep DEF ProcessInv
<1>3. \A kind \in {"external", "stop", "admin"} : Never(kind) /\ ~Spend(kind)
  BY <1>1, SpendingCounts DEF ProcessInv, BudgetKinds, Forward, Undisturbed
<1> QED BY <1>1, <1>2, <1>3 DEF Forward, Undisturbed

\* A worker is canceled only because its row is no longer active, and turns to
\* mark_stale only for what it has read.
LEMMA StaleInvStep ==
  ASSUME StoreAssumption, SystemAssumption, ProcessInv, JobInv, DiscoveryInv,
         StaleInv, [SystemNext]_vars
  PROVE  StaleInv'
<1> SUFFICES ASSUME Forward', NEW w \in Workers, Working(w)' PROVE HasReason(w)'
  BY DEF StaleInv, HasReason
<1>1. /\ DiscoveryKnows /\ OnOwnJob(w) /\ HasReason(w) /\ ProcessInv' /\ MovesOn
      /\ StaleKept /\ ~Spend("external") /\ ~Spend("stop")
  BY ForwardBefore DEF JobInv, DiscoveryInv, StaleInv, Forward
<1>2. CASE ~Working(w)
  <2>1. ClaimJob(w)
    BY <1>2, JobsTaken
  <2>2. wk'[w].pc = "ensure" /\ wk'[w].ctx = "live"
    BY <1>2, <2>1, ClaimTakes DEF Working
  <2> QED BY <2>2 DEF HasReason, At
<1>3. CASE Working(w)
  <2>1. wk'[w].rev = wk[w].rev
    BY <1>3, JobsTaken
  <2>2. CASE wk'[w] = wk[w]
    BY <1>1, <1>3, <2>1, <2>2, ReasonKept DEF HasReason, At
  <2>3. CASE Walks(w)
    <3>1. wk'[w].ctx # "live" => job[RevOf(w)].state = "stale"
      <4>1. wk[w].ctx # "live" => job[RevOf(w)].state = "stale"
        BY <1>1, <1>3 DEF HasReason
      <4>2. ~IsActive(RevOf(w)) => job[RevOf(w)].state = "stale"
        BY <1>1, <1>3 DEF OnOwnJob, IsActive, Active
      <4>3. wk'[w].ctx \in {"live", "superseded", "dead"}
        BY <2>3 DEF Walks, Moves, WorkerRecord
      <4> QED BY <1>1, <2>3, <4>1, <4>2, <4>3 DEF Walks
    <3>2. wk'[w].pc = "mark_stale" =>
            ~IsCurrent(RevOf(w)) \/ job[RevOf(w)].state = "stale"
      BY <1>1, <1>3, <2>3 DEF Walks, HasReason, At
    <3> QED BY <1>1, <1>3, <2>1, <3>1, <3>2, ReasonKept
  <2>4. ~ClaimJob(w)
    BY <1>3, ClaimTakes DEF Working
  <2>5. ~(wk'[w] = IdleWorker)
    BY DEF Working, IdleWorker
  <2>6. ASSUME NEW v \in Workers, WorkerActs(v) PROVE HasReason(w)'
    BY <2>2, <2>3, <2>4, <2>5, <2>6, WorkerJobs
  <2>7. ~Stop /\ ~Restart
    BY <1>1 DEF Stop, Restart, IdleWorker, Working
  <2> QED BY <2>2, <2>6, <2>7, OtherJobs
<1> QED BY <1>2, <1>3

\* It holds at the start: nobody is working.
LEMMA StaleInvInit == SystemInit => StaleInv
BY DEF SystemInit, IdleWorker, StaleInv, HasReason, Working

\* A row turns stale by the worker that has a reason, or by the insertion of a
\* revision that GitLab has reached and the row has not.
LEMMA StaleForReason ==
  ASSUME StoreAssumption, SystemAssumption, ProcessInv, JobInv, DiscoveryInv,
         StaleInv, [SystemNext]_vars, Forward, NEW r \in Revisions,
         job'[r].state = "stale", job[r].state # "stale"
  PROVE  ~IsCurrent(r)
<1>1. /\ DiscoveryKnows
      /\ \A w \in Workers : OnOwnJob(w) /\ HasReason(w)
  BY DEF JobInv, DiscoveryInv, StaleInv, Forward, Undisturbed
<1>2. ~SameJobs
  BY DEF SameJobs, SameJob
<1>3. ASSUME NEW v \in Workers, WorkerActs(v) PROVE ~IsCurrent(r)
  <2>1. ~ClaimJob(v)
    BY ClaimTakes, ClaimRows DEF ProcessInv
  <2>2. Ends(v)
    BY <1>2, <1>3, <2>1, WorkerJobs
  <2>3. r = RevOf(v) /\ At(v, "mark_stale") /\ Working(v)
    BY <2>2, EndsWrites, EndsByStatement
  <2> QED BY <1>1, <2>3 DEF HasReason
<1>4. ASSUME NEW s \in Scanners, Enqueues(s) PROVE ~IsCurrent(r)
  <2>1. s = "poll"
    BY <1>1, <1>4 DEF Scanners, DiscoveryKnows, Enqueues, DiscoverEnqueue, IdleDiscovery
  <2> DEFINE f == disc["poll"].found
  <2>2. f \in Revisions /\ Enqueue(f) /\ FoundFits(f, disc["poll"].listed)
    BY <1>1, <1>4, <2>1 DEF Enqueues, DiscoverEnqueue, DiscoveryKnows, ScanFits
  <2>3. Exists(r) /\ r # f /\ r.mr = f.mr
    BY <2>2, EnqueueRows DEF SameJob, ProcessInv
  <2>4. /\ r.head <= f.head /\ r.target <= f.target
        /\ f.head <= gl.head[r.mr] /\ f.target <= gl.target[ProjectOf[r.mr]]
    BY <2>2, <2>3 DEF FoundFits, NoNewerRow, NoNewerTarget, NotAhead
  <2> HIDE DEF f
  <2>5. r.head = f.head /\ r.target = f.target => r = f
    <3>1. /\ r = [mr |-> r.mr, head |-> r.head, target |-> r.target]
          /\ f = [mr |-> f.mr, head |-> f.head, target |-> f.target]
      BY <2>2 DEF Revisions
    <3> QED BY <2>3, <3>1
  <2>6. r.head \in Nat /\ r.target \in Nat /\ f.head \in Nat /\ f.target \in Nat
    BY <2>2 DEF Revisions, SystemAssumption
  <2>7. /\ gl.head[r.mr] = r.head => r.head = f.head
        /\ gl.target[ProjectOf[r.mr]] = r.target => r.target = f.target
    BY <2>4, <2>6
  <2> QED BY <2>3, <2>5, <2>7 DEF IsCurrent, HeadCurrent, TargetCurrent
<1>5. CASE Administrate
  <2>1. PICK q \in Revisions :
          CancelReview(q) \/ RetryReview(q) \/ \E prio \in Priorities : SetPriority(q, prio)
    BY <1>5 DEF Administrate
  <2>2. ~ \E prio \in Priorities : SetPriority(q, prio)
    BY <1>2, ChoresKeep DEF ProcessInv
  <2>3. job[r] \in Row /\ job[q] \in Row /\ job = [x \in Revisions |-> job[x]]
    BY DEF ProcessInv, StoreInv, RowOK
  <2> QED BY <2>1, <2>2, <2>3 DEF CancelReview, RetryReview, Row
<1>6. CASE Restart
  BY <1>6, RecoverRows DEF Restart, ProcessInv, SameJob
<1> QED BY <1>2, <1>3, <1>4, <1>5, <1>6, OtherJobs

\* While no call fails, nobody intervenes and branches only move forward, a job
\* turns stale only once its revision is no longer current.
THEOREM StaleOnlyTruthful == SystemSpec => StaleIsTruthful
<1> USE StoreAssumption, SystemAssumption
<1> DEFINE A == Forward =>
     \A r \in Revisions :
       job'[r].state = "stale" /\ job[r].state # "stale" => ~IsCurrent(r)
<1>1. ProcessInv /\ JobInv /\ [SystemNext]_vars => JobInv'
  BY JobInvStep
<1>2. ProcessInv /\ DiscoveryInv /\ [SystemNext]_vars => DiscoveryInv'
  BY DiscoveryInvStep
<1>3. ProcessInv /\ JobInv /\ DiscoveryInv /\ StaleInv /\ [SystemNext]_vars
        => StaleInv'
  BY StaleInvStep
<1>4. ProcessInv /\ JobInv /\ DiscoveryInv /\ StaleInv /\ [SystemNext]_vars => A
  BY StaleForReason
<1>5. A => (Undisturbed /\ ~CanReturn =>
              \A r \in Revisions :
                job'[r].state = "stale" /\ job[r].state # "stale" => ~IsCurrent(r))
  BY DEF Forward
<1> HIDE DEF A
<1> QED BY <1>1, <1>2, <1>3, <1>4, <1>5, JobInvInit, DiscoveryInvInit,
        StaleInvInit, SystemInvariant, PTL DEF SystemSpec, StaleIsTruthful
=============================================================================
