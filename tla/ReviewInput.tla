---------------------------- MODULE ReviewInput ----------------------------
(***************************************************************************)
(* What a review of a project's merge requests is given, and what it makes *)
(* of earlier ones: the rule file of the target branch and the layers it   *)
(* is composed with, the files these leave to review, the checkpoints of   *)
(* the sessions that are listed for the rule file, the identity the        *)
(* manifest records, and the relation of the findings to historical ones.  *)
(*                                                                         *)
(* Attempts of one job are module AgentRun's, diffs DiffLines'.            *)
(***************************************************************************)
EXTENDS RuleLayers, FiniteSets, FiniteSetsExt, TLC

CONSTANTS
  MRs,         \* merge requests of the project
  Diffs,       \* contents of a file's diff
  Gone,        \* the diff deletes the file
  Absent,      \* the file is not in the diff
  TooLong,     \* diffs over PromptTokenLimit
  Allowed,     \* paths whose extension and place are reviewed
  RuleFiles,   \* contents of .opencodereview/rule.json
  Missing,     \* there is no such file
  Broken,      \* it is no JSON
  TargetFiles, \* those the target branch may hold
  HeadTrees,   \* what a merge request's head may be
  GlobalLayer, \* ~/.opencodereview/rule.json
  NoItem,      \* resume.Item: no checkpoint
  NoRun, Nobody, Stranger,
  MaxJobs,     \* bound: jobs
  MaxPushes,   \* bound: pushes to the branches
  MaxDecisions \* bound: decisions of one answer

HeadTree == [diff : [Paths -> Diffs \union {Gone, Absent}],
         rules : RuleFiles \union {Missing, Broken},
         docs : [Docs -> Seq(STRING)]]

\* A finding, by the file and the job whose review made it.
InputFinding == [file : Paths, job : Nat]

\* What a session records of an item: a path and its diff.
ItemLine == [type : {"done", "reused", "failed"},
             path : Paths \X (Diffs \union {Gone, Absent}), comments : Seq(InputFinding)]

ASSUME InputAssumption ==
  /\ Gone \notin Diffs /\ Absent \notin Diffs /\ TooLong \subseteq Diffs
  /\ Allowed \subseteq Paths /\ HeadTrees \subseteq HeadTree
  /\ TargetFiles \subseteq RuleFiles /\ RuleFiles \union {GlobalLayer} \subseteq ProjectRule
  /\ {MaxJobs, MaxPushes, MaxDecisions} \subseteq Nat
  /\ IsFiniteSet(Paths) /\ Nobody \notin InputFinding /\ NoRun \notin Seq(ItemLine)

Log == INSTANCE SessionLog WITH Files <- Paths \X Diffs

Filters == INSTANCE Selection WITH
  PromptOverhead <- 0, MainRounds <- 0, RoundOutput <- 0, PlanOutput <- 0

VARIABLES
  target,    \* the target branch: its rule file and its revision
  heads,     \* the head of each merge request: its tree and its revision
  pushes,    \* pushes so far
  clock,     \* orders the times in queued_at and finished_at
  jobs,      \* review_job
  sessions,  \* the lines of each job's session, NoRun until it is opened
  run,       \* the review that holds the project's lock
  timeline   \* the FindingTimeline the last step recorded

inputVars ==
  <<target, heads, pushes, clock, jobs, sessions, run, timeline>>

InputInit ==
  /\ target \in [file : TargetFiles \union {Missing}, sha : {0}]
  /\ heads \in [MRs -> [tree : HeadTrees, sha : {0}]]
  /\ pushes = 0 /\ clock = 0
  /\ jobs = <<>> /\ sessions = <<>>
  /\ run = NoRun /\ timeline = NoRun

-----------------------------------------------------------------------------
(* The branches move. *)

PushTarget ==
  /\ pushes < MaxPushes /\ pushes' = pushes + 1
  /\ \E file \in TargetFiles \union {Missing} :
       target' = [file |-> file, sha |-> target.sha + 1]
  /\ UNCHANGED <<heads, clock, jobs, sessions, run>>
  /\ timeline' = NoRun

PushHead(mr) ==
  /\ pushes < MaxPushes /\ pushes' = pushes + 1
  /\ \E tree \in HeadTrees :
       heads' = [heads EXCEPT ![mr] = [tree |-> tree, sha |-> @.sha + 1]]
  /\ UNCHANGED <<target, clock, jobs, sessions, run>>
  /\ timeline' = NoRun

-----------------------------------------------------------------------------
(* The worker: rule preflight. *)

\* ValidateRuleData: at least one rule, each with a path and a rule.
ValidRuleData(file) ==
  /\ file.rules # <<>>
  /\ \A i \in DOMAIN file.rules :
       file.rules[i].path # {} /\ (file.rules[i].rule # NoText \/ file.rules[i].ref # Inline)

\* Mutant of ListReusableSessions: the sessions of any rule file.
ListAllSessions(ruleSHA) ==
  [j \in {i \in DOMAIN jobs : sessions[i] # NoRun} |-> jobs[j].stamp]

\* The sessions of jobs with this rule, and when each was finished or queued.
ListReusableSessions(ruleSHA) ==
  [j \in {i \in DOMAIN jobs : sessions[i] # NoRun /\ jobs[i].ruleSHA = ruleSHA} |->
     jobs[j].stamp]

\* The current revision has no row yet, and no other revision is active:
\* Enqueue made it stale.
Enqueued(mr) ==
  /\ Len(jobs) < MaxJobs
  /\ \A j \in DOMAIN jobs : jobs[j].mr = mr =>
       /\ jobs[j].state = "over"
       /\ <<jobs[j].headSHA, jobs[j].targetSHA>> # <<heads[mr].sha, target.sha>>

\* A job of the current revision up to the project's lock.
Preflight(mr) ==
  /\ Enqueued(mr)
  /\ LET rejected == target.file # Missing /\ ~ValidRuleData(target.file)
     IN  jobs' = Append(jobs,
           [mr |-> mr, head |-> heads[mr].tree, headSHA |-> heads[mr].sha,
            targetSHA |-> target.sha,
            ruleSHA |-> target.file, stamp |-> clock,
            resume |-> IF rejected THEN <<>> ELSE ListReusableSessions(target.file),
            state |-> IF rejected THEN "over" ELSE "waiting"])
  /\ sessions' = Append(sessions, NoRun)
  /\ clock' = clock + 1
  /\ UNCHANGED <<target, heads, pushes, run>>
  /\ timeline' = NoRun

Over(j) ==
  /\ jobs' = [jobs EXCEPT ![j].state = "over", ![j].stamp = clock]
  /\ clock' = clock + 1

\* The head or the target moved: superseded, or prepared.TargetSHA is another
\* than the one of the preflight.
GoesStale(j) ==
  /\ jobs[j].state = "waiting"
  /\ \/ target.sha # jobs[j].targetSHA
     \/ heads[jobs[j].mr].sha # jobs[j].headSHA
  /\ Over(j)
  /\ UNCHANGED <<target, heads, pushes, sessions, run>>
  /\ timeline' = NoRun

-----------------------------------------------------------------------------
(* RunComponent: rules, checkpoints and files. *)

\* validated-rule.json lies in the artifact directory, where no rule document
\* is; the project's layer is read from the workspace, a checkout of the head.
CustomLayer(job) ==
  IF job.ruleSHA = Missing THEN NoLayer
  ELSE Loaded(job.ruleSHA, [d \in Docs |-> NoText])

ProjectLayer(job) ==
  IF job.head.rules = Missing THEN NoLayer
  ELSE Loaded(job.head.rules, job.head.docs)

Layers(job) == <<CustomLayer(job), ProjectLayer(job), GlobalLayer>>

\* NewResolver fails on a project rule that is no JSON, before there is a
\* session.
ResolverFails(j) ==
  /\ jobs[j].state = "waiting" /\ run = NoRun
  /\ target.sha = jobs[j].targetSHA /\ jobs[j].head.rules = Broken
  /\ Over(j)
  /\ UNCHANGED <<target, heads, pushes, sessions, run>>
  /\ timeline' = NoRun

\* filterDiffs, filterLargeDiffs and registerCoverage.
IsReviewable(filter, f) ==
  Filters!WillReview([binary |-> FALSE,
    userExcluded |-> IsUserExcluded(filter, f),
    userIncluded |-> IsUserIncluded(filter, f),
    allowedExt |-> f \in Allowed, excludedPath |-> FALSE])

Selected(job) ==
  LET filter == BuildFileFilter(Layers(job))
  IN  {f \in Paths : job.head.diff[f] \in Diffs \ TooLong /\ IsReviewable(filter, f)}

\* Mutant of Fingerprint: it leaves the diff out.
FingerprintOfPath(f, diff) == <<f, CHOOSE d \in Diffs : TRUE>>

\* reviewItemFingerprint: mode, paths and diff.  The rule is not part of it.
Fingerprint(f, diff) == <<f, diff>>

\* MergeResumeStates: of several histories the one listed first wins.
Latest(ids, found) == CHOOSE j \in found : \A i \in found : ids[i] <= ids[j]

\* LoadResumeState of each listed session, and MergeResumeStates.
Checkpoint(ids, item) ==
  LET found == {j \in DOMAIN ids : Log!Checkpoint(sessions[j], item) # NoItem}
  IN  IF found = {} THEN NoItem ELSE Log!Checkpoint(sessions[Latest(ids, found)], item)

\* The lines of a session that say what was found in f.
Mentions(lines, f) ==
  {i \in DOMAIN lines : /\ lines[i].path[1] = f /\ lines[i].type # "failed"
                        /\ lines[i].type = "reused" => lines[i].comments # <<>>}

\* LatestComments: what the first history with a review of the file said last.
LatestComments(ids, f) ==
  LET found == {j \in DOMAIN ids : Mentions(sessions[j], f) # {}}
      lines == sessions[Latest(ids, found)]
  IN  IF found = {} THEN <<>> ELSE lines[Max(Mentions(lines, f))].comments

\* applyResume: the reused files' lines, in the order of the diffs.
ReusedLines(job, reused) ==
  LET files == SetToSeq(reused)
      item(f) == Fingerprint(f, job.head.diff[f])
  IN  [i \in DOMAIN files |->
         [type |-> "reused", path |-> item(files[i]),
          comments |-> Checkpoint(job.resume, item(files[i]))]]

\* The lock is acquired; RunComponent and Run up to the dispatch.
StartReview(j) ==
  /\ jobs[j].state = "waiting" /\ run = NoRun
  /\ target.sha = jobs[j].targetSHA /\ jobs[j].head.rules # Broken
  /\ LET job == jobs[j]
         selected == Selected(job)
         reused == {f \in selected :
           Checkpoint(job.resume, Fingerprint(f, job.head.diff[f])) # NoItem}
     IN  /\ run' = [job |-> j, selected |-> selected, todo |-> selected \ reused,
                    completed |-> {}]
         /\ sessions' = [sessions EXCEPT ![j] = ReusedLines(job, reused)]
  /\ jobs' = [jobs EXCEPT ![j].state = "review"]
  /\ timeline' = NoRun
  /\ UNCHANGED <<target, heads, pushes, clock>>

\* One file is reviewed under the rule it resolves to, or fails.
ReviewFile(f) ==
  /\ run # NoRun /\ f \in run.todo
  /\ LET j == run.job
         item == Fingerprint(f, jobs[j].head.diff[f])
         finding == [file |-> f, job |-> j]
         line(type, comments) == [type |-> type, path |-> item, comments |-> comments]
     IN  \/ \E comments \in {<<>>, <<finding>>} :
              /\ sessions' = [sessions EXCEPT ![j] = Append(@, line("done", comments))]
              /\ run' = [run EXCEPT !.todo = @ \ {f}, !.completed = @ \union {f}]
         \/ /\ sessions' = [sessions EXCEPT ![j] = Append(@, line("failed", <<>>))]
            /\ run' = [run EXCEPT !.todo = @ \ {f}]
  /\ UNCHANGED <<target, heads, pushes, clock, jobs>>
  /\ timeline' = NoRun

\* The review is canceled or the process killed: what is recorded stays.
Stop ==
  /\ run # NoRun /\ run' = NoRun /\ Over(run.job)
  /\ UNCHANGED <<target, heads, pushes, sessions>>
  /\ timeline' = NoRun

-----------------------------------------------------------------------------
(* finalizeManifest. *)

\* sourceArtifactSHA256: each selected item with its fingerprint.
SourceArtifact(job, selected) ==
  {Fingerprint(f, job.head.diff[f]) : f \in selected}

\* applyInputIdentity, ruleConfigSHA256; under and diffs are history: what the
\* digests stand for.
ManifestOf(job) ==
  LET filter == BuildFileFilter(Layers(job))
      selected == Selected(job)
  IN  [ruleConfig |-> RuleConfig(Layers(job), filter),
       artifact |-> SourceArtifact(job, selected),
       selected |-> selected,
       under |-> [f \in Paths |-> Resolve(Layers(job), f)],
       reviewable |-> {f \in Paths : IsReviewable(filter, f)},
       diffs |-> [f \in selected |-> job.head.diff[f]]]

-----------------------------------------------------------------------------
(* reconcileHistoricalFindings. *)

Statuses == {"fixed", "unfixed", "new"}

\* What the review says of its completed files, and what history said.
CurrentFindings ==
  {[file |-> f, job |-> run.job] : f \in
     {g \in run.completed : \E i \in DOMAIN sessions[run.job] :
        sessions[run.job][i].path[1] = g /\ sessions[run.job][i].comments # <<>>}}

HistoricalFindings ==
  UNION {ToSet(LatestComments(jobs[run.job].resume, f)) : f \in run.completed}

Decision(old, new, status) == [old |-> old, new |-> new, status |-> status]

\* Mutant of Admissible: a finding may be decided again.
AdmissibleAgain(decision, accepted, historical, current) ==
  /\ decision.old \in historical \union {Nobody}
  /\ decision.new \in current \union {Nobody}
  /\ decision.status \in Statuses
  /\ decision.status = "fixed" => decision.new = Nobody

\* A decision that validateReconciliation keeps.
Admissible(decision, accepted, historical, current) ==
  /\ decision.old \in historical \union {Nobody}
  /\ decision.new \in current \union {Nobody}
  /\ decision.status \in Statuses
  /\ decision.status = "fixed" => decision.new = Nobody
  /\ \A i \in DOMAIN accepted :
       /\ decision.old = Nobody \/ accepted[i].old # decision.old
       /\ decision.new = Nobody \/ accepted[i].new # decision.new

\* What is left undecided stays open.
KeptOpen(accepted, historical, current) ==
  accepted
    \o SetToSeq({Decision(h, Nobody, "unfixed") :
         h \in {x \in historical : \A i \in DOMAIN accepted : accepted[i].old # x}})
    \o SetToSeq({Decision(Nobody, c, "new") :
         c \in {x \in current : \A i \in DOMAIN accepted : accepted[i].new # x}})

ValidateReconciliation(decisions, historical, current) ==
  LET accepted[n \in 0..Len(decisions)] ==
        IF n = 0 THEN <<>>
        ELSE IF Admissible(decisions[n], accepted[n - 1], historical, current)
             THEN Append(accepted[n - 1], decisions[n]) ELSE accepted[n - 1]
  IN  KeptOpen(accepted[Len(decisions)], historical, current)

ConservativeReconciliation(historical, current) == KeptOpen(<<>>, historical, current)

Replies(historical, current) ==
  SeqOf([old : historical \union {Nobody, Stranger},
         new : current \union {Nobody, Stranger},
         status : Statuses \union {"other"}], MaxDecisions)

\* Without history nobody is asked; an error of the call or an answer that
\* cannot be parsed closes nothing.
Decisions(historical, current) ==
  {ConservativeReconciliation(historical, current)}
    \union IF historical = {} THEN {}
           ELSE {ValidateReconciliation(answer, historical, current) :
                   answer \in Replies(historical, current)}

\* The end of Run and of the job.
FinishReview ==
  /\ run # NoRun /\ run.todo = {}
  /\ IF run.completed = {} THEN timeline' = NoRun
     ELSE \E decisions \in Decisions(HistoricalFindings, CurrentFindings) :
       timeline' = [historical |-> HistoricalFindings, current |-> CurrentFindings,
                    decisions |-> decisions]
  /\ run' = NoRun /\ Over(run.job)
  /\ UNCHANGED <<target, heads, pushes, sessions>>

InputNext ==
  \/ PushTarget \/ Stop \/ FinishReview
  \/ \E mr \in MRs : PushHead(mr) \/ Preflight(mr)
  \/ \E j \in DOMAIN jobs : GoesStale(j) \/ ResolverFails(j) \/ StartReview(j)
  \/ \E f \in Paths : ReviewFile(f)

InputSpec == InputInit /\ [][InputNext]_inputVars

-----------------------------------------------------------------------------
(* Properties. *)

\* Every finding of a session, also one reused over several jobs, comes from a
\* review of the same diff under the same rule file of the target branch.
ReusedUnderTargetRules ==
  \A j \in DOMAIN jobs : sessions[j] # NoRun =>
    \A i \in DOMAIN sessions[j] : \A k \in DOMAIN sessions[j][i].comments :
      LET finding == sessions[j][i].comments[k] IN
        /\ jobs[finding.job].ruleSHA = jobs[j].ruleSHA
        /\ jobs[finding.job].head.diff[finding.file] = jobs[j].head.diff[finding.file]

\* Whatever the model answers, each historical and each current finding is
\* decided exactly once, and nothing else is.
DecidedOnce ==
  timeline # NoRun =>
    /\ \A h \in timeline.historical :
         Cardinality({i \in DOMAIN timeline.decisions : timeline.decisions[i].old = h}) = 1
    /\ \A c \in timeline.current :
         Cardinality({i \in DOMAIN timeline.decisions : timeline.decisions[i].new = c}) = 1
    /\ \A i \in DOMAIN timeline.decisions :
         /\ timeline.decisions[i].old \in timeline.historical \union {Nobody}
         /\ timeline.decisions[i].new \in timeline.current \union {Nobody}

\* The manifest of a review has the rule_config_sha256 of another one only if
\* both have the same rule for every path and the same filter, and the
\* source_artifact_sha256 only if both have the same diffs.
DigestsIdentify ==
  run # NoRun =>
    LET m == ManifestOf(jobs[run.job])
        opened == {j \in DOMAIN jobs : sessions[j] # NoRun}
    IN  \A n \in {ManifestOf(jobs[j]) : j \in opened} :
          /\ m.ruleConfig = n.ruleConfig =>
               m.under = n.under /\ m.reviewable = n.reviewable
          /\ m.artifact = n.artifact => m.diffs = n.diffs

\* "the default is to read [the rules] from the target commit of the target
\* branch, not from the source branch" (ocr-review-bot-技术架构方案.md:187): a
\* review applies the rules of the target's file and the built-in ones only.
RulesAreTheTargets ==
  run # NoRun =>
    LET job == jobs[run.job]
        own == <<CustomLayer(job), NoLayer, GlobalLayer>>
    IN  /\ \A f \in run.selected : Resolve(Layers(job), f) = Resolve(own, f)
        /\ BuildFileFilter(Layers(job)) = BuildFileFilter(own)
=============================================================================
