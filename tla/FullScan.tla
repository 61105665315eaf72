------------------------------ MODULE FullScan ------------------------------
(***************************************************************************)
(* scan.Agent: a review of whole files.  Files are grouped into batches;   *)
(* the batches run one after another, the files of a batch beside each     *)
(* other; a budget of tokens ends the dispatch; comments go through the    *)
(* pool to the collector; after a batch near-duplicates are merged, and at *)
(* the end of the scan the comments are summarized, by a call each.        *)
(***************************************************************************)
EXTENDS Selection, Sequences, FiniteSets, SequencesExt

CONSTANTS
  NumFiles,       \* files of the repository, numbered in path order
  KindsOfFile,    \* what each may be: records of FileFacts
  KeyOf,          \* languageKey or firstLevelDirKey of each file
  Strategies, BatchSize, Parallelism, ScanMaxTokens,
  TokenBudget,    \* MaxTokensBudget; 0 is unlimited
  PlanEnabled,
  CallTokens,     \* what a call that merges or summarizes may cost
  ScanFindings,   \* bound: comments of the whole scan
  MaxMerged       \* bound: comments of a batch that are merged

ScanFiles == 1..NumFiles

ASSUME ScanAssumption ==
  /\ NumFiles \in Nat \ {0} /\ KindsOfFile \in [ScanFiles -> SUBSET FileFacts]
  /\ KeyOf \in [ScanFiles -> Nat] /\ Strategies \subseteq {"none", "grouped"}
  /\ BatchSize \in Nat /\ Parallelism \in Nat \ {0}
  /\ {ScanMaxTokens, TokenBudget, CallTokens, ScanFindings} \subseteq Nat /\ PlanEnabled \in BOOLEAN

VARIABLES
  kinds,       \* what each file is
  reusable,    \* files with a checkpoint of the same content
  strategy,
  stage,       \* where Run is
  scanCtx,     \* "live" or "done"
  queue,       \* batches not yet begun
  batch,       \* files of the current batch not yet dispatched
  admitted,    \* the next file has passed the budget's gate
  active,      \* files whose goroutine runs
  located,     \* CommentCollector.comments
  unlocated,   \* comments in the pool
  batchStart,  \* Snapshot of the collector
  spent,       \* tokens recorded by the runner
  late,        \* those of the calls since a file last passed the gate
  dispatched, hardFailed,  \* counters of dispatchSubtasks
  budgetHit,
  fileState,   \* what the session's file says of each file
  uttered,     \* how many comments were made
  scanFailed   \* Run returned an error

scanVars == <<kinds, reusable, strategy, stage, scanCtx, queue, batch, admitted,
              active, located, unlocated, batchStart, spent, late, dispatched,
              hardFailed, budgetHit, fileState, uttered, scanFailed>>
fixed == <<kinds, reusable, strategy>>
counters == <<spent, late, dispatched, hardFailed, uttered>>

Stages == {"enumerate", "next", "dispatch", "dedup", "summary", "over"}

-----------------------------------------------------------------------------
(* groupBatches. *)

GroupKey(s, f) == IF s = "none" THEN f ELSE KeyOf[f]

\* The files before f in its natural group.
Preceding(files, s, f) == {g \in files : GroupKey(s, g) = GroupKey(s, f) /\ g < f}

\* A natural group in chunks of BatchSize, all of it when BatchSize is 0.
ChunkOf(files, s, f) ==
  IF BatchSize = 0 THEN 0 ELSE Cardinality(Preceding(files, s, f)) \div BatchSize

GroupBatches(files, s) ==
  {{g \in files : /\ GroupKey(s, g) = GroupKey(s, f)
                  /\ ChunkOf(files, s, g) = ChunkOf(files, s, f)} : f \in files}

\* Batches are in the order of their keys, files in the order of their paths.
FirstFile(b) == CHOOSE f \in b : \A g \in b : f <= g

FirstBatch(batches, s) ==
  CHOOSE b \in batches : \A c \in batches \ {b} :
    LET f == FirstFile(b)
        g == FirstFile(c)
    IN  \/ GroupKey(s, f) < GroupKey(s, g)
        \/ GroupKey(s, f) = GroupKey(s, g) /\ f < g

-----------------------------------------------------------------------------
(* applyDedupGroups.  A comment stands for the findings merged into it. *)

Memberships(groups) == UNION {{g} \X DOMAIN groups[g] : g \in DOMAIN groups}

\* Mutant of WellGrouped: a comment may be in no group.
NothingTwice(groups, n) ==
  /\ \A g \in DOMAIN groups : groups[g] # <<>>
  /\ \A p, q \in Memberships(groups) : groups[p[1]][p[2]] = groups[q[1]][q[2]] => p = q
  /\ {groups[p[1]][p[2]] : p \in Memberships(groups)} \subseteq 1..n

\* Every id exactly once, no empty group and no unknown id.
WellGrouped(groups, n) ==
  /\ \A g \in DOMAIN groups : groups[g] # <<>>
  /\ \A p, q \in Memberships(groups) : groups[p[1]][p[2]] = groups[q[1]][q[2]] => p = q
  /\ {groups[p[1]][p[2]] : p \in Memberships(groups)} = 1..n

\* The first member stays and stands for all of them: with the content the answer
\* merged or, where it gives none, with its own.
Merged(groups, comments) ==
  [g \in DOMAIN groups |->
     [comments[groups[g][1]] EXCEPT
        !.of = UNION {comments[groups[g][m]].of : m \in DOMAIN groups[g]}]]

\* What the model may answer for n comments: one may be left out, repeated or
\* unknown.
Groupings(n) ==
  LET members == UNION {[1..m -> 1..(n + 1)] : m \in 0..2}
  IN UNION {[1..g -> members] : g \in 0..n}

-----------------------------------------------------------------------------
(* Run up to the dispatch. *)

ScanInit ==
  /\ kinds \in {k \in [ScanFiles -> UNION {KindsOfFile[f] : f \in ScanFiles}] :
                 \A f \in ScanFiles : k[f] \in KindsOfFile[f]}
  /\ reusable \in SUBSET ScanFiles /\ strategy \in Strategies
  /\ stage = "enumerate" /\ scanCtx = "live"
  /\ queue = {} /\ batch = {} /\ admitted = FALSE /\ active = {}
  /\ located = <<>> /\ unlocated = {} /\ batchStart = 0
  /\ spent = 0 /\ late = 0 /\ dispatched = 0 /\ hardFailed = 0 /\ budgetHit = FALSE
  /\ fileState = [f \in ScanFiles |-> "none"] /\ uttered = 0 /\ scanFailed = FALSE

\* Enumerate, filterScanItems and filterLargeScans.
Reviewable ==
  {f \in ScanFiles : Enumerated(kinds[f]) /\ WillReview(kinds[f])
                       /\ ~TooLarge(kinds[f], ScanMaxTokens)}

EnumerateFiles ==
  /\ stage = "enumerate"
  /\ queue' = GroupBatches(Reviewable, strategy)
  /\ stage' = IF Reviewable = {} THEN "over" ELSE "next"
  /\ UNCHANGED <<fixed, scanCtx, batch, admitted, active, located, unlocated,
                 batchStart, counters, budgetHit, fileState, scanFailed>>

\* dispatchSubtasks: the loop over the batches, and its end: an error when
\* every dispatched file failed, whatever was reused.
NextBatch ==
  /\ stage = "next"
  /\ IF queue # {} /\ ~budgetHit
     THEN /\ batch' = FirstBatch(queue, strategy) /\ queue' = queue \ {batch'}
          /\ batchStart' = Len(located)
          /\ stage' = IF scanCtx = "live" THEN "dispatch" ELSE "summary"
          /\ scanFailed' = (scanCtx # "live")
     ELSE /\ stage' = "summary" /\ scanFailed' = (hardFailed > 0 /\ hardFailed = dispatched)
          /\ UNCHANGED <<batch, queue, batchStart>>
  /\ UNCHANGED <<fixed, scanCtx, admitted, active, located, unlocated, counters,
                 budgetHit, fileState>>

-----------------------------------------------------------------------------
(* dispatchBatch. *)

\* A checkpoint's comments are added, without the pool.
ReuseFile ==
  /\ stage = "dispatch" /\ batch # {} /\ ~admitted /\ FirstFile(batch) \in reusable
  /\ batch' = batch \ {FirstFile(batch)}
  /\ located' = Append(located, [path |-> FirstFile(batch), of |-> {0}])
  /\ fileState' = [fileState EXCEPT ![FirstFile(batch)] = "reused"]
  /\ UNCHANGED <<fixed, stage, scanCtx, queue, admitted, active, unlocated,
                 batchStart, counters, budgetHit, scanFailed>>

Estimate(f) == EstimatedTokens(kinds[f], PlanEnabled)

\* Mutant of Affordable: only what was spent counts.
NotYetSpent(f) == TokenBudget = 0 \/ spent <= TokenBudget

Affordable(f) == TokenBudget = 0 \/ spent + Estimate(f) <= TokenBudget

\* The gate before the slot: the file goes on, or dispatch ends here.
BudgetGate ==
  /\ stage = "dispatch" /\ batch # {} /\ ~admitted /\ FirstFile(batch) \notin reusable
  /\ IF Affordable(FirstFile(batch))
     THEN admitted' = TRUE /\ late' = 0 /\ UNCHANGED <<batch, budgetHit>>
     ELSE budgetHit' = TRUE /\ batch' = {} /\ UNCHANGED <<admitted, late>>
  /\ UNCHANGED <<fixed, stage, scanCtx, queue, active, located, unlocated, batchStart,
                 spent, dispatched, hardFailed, uttered, fileState, scanFailed>>

StartSubtask ==
  /\ admitted /\ Cardinality(active) < Parallelism
  /\ admitted' = FALSE /\ batch' = batch \ {FirstFile(batch)}
  /\ active' = active \union {FirstFile(batch)} /\ dispatched' = dispatched + 1
  /\ UNCHANGED <<fixed, stage, scanCtx, queue, located, unlocated, batchStart,
                 spent, late, hardFailed, uttered, budgetHit, fileState, scanFailed>>

\* The select takes ctx.Done: nothing more is dispatched, the error is kept.
StopDispatch ==
  /\ admitted /\ scanCtx = "done"
  /\ admitted' = FALSE /\ batch' = {} /\ queue' = {} /\ scanFailed' = TRUE
  /\ UNCHANGED <<fixed, stage, scanCtx, active, located, unlocated, batchStart,
                 counters, budgetHit, fileState>>

-----------------------------------------------------------------------------
(* executeSubtask. *)

\* RunPerFile: a code_comment call hands a comment to the pool.
SaysComment(f) ==
  /\ f \in active /\ uttered < ScanFindings /\ uttered' = uttered + 1
  /\ unlocated' = unlocated \union {[path |-> f, of |-> {uttered + 1}]}
  /\ UNCHANGED <<fixed, stage, scanCtx, queue, batch, admitted, active, located,
                 batchStart, spent, late, dispatched, hardFailed, budgetHit, fileState,
                 scanFailed>>

PoolAdds ==
  /\ \E c \in unlocated :
       unlocated' = unlocated \ {c} /\ located' = Append(located, c)
  /\ UNCHANGED <<fixed, stage, scanCtx, queue, batch, admitted, active, batchStart,
                 counters, budgetHit, fileState, scanFailed>>

\* The goroutine ends and its tokens are counted, no more than estimated.  A
\* prompt over the limit is neither completed nor failed: the file keeps no
\* record ("silent").
EndSubtask(f) ==
  /\ f \in active /\ active' = active \ {f}
  /\ spent' \in {spent, spent + Estimate(f)}
  /\ \E end \in {"completed", "failed", "silent"} :
       /\ end = "completed" => scanCtx = "live"
       /\ fileState' = IF end = "silent" THEN fileState ELSE [fileState EXCEPT ![f] = end]
       /\ hardFailed' = IF end = "failed" THEN hardFailed + 1 ELSE hardFailed
  /\ UNCHANGED <<fixed, stage, scanCtx, queue, batch, admitted, located, unlocated,
                 batchStart, late, dispatched, uttered, budgetHit, scanFailed>>

\* wg.Wait, then recordCompleted and dispatchSubtasks wait for the pool.
BatchDrained ==
  /\ stage = "dispatch" /\ batch = {} /\ active = {} /\ unlocated = {}
  /\ stage' = IF scanFailed THEN "summary" ELSE "dedup"
  /\ UNCHANGED <<fixed, scanCtx, queue, batch, admitted, active, located, unlocated,
                 batchStart, counters, budgetHit, fileState, scanFailed>>

Since(start) == SubSeq(located, start + 1, Len(located))

\* RecordUsage of a call beside the files, on the total the gate reads.
CallCosts(cost) == spent' = spent + cost /\ late' = late + cost

\* maybeRunDedup: a call that fails, or one not made, leaves all as it is; an
\* answer is paid for and merges comments when it is a grouping.
Dedup ==
  /\ stage = "dedup" /\ stage' = "next"
  /\ LET comments == Since(batchStart)
         n == Len(comments)
     IN \/ UNCHANGED <<located, spent, late>>
        \/ /\ n >= 2 /\ scanCtx = "live" /\ CallCosts(CallTokens)
           /\ located' \in {located} \union
                (IF n > MaxMerged THEN {}
                 ELSE {SubSeq(located, 1, batchStart) \o Merged(g, comments) :
                         g \in {a \in Groupings(n) : Len(a) < n /\ WellGrouped(a, n)}})
  /\ UNCHANGED <<fixed, scanCtx, queue, batch, admitted, active, unlocated, batchStart,
                 dispatched, hardFailed, uttered, budgetHit, fileState, scanFailed>>

\* maybeRunProjectSummary, over what dispatchSubtasks returned, and Finalize.
Summarize ==
  /\ stage = "summary" /\ stage' = "over"
  /\ \/ UNCHANGED <<spent, late>>
     \/ located # <<>> /\ ~scanFailed /\ scanCtx = "live" /\ CallCosts(CallTokens)
  /\ UNCHANGED <<fixed, scanCtx, queue, batch, admitted, active, located, unlocated, batchStart,
                 dispatched, hardFailed, uttered, budgetHit, fileState, scanFailed>>

\* The caller cancels.
CancelScan ==
  /\ scanCtx = "live" /\ stage # "over" /\ scanCtx' = "done"
  /\ UNCHANGED <<fixed, stage, queue, batch, admitted, active, located, unlocated,
                 batchStart, counters, budgetHit, fileState, scanFailed>>

ScanNext ==
  \/ EnumerateFiles \/ NextBatch \/ ReuseFile \/ BudgetGate \/ StartSubtask
  \/ StopDispatch \/ PoolAdds \/ BatchDrained \/ Dedup \/ Summarize \/ CancelScan
  \/ \E f \in ScanFiles : SaysComment(f) \/ EndSubtask(f)

ScanSpec == ScanInit /\ [][ScanNext]_scanVars

-----------------------------------------------------------------------------
(* Properties. *)

\* The variables keep their types.
ScanTypeOK ==
  /\ stage \in Stages /\ scanCtx \in {"live", "done"}
  /\ active \subseteq ScanFiles /\ Cardinality(active) <= Parallelism
  /\ fileState \in [ScanFiles -> {"none", "reused", "completed", "failed"}]
  /\ spent \in Nat /\ dispatched \in 0..NumFiles /\ hardFailed \in 0..dispatched
  /\ batchStart \in 0..Len(located)

\* What the dearest file is estimated to cost.
Dearest == CHOOSE t \in {Estimate(f) : f \in ScanFiles} : \A f \in ScanFiles : Estimate(f) <= t

\* "overrun bounded by roughly one in-flight file per worker": with no file
\* dearer than its estimate, the budget is exceeded by no more than one file
\* for each slot, although the gate does not count the files in flight, and by
\* the calls made after the last file that passed the gate: without
\* checkpoints, one that merges and one that summarizes.
OverrunBounded ==
  /\ TokenBudget > 0 => spent <= TokenBudget + Parallelism * Dearest + late
  /\ reusable = {} => late <= 2 * CallTokens

\* No finding is lost between the pool, the collector and the merging of
\* near-duplicates, in this batch or an earlier one, and none is there twice.
ScanKeepsFindings ==
  LET held == UNION {c.of : c \in ToSet(located) \union unlocated}
  IN /\ ScanTypeOK
     /\ 1..uttered \subseteq held
     /\ \A i, j \in DOMAIN located :
          i # j => located[i].of \intersect located[j].of \subseteq {0}
=============================================================================
