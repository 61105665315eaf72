------------------------- MODULE ReviewStoreProofs -------------------------
(***************************************************************************)
(* What every run of the review_job statements guarantees, for any number  *)
(* of merge requests, commits, workers and attempts, in any order of the   *)
(* calls.                                                                  *)
(***************************************************************************)
EXTENDS ReviewStore, TLAPS

\* A row that is well typed and whose lease fits its state.
RowOK(row) == row \in Row /\ LeaseFits(row)

StoreInv ==
  /\ DOMAIN job = Revisions
  /\ job = [r \in Revisions |-> job[r]]
  /\ \A r \in Revisions : RowOK(job[r])
  /\ nextId \in Nat \ {0}

\* The invariant the induction uses says no more than the two checked ones.
LEMMA StoreInvIsSound == StoreInv <=> StoreSound
BY DEF StoreInv, StoreSound, StoreTypeOK, LeaseMatchesState, RowOK

-----------------------------------------------------------------------------
(* Rows the statements write. *)

\* The columns of an INSERT, defaults included, are well typed.
LEMMA NewRowType == NewRow \in Row
<1>1. 0 \in PriorityRange
  BY DEF PriorityRange, PriorityLimit
<1> QED BY <1>1 DEF NewRow, Row, Stages, Leases, Active, Waiting

\* So is a row that resumes a session, and it is not leased.
LEMMA NewRowOK ==
  ASSUME StoreAssumption,
         NEW id \in Nat, NEW rule \in Rules \union {NoRule},
         NEW session \in Sessions \union {NoSession}
  PROVE  RowOK([NewRow EXCEPT !.id = id, !.rule = rule, !.session = session])
<1> DEFINE row == [NewRow EXCEPT !.id = id, !.rule = rule, !.session = session]
<1>1. row \in Row
  BY NewRowType DEF Row
<1>2. row.owner = NoOwner /\ row.state = "queued" /\ row.lease = "none"
  BY DEF NewRow
<1> QED BY <1>1, <1>2 DEF RowOK, LeaseFits

\* Enqueue's superseding of any row leaves it well formed.
LEMMA SupersededOK ==
  ASSUME StoreAssumption, NEW row \in Row
  PROVE  RowOK(Superseded(row))
BY DEF Superseded, RowOK, Row, LeaseFits, Stages, Leases, Terminal

\* So does the recovery of any row.
LEMMA InterruptedOK ==
  ASSUME StoreAssumption, NEW row \in Row
  PROVE  RowOK(Interrupted(row))
BY DEF Interrupted, RowOK, Row, LeaseFits, Stages, Leases, Active, Waiting

\* Whatever an administrator gives, SetPriority stores a value in range.
LEMMA ClampedType ==
  ASSUME NEW prio \in Int
  PROVE  Clamped(prio) \in PriorityRange
BY DEF Clamped, PriorityRange, PriorityLimit

\* A statement that rewrites one row keeps the invariant if the row it writes
\* is well formed.
LEMMA OneRowWritten ==
  ASSUME StoreInv, NEW r \in Revisions, NEW row, RowOK(row),
         job' = [job EXCEPT ![r] = row], UNCHANGED nextId
  PROVE  StoreInv'
BY DEF StoreInv

\* The invariant holds of the empty table.
LEMMA StoreInit1 == ASSUME StoreAssumption PROVE StoreInit => StoreInv
<1> SUFFICES ASSUME StoreInit PROVE StoreInv
  OBVIOUS
<1>1. RowOK(NewRow)
  BY DEF NewRow, RowOK, Row, LeaseFits, Stages, Leases, Active, Waiting,
         PriorityRange, PriorityLimit
<1> QED BY <1>1 DEF StoreInit, StoreInv

\* Claim takes owner and lease together.
LEMMA ClaimStep ==
  ASSUME StoreAssumption, StoreInv, NEW r \in Revisions, NEW w \in Workers,
         Claim(w, r)
  PROVE  StoreInv'
<1> DEFINE row == [job[r] EXCEPT !.state = "running", !.stage = "rule_preflight",
                                 !.owner = w, !.lease = "future",
                                 !.attempt = job[r].attempt + 1]
<1>1. RowOK(job[r]) /\ Exists(r)
  BY DEF StoreInv, Claim, FirstInQueue, Claimable
<1>2. job[r].attempt + 1 \in Nat
  BY <1>1 DEF RowOK, Row
<1>3. row \in Row
  BY <1>1, <1>2 DEF RowOK, Row, Stages, Leases, Active
<1>4. LeaseFits(row)
  BY <1>1 DEF RowOK, Row, LeaseFits, Exists, StoreAssumption
<1>5. job' = [job EXCEPT ![r] = row]
  BY DEF Claim, StoreInv
<1>6. UNCHANGED nextId
  BY DEF Claim
<1> QED BY <1>3, <1>4, <1>5, <1>6, OneRowWritten DEF RowOK

\* SetStage leaves state and lease alone.
LEMMA SetStageStep ==
  ASSUME StoreAssumption, StoreInv, NEW r \in Revisions,
         NEW stage \in WorkStages, SetStage(r, stage)
  PROVE  StoreInv'
<1> DEFINE row == [job[r] EXCEPT !.stage = stage]
<1>1. RowOK(job[r])
  BY DEF StoreInv
<1>2. RowOK(row)
  BY <1>1 DEF RowOK, Row, LeaseFits, Stages
<1>3. job' = [job EXCEPT ![r] = row] /\ UNCHANGED nextId
  BY DEF SetStage
<1> QED BY <1>2, <1>3, OneRowWritten

\* So does SetGitMetadata,
LEMMA SetGitMetadataStep ==
  ASSUME StoreAssumption, StoreInv, NEW r \in Revisions,
         NEW rule \in Rules \union {NoRule}, SetGitMetadata(r, rule)
  PROVE  StoreInv'
<1> DEFINE row == [job[r] EXCEPT !.rule = rule]
<1>1. RowOK(job[r])
  BY DEF StoreInv
<1>2. RowOK(row)
  BY <1>1 DEF RowOK, Row, LeaseFits
<1>3. job' = [job EXCEPT ![r] = row] /\ UNCHANGED nextId
  BY DEF SetGitMetadata
<1> QED BY <1>2, <1>3, OneRowWritten

\* SetLLMMetadata,
LEMMA SetLLMMetadataStep ==
  ASSUME StoreAssumption, StoreInv, NEW r \in Revisions,
         NEW session \in Sessions, SetLLMMetadata(r, session)
  PROVE  StoreInv'
<1> DEFINE row == [job[r] EXCEPT !.session = session]
<1>1. RowOK(job[r])
  BY DEF StoreInv
<1>2. RowOK(row)
  BY <1>1 DEF RowOK, Row, LeaseFits
<1>3. job' = [job EXCEPT ![r] = row] /\ UNCHANGED nextId
  BY DEF SetLLMMetadata
<1> QED BY <1>2, <1>3, OneRowWritten

\* and SetUsage, whether or not it stores the total it is given.
LEMMA SetUsageStep ==
  ASSUME StoreAssumption, StoreInv, NEW r \in Revisions,
         NEW tokens \in TokenCounts, SetUsage(r, tokens)
  PROVE  StoreInv'
<1> DEFINE row == [job[r] EXCEPT !.tokens = tokens]
<1>1. RowOK(job[r]) /\ tokens \in Nat
  BY DEF StoreInv, StoreAssumption
<1>2. RowOK(row)
  BY <1>1 DEF RowOK, Row, LeaseFits
<1>3. UNCHANGED nextId /\ (job' = [job EXCEPT ![r] = row] \/ job' = job)
  BY DEF SetUsage
<1>4. CASE job' = job
  BY <1>3, <1>4 DEF StoreInv
<1> QED BY <1>2, <1>3, <1>4, OneRowWritten

\* Finish releases the lease of any row it ends, whoever owns it by then.
LEMMA FinishStep ==
  ASSUME StoreAssumption, StoreInv, NEW r \in Revisions,
         NEW state \in Outcomes, NEW tokens \in TokenCounts,
         Finish(r, state, tokens)
  PROVE  StoreInv'
<1> DEFINE row == [job[r] EXCEPT !.state = state, !.stage = "finished",
                                 !.tokens = tokens, !.finished = TRUE,
                                 !.owner = NoOwner, !.lease = "none"]
<1>1. RowOK(job[r]) /\ tokens \in Nat
  BY DEF StoreInv, StoreAssumption
<1>2. state \in Active \union Terminal /\ state # "running"
  BY DEF Outcomes, Terminal, Retryable
<1>3. row \in Row
  BY <1>1, <1>2 DEF RowOK, Row, Stages, Leases
<1>4. LeaseFits(row)
  BY <1>1, <1>2 DEF RowOK, Row, LeaseFits
<1>5. UNCHANGED nextId /\ (job' = [job EXCEPT ![r] = row] \/ job' = job)
  BY DEF Finish
<1>6. CASE job' = job
  BY <1>5, <1>6 DEF StoreInv
<1> QED BY <1>3, <1>4, <1>5, <1>6, OneRowWritten DEF RowOK

\* RetryAfter gives the lease up and keeps its time for the backoff.
LEMMA RetryAfterStep ==
  ASSUME StoreAssumption, StoreInv, NEW r \in Revisions,
         NEW tokens \in TokenCounts, RetryAfter(r, tokens)
  PROVE  StoreInv'
<1> DEFINE row == [job[r] EXCEPT !.state = "retry_wait", !.stage = "queued",
                                 !.tokens = tokens,
                                 !.owner = NoOwner, !.lease = "future"]
<1>1. RowOK(job[r]) /\ tokens \in Nat
  BY DEF StoreInv, StoreAssumption
<1>2. row \in Row
  BY <1>1 DEF RowOK, Row, Stages, Leases, Active, Waiting
<1>3. LeaseFits(row)
  BY <1>1 DEF RowOK, Row, LeaseFits
<1>4. UNCHANGED nextId /\ (job' = [job EXCEPT ![r] = row] \/ job' = job)
  BY DEF RetryAfter
<1>5. CASE job' = job
  BY <1>4, <1>5 DEF StoreInv
<1> QED BY <1>2, <1>3, <1>4, <1>5, OneRowWritten DEF RowOK

\* CancelReview takes the lease away from a worker that still runs.
LEMMA CancelReviewStep ==
  ASSUME StoreAssumption, StoreInv, NEW r \in Revisions, CancelReview(r)
  PROVE  StoreInv'
<1> DEFINE row == [job[r] EXCEPT !.state = "canceled", !.stage = "finished",
                                 !.finished = TRUE,
                                 !.owner = NoOwner, !.lease = "none"]
<1>1. RowOK(job[r])
  BY DEF StoreInv
<1>2. row \in Row
  BY <1>1 DEF RowOK, Row, Stages, Leases, Terminal, Retryable
<1>3. LeaseFits(row)
  BY <1>1 DEF RowOK, Row, LeaseFits
<1>4. job' = [job EXCEPT ![r] = row] /\ UNCHANGED nextId
  BY DEF CancelReview
<1> QED BY <1>2, <1>3, <1>4, OneRowWritten DEF RowOK

\* RetryReview queues the row without owner or lease.
LEMMA RetryReviewStep ==
  ASSUME StoreAssumption, StoreInv, NEW r \in Revisions, RetryReview(r)
  PROVE  StoreInv'
<1> DEFINE row == [job[r] EXCEPT !.state = "queued", !.stage = "queued",
                                 !.finished = FALSE,
                                 !.owner = NoOwner, !.lease = "none"]
<1>1. RowOK(job[r])
  BY DEF StoreInv
<1>2. row \in Row
  BY <1>1 DEF RowOK, Row, Stages, Leases, Active, Waiting
<1>3. LeaseFits(row)
  BY <1>1 DEF RowOK, Row, LeaseFits
<1>4. job' = [job EXCEPT ![r] = row] /\ UNCHANGED nextId
  BY DEF RetryReview
<1> QED BY <1>2, <1>3, <1>4, OneRowWritten DEF RowOK

\* SetPriority stays in range and leaves the lease alone.
LEMMA SetPriorityStep ==
  ASSUME StoreAssumption, StoreInv, NEW r \in Revisions,
         NEW prio \in Priorities, SetPriority(r, prio)
  PROVE  StoreInv'
<1> DEFINE row == [job[r] EXCEPT !.prio = Clamped(prio)]
<1>1. RowOK(job[r])
  BY DEF StoreInv
<1>2. Clamped(prio) \in PriorityRange
  BY ClampedType DEF StoreAssumption
<1>3. RowOK(row)
  BY <1>1, <1>2 DEF RowOK, Row, LeaseFits
<1>4. job' = [job EXCEPT ![r] = row] /\ UNCHANGED nextId
  BY DEF SetPriority
<1> QED BY <1>3, <1>4, OneRowWritten

\* Time alone never makes a row lose its lease.
LEMMA LeaseExpiresStep ==
  ASSUME StoreAssumption, StoreInv, NEW r \in Revisions, LeaseExpires(r)
  PROVE  StoreInv'
<1> DEFINE row == [job[r] EXCEPT !.lease = "past"]
<1>1. RowOK(job[r])
  BY DEF StoreInv
<1>2. row \in Row
  BY <1>1 DEF RowOK, Row, Leases
<1>3. LeaseFits(row)
  BY <1>1 DEF RowOK, Row, LeaseFits, LeaseExpires
<1>4. job' = [job EXCEPT ![r] = row] /\ UNCHANGED nextId
  BY DEF LeaseExpires
<1> QED BY <1>2, <1>3, <1>4, OneRowWritten DEF RowOK

\* The statements that write several rows.
LEMMA EnqueueStep ==
  ASSUME StoreAssumption, StoreInv, NEW r \in Revisions, Enqueue(r)
  PROVE  StoreInv'
<1>1. PICK from \in Resumable(r.mr) :
        /\ job' = [q \in Revisions |->
                     IF q = r /\ ~Exists(r)
                       THEN [NewRow EXCEPT !.id = nextId, !.rule = from.rule,
                                           !.session = from.session]
                     ELSE IF q # r /\ q.mr = r.mr /\ IsActive(q)
                       THEN Superseded(job[q])
                     ELSE job[q]]
        /\ nextId' = IF Exists(r) THEN nextId ELSE nextId + 1
  BY DEF Enqueue
<1>2. from.rule \in Rules \union {NoRule}
      /\ from.session \in Sessions \union {NoSession}
  BY DEF Resumable, StoreInv, RowOK, Row
<1>3. RowOK([NewRow EXCEPT !.id = nextId, !.rule = from.rule,
                           !.session = from.session])
  BY <1>2, NewRowOK DEF StoreInv
<1>4. \A q \in Revisions : RowOK(job[q]) /\ RowOK(Superseded(job[q]))
  BY SupersededOK DEF StoreInv, RowOK
<1>5. \A q \in Revisions : RowOK(job'[q])
  BY <1>1, <1>3, <1>4
<1>6. nextId' \in Nat \ {0}
  BY <1>1 DEF StoreInv
<1> QED BY <1>1, <1>5, <1>6 DEF StoreInv

\* Both recoveries, over all rows at once.
LEMMA RecoverStep ==
  ASSUME StoreAssumption, StoreInv, RecoverInterrupted \/ RecoverExpired
  PROVE  StoreInv'
<1>1. \A q \in Revisions : RowOK(job[q]) /\ RowOK(Interrupted(job[q]))
  BY InterruptedOK DEF StoreInv, RowOK
<1>2. \A q \in Revisions : RowOK(job'[q])
  BY <1>1 DEF RecoverInterrupted, RecoverExpired
<1> QED BY <1>2 DEF StoreInv, RecoverInterrupted, RecoverExpired

-----------------------------------------------------------------------------
\* Every statement preserves the invariant: one step per disjunct.
LEMMA StoreInvStep ==
  ASSUME StoreAssumption, StoreInv, [StoreNext]_storeVars
  PROVE  StoreInv'
<1>1. CASE UNCHANGED storeVars
  BY <1>1 DEF StoreInv, storeVars
<1>2. CASE RecoverInterrupted \/ RecoverExpired
  BY <1>2, RecoverStep
<1>3. ASSUME NEW r \in Revisions, Enqueue(r) PROVE StoreInv'
  BY <1>3, EnqueueStep
<1>4. ASSUME NEW r \in Revisions, NEW w \in Workers, Claim(w, r)
      PROVE StoreInv'
  BY <1>4, ClaimStep
<1>5. ASSUME NEW r \in Revisions, NEW stage \in WorkStages, SetStage(r, stage)
      PROVE StoreInv'
  BY <1>5, SetStageStep
<1>6. ASSUME NEW r \in Revisions, NEW rule \in Rules \union {NoRule},
             SetGitMetadata(r, rule)
      PROVE StoreInv'
  BY <1>6, SetGitMetadataStep
<1>7. ASSUME NEW r \in Revisions, NEW session \in Sessions,
             SetLLMMetadata(r, session)
      PROVE StoreInv'
  BY <1>7, SetLLMMetadataStep
<1>8. ASSUME NEW r \in Revisions, NEW tokens \in TokenCounts,
             SetUsage(r, tokens) \/ RetryAfter(r, tokens)
      PROVE StoreInv'
  BY <1>8, SetUsageStep, RetryAfterStep
<1>9. ASSUME NEW r \in Revisions, NEW state \in Outcomes,
             NEW tokens \in TokenCounts, Finish(r, state, tokens)
      PROVE StoreInv'
  BY <1>9, FinishStep
<1>10. ASSUME NEW r \in Revisions,
              CancelReview(r) \/ RetryReview(r) \/ LeaseExpires(r)
       PROVE StoreInv'
  BY <1>10, CancelReviewStep, RetryReviewStep, LeaseExpiresStep
<1>11. ASSUME NEW r \in Revisions, NEW prio \in Priorities,
              SetPriority(r, prio)
       PROVE StoreInv'
  BY <1>11, SetPriorityStep
<1> QED
  BY <1>1, <1>2, <1>3, <1>4, <1>5, <1>6, <1>7, <1>8, <1>9, <1>10, <1>11
     DEF StoreNext

\* The inductive invariant holds in every state the statements reach.
THEOREM StoreInvariant == StoreSpec => []StoreInv
<1> USE StoreAssumption
<1>1. StoreInit => StoreInv
  BY StoreInit1
<1>2. StoreInv /\ [StoreNext]_storeVars => StoreInv'
  BY StoreInvStep
<1> QED BY <1>1, <1>2, PTL DEF StoreSpec

\* Every row always has a state, stage, lease and owner the code knows, and
\* exactly the running rows are owned and leased, whatever the callers do.
THEOREM StoreStaysSound == StoreSpec => []StoreSound
BY StoreInvariant, StoreInvIsSound, PTL

-----------------------------------------------------------------------------
(* Rows are inserted by Enqueue alone, and a stale row is kept by all.     *)

StaleKept ==
  \A q \in Revisions :
    Exists(q) /\ job[q].state = "stale"
      => job'[q].id = job[q].id /\ job'[q].state = "stale"

IdsKept == \A q \in Revisions : job'[q].id = job[q].id

\* Enqueue does not touch a stale row, not even that of its own revision.
LEMMA EnqueueKeeps ==
  ASSUME StoreInv, NEW r \in Revisions, Enqueue(r)
  PROVE  StaleKept
BY DEF StoreInv, StaleKept, Enqueue, IsActive, Exists, Active, Waiting

\* Nor does any other statement.
LEMMA OtherStepsKeep ==
  ASSUME StoreInv, [StoreNext]_storeVars, ~ \E r \in Revisions : Enqueue(r)
  PROVE  StaleKept /\ IdsKept
<1>1. CASE UNCHANGED storeVars
  BY <1>1 DEF storeVars, StaleKept, IdsKept
<1>2. CASE RecoverInterrupted \/ RecoverExpired
  <2>1. ASSUME NEW q \in Revisions
        PROVE  /\ job[q] \in Row
               /\ job'[q] = job[q] \/ job'[q] = Interrupted(job[q])
               /\ job[q].state = "stale" => job'[q] = job[q]
    BY <1>2 DEF RecoverInterrupted, RecoverExpired, StoreInv, RowOK
  <2>2. ASSUME NEW row \in Row PROVE Interrupted(row).id = row.id
    BY DEF Interrupted, Row
  <2>3. StaleKept
    BY <2>1 DEF StaleKept
  <2>4. IdsKept
    BY <2>1, <2>2 DEF IdsKept
  <2> QED BY <2>3, <2>4
<1>3. ASSUME NEW r \in Revisions, NEW w \in Workers, Claim(w, r)
      PROVE StaleKept /\ IdsKept
  BY <1>3 DEF Claim, FirstInQueue, Claimable, Waiting, StaleKept, IdsKept,
              StoreInv, RowOK, Row
<1>4. ASSUME NEW r \in Revisions, NEW stage \in WorkStages, SetStage(r, stage)
      PROVE StaleKept /\ IdsKept
  BY <1>4 DEF SetStage, StaleKept, IdsKept, StoreInv, RowOK, Row
<1>5. ASSUME NEW r \in Revisions, NEW rule \in Rules \union {NoRule},
             SetGitMetadata(r, rule)
      PROVE StaleKept /\ IdsKept
  BY <1>5 DEF SetGitMetadata, StaleKept, IdsKept, StoreInv, RowOK, Row
<1>6. ASSUME NEW r \in Revisions, NEW session \in Sessions,
             SetLLMMetadata(r, session)
      PROVE StaleKept /\ IdsKept
  BY <1>6 DEF SetLLMMetadata, StaleKept, IdsKept, StoreInv, RowOK, Row
<1>7. ASSUME NEW r \in Revisions, NEW tokens \in TokenCounts,
             SetUsage(r, tokens)
      PROVE StaleKept /\ IdsKept
  BY <1>7 DEF SetUsage, StaleKept, IdsKept, StoreInv, RowOK, Row
<1>8. ASSUME NEW r \in Revisions, NEW tokens \in TokenCounts,
             RetryAfter(r, tokens)
      PROVE StaleKept /\ IdsKept
  BY <1>8 DEF RetryAfter, StaleKept, IdsKept, StoreInv, RowOK, Row
<1>9. ASSUME NEW r \in Revisions, NEW state \in Outcomes,
             NEW tokens \in TokenCounts, Finish(r, state, tokens)
      PROVE StaleKept /\ IdsKept
  BY <1>9 DEF Finish, StaleKept, IdsKept, StoreInv, RowOK, Row
<1>10. ASSUME NEW r \in Revisions, CancelReview(r)
       PROVE StaleKept /\ IdsKept
  BY <1>10 DEF CancelReview, IsActive, Active, Waiting, StaleKept, IdsKept,
               StoreInv, RowOK, Row
<1>11. ASSUME NEW r \in Revisions, RetryReview(r)
       PROVE StaleKept /\ IdsKept
  BY <1>11 DEF RetryReview, Retryable, StaleKept, IdsKept, StoreInv, RowOK, Row
<1>12. ASSUME NEW r \in Revisions, NEW prio \in Priorities,
              SetPriority(r, prio)
       PROVE StaleKept /\ IdsKept
  BY <1>12 DEF SetPriority, StaleKept, IdsKept, StoreInv, RowOK, Row
<1>13. ASSUME NEW r \in Revisions, LeaseExpires(r)
       PROVE StaleKept /\ IdsKept
  BY <1>13 DEF LeaseExpires, StaleKept, IdsKept, StoreInv, RowOK, Row
<1> QED
  BY <1>1, <1>2, <1>3, <1>4, <1>5, <1>6, <1>7, <1>8, <1>9, <1>10, <1>11,
     <1>12, <1>13 DEF StoreNext

\* A superseded revision never comes back to work, whatever is called late.
THEOREM StaleStaysFinal == StoreSpec => StaleIsFinal
<1>1. StoreInv /\ [StoreNext]_storeVars => StaleKept
  BY EnqueueKeeps, OtherStepsKeep
<1>2. StaleKept => \A r \in Revisions :
        Exists(r) /\ job[r].state = "stale"
          => job'[r].id = job[r].id /\ job'[r].state = "stale"
  BY DEF StaleKept
<1> QED BY <1>1, <1>2, StoreInvariant, PTL DEF StoreSpec, StaleIsFinal

-----------------------------------------------------------------------------
(* Where a second active row of a merge request can come from.             *)

OnlyActiveOnce(m) == \A r, q \in ActiveOf(m) : r = q

\* A merge request with at most one active row has at most one after Enqueue.
LEMMA EnqueueLeavesOne ==
  ASSUME StoreInv, NEW r \in Revisions, Enqueue(r), NEW m \in MRs,
         OnlyActiveOnce(m)
  PROVE  \A p, q \in ActiveOf(m)' : p = q
<1>1. \A q \in Revisions \ {r} :
        job'[q] = IF q.mr = r.mr /\ IsActive(q)
                    THEN Superseded(job[q]) ELSE job[q]
  BY DEF Enqueue
<1>2. CASE m = r.mr
  <2>1. ASSUME NEW q \in Revisions \ {r}, q.mr = m, job'[q].id # 0,
               job'[q].state \in Active
        PROVE  FALSE
    <3>1. CASE IsActive(q)
      <4>1. job'[q] = Superseded(job[q]) /\ job[q] \in Row
        BY <1>1, <1>2, <2>1, <3>1 DEF StoreInv, RowOK
      <4>2. job'[q].state = "stale"
        BY <4>1 DEF Superseded, Row
      <4> QED BY <2>1, <4>2 DEF Active, Waiting
    <3>2. CASE ~IsActive(q)
      BY <1>1, <2>1, <3>2 DEF IsActive, Exists
    <3> QED BY <3>1, <3>2
  <2> QED BY <2>1 DEF ActiveOf, IsActive, Exists
<1>3. CASE m # r.mr
  <2>1. \A q \in Revisions : q.mr = m => job'[q] = job[q]
    BY <1>1, <1>3
  <2>2. ActiveOf(m)' = ActiveOf(m)
    BY <2>1 DEF ActiveOf, IsActive, Exists
  <2> QED BY <2>2 DEF OnlyActiveOnce
<1> QED BY <1>2, <1>3

\* No other statement makes a row active that was not, unless it had ended.
LEMMA OthersOnlyReactivate ==
  ASSUME StoreInv, IdsKept, NEW m \in MRs, OnlyActiveOnce(m),
         NEW p \in ActiveOf(m)', NEW q \in ActiveOf(m)', p # q
  PROVE  Reactivated(m)
<1>1. /\ p \in Revisions /\ q \in Revisions /\ p.mr = m /\ q.mr = m
      /\ Exists(p) /\ Exists(q)
  BY DEF ActiveOf, IsActive, Exists, IdsKept
<1>2. /\ job[p].state \in Active \union Terminal
      /\ job[q].state \in Active \union Terminal
  BY <1>1 DEF StoreInv, RowOK, Row
<1>3. ~(job[p].state \in Active /\ job[q].state \in Active)
  BY <1>1 DEF OnlyActiveOnce, ActiveOf, IsActive
<1> QED BY <1>1, <1>2, <1>3 DEF Reactivated

\* Discovery never makes two revisions of a merge request compete, for any
\* number of revisions: a second active row was brought back by a retry.
THEOREM SecondActiveNeedsRetry == StoreSpec => SecondActiveIsReactivated
<1> DEFINE A == \A m \in MRs :
       (/\ \A r, q \in ActiveOf(m) : r = q
        /\ ~ \A r, q \in ActiveOf(m)' : r = q) => Reactivated(m)
<1>1. ASSUME StoreInv, [StoreNext]_storeVars PROVE A
  <2> SUFFICES ASSUME NEW m \in MRs, OnlyActiveOnce(m),
                      ~ \A r, q \in ActiveOf(m)' : r = q
               PROVE  Reactivated(m)
    BY DEF OnlyActiveOnce
  <2>1. ~ \E r \in Revisions : Enqueue(r)
    BY <1>1, EnqueueLeavesOne
  <2>2. IdsKept
    BY <1>1, <2>1, OtherStepsKeep
  <2> QED BY <1>1, <2>2, OthersOnlyReactivate
<1>2. StoreInv /\ [StoreNext]_storeVars => A
  BY <1>1
<1> QED BY <1>2, StoreInvariant, PTL DEF StoreSpec, SecondActiveIsReactivated

=============================================================================
