---------------------------- MODULE ReviewStore ----------------------------
(***************************************************************************)
(* The review_job table of internal/store and every statement that writes  *)
(* it.  The database handle is limited to one connection, so a statement   *)
(* (or the transaction of Enqueue and Claim) is one atomic step; what the  *)
(* callers do between two statements is not, and StoreNext lets them come  *)
(* in any order, from clients that may be arbitrarily late.                *)
(*                                                                         *)
(* A row is found by the UNIQUE(project, mr, head, target) constraint, so  *)
(* the table is a function of that revision; a row with id 0 does not      *)
(* exist.  A time is abstracted to what the statements compare: lease_until*)
(* is NULL, in the future or in the past; finished_at is set or NULL;      *)
(* queued_at, written once by the INSERT, orders rows as their ids do.     *)
(***************************************************************************)
EXTENDS Integers, FiniteSets

CONSTANTS
  MRs,            \* merge requests, (project_id, mr_iid)
  Heads,          \* source branch commits
  Targets,        \* target branch commits
  Workers,        \* lease owners
  NoOwner,        \* lease_owner = ''
  Sessions,       \* OCR session ids
  NoSession,      \* session_id = ''
  Rules,          \* digests of review rules
  NoRule,         \* rule_sha256 = '': no rule file, or none read yet
  WorkStages,     \* stages a worker passes to SetStage
  Priorities,     \* priorities an administrator gives
  TokenCounts,    \* token totals an attempt reports
  AttemptBound    \* bound: a row is claimed at most this often

ASSUME StoreAssumption ==
  /\ NoOwner \notin Workers
  /\ NoSession \notin Sessions
  /\ NoRule \notin Rules
  /\ Priorities \subseteq Int
  /\ TokenCounts \subseteq Nat /\ 0 \in TokenCounts
  /\ AttemptBound \in Nat

VARIABLES
  job,            \* the table
  nextId          \* the next AUTOINCREMENT id

storeVars == <<job, nextId>>

Revisions == [mr : MRs, head : Heads, target : Targets]

Waiting == {"queued", "retry_wait"}
Active == Waiting \union {"running", "publishing"}
Retryable == {"failed_infra", "completed_fail", "rejected_rule_missing",
              "rejected_rule_invalid", "canceled"}
Terminal == Retryable \union {"completed_pass", "stale"}

\* The states the workers pass to Finish.
Outcomes == {"completed_pass", "completed_fail", "rejected_rule_invalid",
             "failed_infra", "stale"}

Stages == WorkStages \union {"queued", "rule_preflight", "finished"}

PriorityLimit == 1000
PriorityRange == -PriorityLimit .. PriorityLimit

Leases == {"none", "future", "past"}

Row == [id : Nat, state : Active \union Terminal, stage : Stages,
        prio : PriorityRange, attempt : Nat, owner : Workers \union {NoOwner},
        lease : Leases, rule : Rules \union {NoRule},
        session : Sessions \union {NoSession}, tokens : Nat,
        finished : BOOLEAN]

NewRow == [id |-> 0, state |-> "queued", stage |-> "queued", prio |-> 0,
           attempt |-> 0, owner |-> NoOwner, lease |-> "none",
           rule |-> NoRule, session |-> NoSession, tokens |-> 0,
           finished |-> FALSE]

Exists(r) == job[r].id # 0
IsActive(r) == Exists(r) /\ job[r].state \in Active
ActiveOf(m) == {r \in Revisions : r.mr = m /\ IsActive(r)}

StoreInit ==
  /\ job = [r \in Revisions |-> NewRow]
  /\ nextId = 1

-----------------------------------------------------------------------------
(* Enqueue: in one transaction, look up the session to resume, make every  *)
(* other active revision of the merge request stale, and insert.           *)

\* What the newest row of m with a session hands to a new row.
Resumable(m) ==
  LET withSession == {r \in Revisions : /\ r.mr = m /\ Exists(r)
                                        /\ job[r].session # NoSession}
      newest == {r \in withSession :
                   \A q \in withSession : job[q].id <= job[r].id}
  IN IF newest = {}
       THEN {[session |-> NoSession, rule |-> NoRule]}
       ELSE {[session |-> job[r].session, rule |-> job[r].rule] : r \in newest}

Superseded(row) == [row EXCEPT !.state = "stale", !.stage = "finished",
                               !.owner = NoOwner, !.lease = "none",
                               !.finished = TRUE]

\* Mutant of Enqueue: only queued revisions are superseded.
EnqueueOverQueued(r) ==
  \E from \in Resumable(r.mr) :
    /\ job' = [q \in Revisions |->
                 IF q = r /\ ~Exists(r)
                   THEN [NewRow EXCEPT !.id = nextId, !.rule = from.rule,
                                       !.session = from.session]
                 ELSE IF q # r /\ q.mr = r.mr /\ job[q].state = "queued"
                   THEN IF Exists(q) THEN Superseded(job[q]) ELSE job[q]
                 ELSE job[q]]
    /\ nextId' = IF Exists(r) THEN nextId ELSE nextId + 1

Enqueue(r) ==
  \E from \in Resumable(r.mr) :
    /\ job' = [q \in Revisions |->
                 IF q = r /\ ~Exists(r)
                   THEN [NewRow EXCEPT !.id = nextId, !.rule = from.rule,
                                       !.session = from.session]
                 ELSE IF q # r /\ q.mr = r.mr /\ IsActive(q)
                   THEN Superseded(job[q])
                 ELSE job[q]]
    /\ nextId' = IF Exists(r) THEN nextId ELSE nextId + 1

-----------------------------------------------------------------------------
(* Claim and the statements a worker issues for the job it works on.       *)

Claimable(r) ==
  /\ Exists(r)
  /\ job[r].state \in Waiting
  /\ job[r].lease \in {"none", "past"}

\* ORDER BY priority DESC, queued_at ASC LIMIT 1.  Texts of queued_at compare
\* as their times do only from one second to the next (RFC3339Nano drops
\* trailing zeros), so rows of one priority come in any order.
FirstInQueue(r) ==
  /\ Claimable(r)
  /\ \A q \in Revisions : Claimable(q) => job[q].prio <= job[r].prio

Claim(w, r) ==
  /\ FirstInQueue(r)
  /\ job[r].attempt < AttemptBound
  /\ job' = [job EXCEPT ![r].state = "running", ![r].stage = "rule_preflight",
                        ![r].owner = w, ![r].lease = "future",
                        ![r].attempt = @ + 1]
  /\ UNCHANGED nextId

SetStage(r, stage) ==
  /\ Exists(r)
  /\ job' = [job EXCEPT ![r].stage = stage]
  /\ UNCHANGED nextId

SetGitMetadata(r, rule) ==
  /\ Exists(r)
  /\ job' = [job EXCEPT ![r].rule = rule]
  /\ UNCHANGED nextId

SetLLMMetadata(r, session) ==
  /\ Exists(r)
  /\ job' = [job EXCEPT ![r].session = session]
  /\ UNCHANGED nextId

SetUsage(r, tokens) ==
  /\ Exists(r)
  /\ job' = IF job[r].tokens <= tokens
              THEN [job EXCEPT ![r].tokens = tokens] ELSE job
  /\ UNCHANGED nextId

\* Mutant of Finish: not conditional on the state.
FinishOverStale(r, state, tokens) ==
  /\ Exists(r)
  /\ job' = [job EXCEPT ![r].state = state, ![r].stage = "finished",
                        ![r].tokens = tokens, ![r].finished = TRUE,
                        ![r].owner = NoOwner, ![r].lease = "none"]
  /\ UNCHANGED nextId

Finish(r, state, tokens) ==
  /\ Exists(r)
  /\ job' = IF job[r].state # "stale" \/ state = "stale"
              THEN [job EXCEPT ![r].state = state, ![r].stage = "finished",
                               ![r].tokens = tokens, ![r].finished = TRUE,
                               ![r].owner = NoOwner, ![r].lease = "none"]
              ELSE job
  /\ UNCHANGED nextId

RetryAfter(r, tokens) ==
  /\ Exists(r)
  /\ job' = IF job[r].state # "stale"
              THEN [job EXCEPT ![r].state = "retry_wait", ![r].stage = "queued",
                               ![r].tokens = tokens,
                               ![r].owner = NoOwner, ![r].lease = "future"]
              ELSE job
  /\ UNCHANGED nextId

MarkStale(r) == Finish(r, "stale", 0)

-----------------------------------------------------------------------------
(* The administrator's statements, and the startup and lease recoveries.   *)

\* Mutant of CancelReview: the lease is not cleared.
CancelLeased(r) ==
  /\ IsActive(r)
  /\ job' = [job EXCEPT ![r].state = "canceled", ![r].stage = "finished",
                        ![r].finished = TRUE]
  /\ UNCHANGED nextId

CancelReview(r) ==
  /\ IsActive(r)
  /\ job' = [job EXCEPT ![r].state = "canceled", ![r].stage = "finished",
                        ![r].finished = TRUE,
                        ![r].owner = NoOwner, ![r].lease = "none"]
  /\ UNCHANGED nextId

RetryReview(r) ==
  /\ Exists(r)
  /\ job[r].state \in Retryable
  /\ job' = [job EXCEPT ![r].state = "queued", ![r].stage = "queued",
                        ![r].finished = FALSE,
                        ![r].owner = NoOwner, ![r].lease = "none"]
  /\ UNCHANGED nextId

Clamped(prio) == IF prio < -PriorityLimit THEN -PriorityLimit
                 ELSE IF prio > PriorityLimit THEN PriorityLimit ELSE prio

SetPriority(r, prio) ==
  /\ Exists(r)
  /\ job[r].state \in Waiting
  /\ job' = [job EXCEPT ![r].prio = Clamped(prio)]
  /\ UNCHANGED nextId

Interrupted(row) == [row EXCEPT !.state = "retry_wait", !.stage = "queued",
                                !.owner = NoOwner, !.lease = "none"]

RecoverInterrupted ==
  /\ job' = [r \in Revisions |->
               IF Exists(r) /\ job[r].state \in {"running", "publishing"}
                 THEN Interrupted(job[r]) ELSE job[r]]
  /\ UNCHANGED nextId

RecoverExpired ==
  /\ job' = [r \in Revisions |->
               IF /\ Exists(r)
                  /\ job[r].state \in {"running", "retry_wait", "publishing"}
                  /\ job[r].lease = "past"
                 THEN Interrupted(job[r]) ELSE job[r]]
  /\ UNCHANGED nextId

\* Time reaches the lease_until of a row.
LeaseExpires(r) ==
  /\ job[r].lease = "future"
  /\ job' = [job EXCEPT ![r].lease = "past"]
  /\ UNCHANGED nextId

-----------------------------------------------------------------------------
(* Any client may call any statement at any time. *)
StoreNext ==
  \/ \E r \in Revisions :
       \/ Enqueue(r)
       \/ \E w \in Workers : Claim(w, r)
       \/ \E stage \in WorkStages : SetStage(r, stage)
       \/ \E rule \in Rules \union {NoRule} : SetGitMetadata(r, rule)
       \/ \E session \in Sessions : SetLLMMetadata(r, session)
       \/ \E tokens \in TokenCounts : SetUsage(r, tokens)
       \/ \E state \in Outcomes, tokens \in TokenCounts :
            Finish(r, state, tokens)
       \/ \E tokens \in TokenCounts : RetryAfter(r, tokens)
       \/ CancelReview(r)
       \/ RetryReview(r)
       \/ \E prio \in Priorities : SetPriority(r, prio)
       \/ LeaseExpires(r)
  \/ RecoverInterrupted
  \/ RecoverExpired

StoreSpec == StoreInit /\ [][StoreNext]_storeVars

-----------------------------------------------------------------------------
\* Every row the statements write has a state, stage, lease and owner the
\* code knows, and a priority inside the range SetPriority clamps to.
StoreTypeOK ==
  /\ job \in [Revisions -> Row]
  /\ nextId \in Nat \ {0}

\* The lease columns of a row agree with its state.
LeaseFits(row) ==
  /\ row.owner # NoOwner <=> row.id # 0 /\ row.state = "running"
  /\ row.state = "running" => row.lease # "none"
  /\ row.lease # "none" => row.state \in {"running", "retry_wait"}

LeaseMatchesState == \A r \in Revisions : LeaseFits(job[r])

\* Whatever the order of the statements, exactly the running rows are owned
\* and hold a lease a recovery can see expire, and only a job that waits for
\* its retry time keeps one besides.  A row left owned after it stopped
\* running could never be told from one a live worker holds.
StoreSound == StoreTypeOK /\ LeaseMatchesState

\* A revision that was superseded stays so: no late Finish, no retry, no
\* recovery and no second discovery brings the row back to work.
StaleIsFinal ==
  [][\A r \in Revisions :
       Exists(r) /\ job[r].state = "stale"
         => job'[r].id = job[r].id /\ job'[r].state = "stale"]_storeVars

\* An active row of m that had already ended.
Reactivated(m) ==
  \E r \in ActiveOf(m)' : Exists(r) /\ job[r].state \in Terminal

\* Discovery never makes two revisions of one merge request compete: when a
\* second active row appears, a row that had ended was brought back (by
\* RetryReview, or by the RetryAfter of a worker whose job was canceled).
SecondActiveIsReactivated ==
  [][\A m \in MRs :
       (/\ \A r, q \in ActiveOf(m) : r = q
        /\ ~ \A r, q \in ActiveOf(m)' : r = q) => Reactivated(m)]_storeVars

=============================================================================
