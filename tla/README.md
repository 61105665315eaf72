# A verification development for the GitLab review bot

The bot polls GitLab for merge requests it is asked to review, keeps one row
per revision in SQLite, and lets workers review the rows with an LLM agent and
publish findings and a conclusion. A console shows what happens and lets
administrators intervene. The modules here model that system component by
component, check them with TLC on small instances, and prove the most important
facts with TLAPS for every value of the constants. Everything is translated from
the code under `src/`; paths below are relative to it, and `PROJECT.json` maps
every definition to its lines.

## 1. The system

| Component | State it keeps | Operations | Hard behaviour | What makes it correct |
|---|---|---|---|---|
| `review_job` store (`internal/store`) | a row per (project, MR, head, target): state, stage, priority, attempt, lease, session, rule, usage | Enqueue, Claim, SetStage, Finish, RetryAfter, MarkStale, Cancel, Retry, recovery | calls come late and in any order; rows are fenced neither by owner nor by attempt | a superseded revision never comes back; leases agree with states; one active revision |
| schema (`store.go` Open) | tables, columns, foreign keys | create, rebuild, add columns | a kill between two statements | every file opens, nothing is left half done |
| events, findings and totals of a job, and its page | `review_finding`, `review_event`, subscribers' buffers, the page's copy | callbacks, ReplaceFindings, publish, SSE, reads | three steps for each write, one buffer for the events of all jobs, a page that subscribes late, changes nobody is told of | a page told of every change shows the job as it is; a completed review has exactly its findings |
| worker (`internal/worker`) | context, project lock, workspace, run result | `process`, its callbacks, its watcher | head and target move between any two calls; timeouts, cancel, supersede | no orphaned running row; no older verdict over a newer one; every review ends |
| discovery and process (`main.go`) | the list being enqueued | poll, enqueue; start, SIGTERM, crash | outdated lists, two discoveries at once | only outdated revisions are superseded |
| project locks, workspaces | a lock and a directory per project | Acquire/release; Prepare/Cleanup | order of deferred calls, a dead context | a review's files are its own revision's |
| publisher, GitLab client | notes and discussions of the MR | live findings, progress, resolution, conclusion | list-then-create, lost answers, pages, the limit of 20 | one conclusion, the newest; what is published is what was selected |
| review component and rules (`internal/review`, `ocr/config/rules`) | rule layers, digests | RunComponent, resolver, file filter, artifacts | rules from the target and from the head | findings reused only under the same rules |
| agent (`ocr/agent`), manifest (`ocr/session/manifest.go`) | diffs, coverage | dispatch, resume, filter, reconcile, Mark*, Finalize | concurrent files, panics, partial failure, resumed attempts | every file is accounted for; a pass is earned |
| comment pool and collector | work in flight, comments | SubmitFor, AwaitKey, Add, Remove, ReplaceSince | indices computed before, used after an LLM call | what is removed is what was judged |
| LLM loop (`ocr/llmloop`) | conversation, pending compression | RunPerFile, compression | background compression races the conversation | nothing said is lost, repeated or borrowed |
| LLM clients (`ocr/llm`) | request, stream | conversion to three protocols, retries, usage | cut answers and streams | calls answered at once; whole answers |
| full scan (`ocr/scan`) | batches, budget | gate, subtasks, dedup, summary | the budget is read beside files in flight | bounded overrun; no finding lost |
| diff and line resolution (`ocr/diff`) | none | ParseDiffText, hunks, ResolveLineNumbers | content that looks like a header | a comment's lines hold the code it quotes |
| session files, viewer (`ocr/session`, `ocr/viewer`) | JSONL records | append, flush, replay, LoadSession | a kill between two bytes, several writers | the report agrees with the file |
| users, login, OIDC (`store/users.go`, `auth.go`) | accounts, sessions, sign-ins | setup, login, callback, change, delete | check-then-act of concurrent requests, authentication switched on and off by restarts | only superadmins, or the token's holder where accounts are not asked for, decide; a sign-in is used once |
| configuration (`internal/config`) | one file | Load, Save by section | concurrent saves, one temporary name, a kill | sections not saved are kept |
| branch graph and quality pages (`quality.go`) | shared caches | graph, counts, file pages, fix trend | caches filled by concurrent requests | what is shown was true a short while ago |

Workers, watchers, discovery and API handlers share only the database, the
project locks and GitLab. A worker holds a copy of its row; it learns of changes
only by asking the table (`IsActive`) or GitLab (`ensureCurrent`). Within a
review the files' goroutines share the collector, the pool, the manifest and the
session file. `PROJECT.json` lists every component with its status, and the
hazards, each at its line.

## 2. Modules

| Module | Models | State and actions in the code |
|---|---|---|
| **ReviewStore** | the table | one action per statement or transaction (SQLite has one connection); `StoreSpec` lets any client call any of them at any time: the abstract specification of what the system may do to the table |
| **ReviewSystem** | extends it by GitLab, workers, locks, workspaces, conclusions, discovery and the process | `process` is cut at every call of GitLab, the store or the lock; see below |
| **JobRecords** | what one running review records and its page | `row`, `stored`, `artifact`; writers are the callbacks, the worker and those of other jobs, each a statement, an event row and a message; `Send`/`DropOldest`/`Resend` are `publishEvent`, `channel` the page's subscription to all jobs' events, the page's steps `ReviewDetail.vue`'s; `Supersede` is Enqueue's stale, which tells nobody |
| **Schema** | `Open` | `stage` is the statement reached; `Rebuild` a transaction; `KillOpen` at any point |
| **Publisher** | the notes on one merge request | `callAt[c]` is where each callback is in its chain of requests, `pubPhase` where `Publish` is; a request may fail after it was carried out |
| **Accounts**, **Settings** | console accounts; the configuration file | `handling[q]` is the next statement of request q, `authEnabled` the setting read by `ServerRestarts`, `Callers` whom `withAdminSecurity` takes for an administrator; a save is read, open, write, rename |
| **BranchGraph**, **FindingPages** | the graph and its caches; the quality pages | requests listing and fetching in goroutines; the pages as operators over the rows |
| **SessionLog** | the session's JSONL file as operators | the review_item lines, the buffer before them (`dirty`), what a kill leaves (`torn`), replay and merge |
| **AgentRun** | the attempts of one job inside `RunComponent` | `phase` is where `Run` is, `pc[f]` the goroutine of file f, `units` the comments being located |
| **Coverage** | what a manifest promises, without classes and errors | the abstract specification |
| **Manifest** | `ManifestBuilder` | one action per method, called in any order; implements Coverage |
| **Conversation** | `RunPerFile` of several files | contexts, the pending compression of each, the goroutines that have not ended |
| **ModelClient** | the three clients | `Wire` is the conversion, `exchange` the request with its retries and stream |
| **RuleLayers**, **ReviewInput** | rule resolution; what a review of a project's merge requests is given and takes over | pushes to head and target, a review's start, its reused and new findings, reconciliation |
| **Selection**, **FullScan** | which files are reviewed; the scan | the filters as operators over facts about a file; batches, slots, gate, pool, dedup |
| **DiffLines** | the diff's text and the lines of a comment | the change is an edit script; its text is parsed as git writes it |
| **SessionReport** | what `LoadSession` makes of two jobs' files | lines appended by two reviews at once; the page as operators over the lines |
| **ReviewClaims** | a claim of the documents (section 7) | |
| **ReviewStoreProofs**, **ReviewSystemProofs**, **RecordsProofs**, **PublicationProofs**, **ConsoleProofs**, **AgentRunProofs**, **ManifestProofs**, **EngineProofs** | theorems (section 5) | each extends the modules it is about: RecordsProofs JobRecords and Schema, PublicationProofs Publisher, ConsoleProofs Accounts, Settings, BranchGraph and FindingPages, AgentRunProofs AgentRun and SessionReport, EngineProofs ReviewInput, Conversation, ModelClient and FullScan |
| **MC...** | values of constants | one per module that needs them |
| **MCRecords**, **MCConsole**, **MCPublication**, **MCReview**, **MCEngine** | runs over several components | see section 3 |

Correspondence of `ReviewSystem`'s actions to `worker.go`, in the order of the
code: ClaimJob (34-53), EnsureAtStart (64), ReadTarget (70), ReadRule (79),
ListSessions (101), AcquireLock (124), StageGit (132), Prepare (136),
RecordGitMetadata (149-172), StageGraph and BuildGraph (175-198), StageOCR
(199), the callbacks ReportSession, ReportUsage and ReportStopsRun (223-276),
RunReturns (300), CheckSuperseded (319), Recheck (327), RecheckTarget (331),
ScheduleRetry (351), StagePublishing (361), DeleteNotes and CreateNote
(`publisher.go:71`), FinishJob (371), Leave (the deferred calls); InfraFailure
and RuleFailure are `finishInfra` and `finishRuleFailure`; WatcherCancels is
`cancelWhenSuperseded`. `wk[w].ctx` is the review's context: live, superseded
(canceled by the watcher) or dead (timeout, shutdown); a call with a context
that is done fails. `main` exits right after `Shutdown`, so "stopping" may be
followed by `Restart` at any point of any worker.

Correspondence of `AgentRun`: OpenSession (component.go:146-204), LoadFails
(agent.go:257), Select (1092), Dispatch (`applyResume`, 726), StartFile (621),
Submit (`SubmitFor`, loop.go:460), the units' steps (pool.go:89), PromptTooLarge
(1218), MainLoopEnds and ReviewFails (1236-1262), AwaitKey (1256), FilterAnswers
(`executeReviewFilter`), Verdict (660-696), ReviewPanics (634), Collect
(700-723), Analyse (`generateChangeAnalysis`), FinalizeManifest (353-359).

### Abstractions worth knowing

* **ReviewStore, ReviewSystem**: a commit is a number that tells older from
  newer; times are what statements compare (`lease_until` is NULL, future or
  past; rows of one priority may come in any order of `queued_at`, whose text does
  not order times within a second); a rule file is valid, missing or
  invalid; the deletions of `DeleteNotesWithMarkers` are one step that may leave
  any of the notes; the token budget gate is off, as in the default
  configuration. What publishing does note by note is module Publisher; here it
  is the verdict that counts.
* **AgentRun**: all attempts are of one revision and one rule (others are
  ReviewInput's); a `code_comment` call carries one comment; the conversation
  between its calls is module Conversation; the class of a failure is left out,
  since no decision depends on it (Manifest has the classes); every finding has
  a blocking severity; the per-file timeout is never set by the bot.
* **Conversation**: a round is an assistant message with its tool results, which
  are appended together and only cut between rounds; the template has a
  compression task and two frozen messages.
* **Publisher**: a finding is its place and rank; a marker names head and
  finding, not the text. Only `new_line` positions exist, as in the code.
* **DiffLines**: contents are a few texts, among them an empty line and one that
  makes a deleted line read as a header; hunks have `DiffContextLines` lines of
  context.
* **ReviewInput, RuleLayers**: a glob pattern is the set of paths it matches, a
  digest the field list it is made of, a diff a name; the list of sessions to
  resume from is the time of each, by which the code sorts.
* **ModelClient**: a message is its role, whether it has text, the calls it
  makes and the call it answers; tokens are one small number for each kind.
* **SessionReport**: texts, durations and tool results are left out, a response
  has one token; a finding is a content and a line; a review reports one file.
* **Settings**: of each section only fields that differ in kind are kept: one
  that is omitted when empty, one with a default, a secret, the workers.
* **JobRecords**: a page shows the findings of the table, and where there are
  none, those of a result that can be parsed or of the session's file, which
  grows without an event.
* **FullScan**: a merged comment is the set of findings it stands for, also where
  the answer left its text empty and the first comment's own text stays
  (agent.go:994). A call that merges or summarizes costs at most `CallTokens`; a
  phase that is off is one whose call is not made.
* History variables (`said`, `accepted`, `held`, `missed`, ...) record what the
  code does not keep; they are there to state a property.

## 3. Runs

| Run | Question | Bounds |
|---|---|---|
| system_forward | Is what is published and made stale right when branches only move on? | 2 workers, 2 heads, 2 targets, two moves, one lease that runs out; rule invalid at one target, missing at the other |
| system_faults | Does every running row keep its worker; does the system use the table only by its statements? | 1 worker under one of five budgets: a move and two actions of administrators; two moves and a failed call, or and a SIGTERM; a move, a failed call and a SIGTERM; a move, a failed statement and a crash; branches may return; code graph on |
| system_live | Does every review end, and is what stays current decided? | 2 workers, one move, one crash; fairness |
| records | What do the table, a job's records with their page, and the schema hold after any order of statements, kills and failures? | 2 heads, 1 owner, a priority above the limit; 1 finding, the worker beside 1 report of a callback or beside another job's writer, buffer of 1, 2 attempts, 1 failure or kill; 3 openings of each kind of old file |
| console | Do concurrent requests keep accounts, the configuration file, the graph and the pages right? | 2 people and 2 requests, authentication on or off at each start; 2 saves by 2 administrators, 1 restart; 2 viewers, 2 branches, 1 merge request, 1 move, life of a cache entry 1; 3 reviews of 2 comments |
| publication | Which notes stand for the findings, and at which lines? | 2 revisions, 2 callbacks, 2 findings (one with a line), limit 1, pages of 4, one lost answer; diffs of up to 4 lines, 8 kinds of change |
| review | Do attempts, manifest and report account for every file and finding? | 2 files, 1 or 2 goroutines, 2 attempts, 2 findings, a finding in another job's session; 2 items, 2 classes each; 2 jobs, 3 reviews, or 2 with requests to the model |
| engine | Is a review made of what it should be: rules, reused findings, messages, answers, budget? | 2 merge requests, 3 heads, 4 rule files, 3 jobs, 1 push; 2 files' conversations around a limit of 13 tokens; 3 protocols, 3 turns, 2 pieces, 1 retry; 4 files in 2 slots, budget 3, calls of 1 token |
| claim_* | section 7 | as small as the counterexample allows; violated |

The runs records, console, publication, review and engine each check several
components that share no variable and take no step together. Their product
would only multiply the states, so a variable `followed` picks, in the initial
state, the component the behaviour is about, and the others stay where they
began: the run checks the union of the components' behaviours. Where components
do interact they are composed: workers, discovery, administrators, GitLab and
the table in ReviewSystem; the callbacks, the bus and the page in JobRecords;
agent, pool, collector, manifest and session file in AgentRun; rules, sessions
and reconciliation in ReviewInput; several reviews, their files and the page in
SessionReport.

What the properties say:

* `ReviewersApart` – a workspace holds the revision of the review that uses it,
  the lock is its own, and two workers do not share a job (without
  administrators).
* `OneActiveJob`, `SecondActiveIsReactivated` – without administrators there is
  one active revision; a second one appears only because an ended row came back.
* `VerdictsMoveForward` – a worker about to publish a review's verdict never
  finds one of a newer head. The notes of failures are excepted (section 7).
* `StaleIsTruthful` – undisturbed, only outdated revisions are made stale.
* `RunningIsWorkedOn` – while no statement fails, a running row has a worker
  that works on it, so that no job waits for a restart.
* `StoreRefined` – the system implements `StoreSpec`.
* `CurrentIsDecided`, `ReviewsEnd` – liveness.
* `StoreSound`, `StaleIsFinal` – exactly the running rows are owned and leased; no late
  statement revives a superseded revision.
* `CompletedFindingsExact` – a completed review's findings are its result's,
  whatever callbacks, kills and failed statements came before.
* `PagesCatchUp` – a page that was told of every change shows the job as it is,
  unless news is under way or the worker has yet to tell what it did; a page too
  slow for its buffer always has an event to come after one that was discarded,
  of whatever job. What it is not told of, it may miss (section 7).
* `OpensAfterAnyKill` – the next start opens what a kill left.
* `AccountsSound`, `SuperadminsDecide` – sessions belong to accounts, a sign-in
  opens one session; only administrative requests change roles; the last superadmin
  is deleted only when two of them overlap, and demoted or disabled only then or,
  with authentication off, by the holder of the token.
* `SavesKeepTheRest` – saves that do not overlap keep the file readable and each
  other's sections; the secret is kept in any case.
* `GraphIsRecent` – a number or relation shown was true since the request began
  or within the cache's ten minutes.
* `PagesAgree` – list, file page and trend count the same findings.
* `PublishedIsSelected` – what stays open is the selection; the limit is passed
  only in the race of concurrent callbacks.
* `OneConclusion` – a publication ends with the conclusion of its revision; each
  failure or kill leaves one too many at most.
* `ReconsideredIsResolved` – a finding of a file reviewed again is not left open.
* `ParsedAsWritten`, `CommentOnItsCode` – files, flags, counts and line numbers
  are those of the change; a comment's lines hold its quotation.
* `CommentsAccounted` – the collector holds what the model said, minus what is
  still being located, what a panic lost and what the filter named, plus what is
  reused.
* `OutcomesAgree` – the checkpoint of a completed file holds its comments,
  manifest and session file agree, and a pass comes from a complete review.
* `CheckpointsKept`, `RunEnds` – no attempt takes back a checkpoint; every
  attempt ends.
* `CoverageRefined`, `KeepsPromise` – the attempt and the builder implement
  Coverage: files are fixed before any is dispatched, each is decided once, none
  is open when the manifest is frozen.
* `ReportAgrees` – at every moment the report shows what the file's lines say was
  found last and nothing they do not say, and counts no response's tokens twice.
* `ReusedUnderTargetRules` – a reused finding was made for the same diff under
  the same target rule file, over any chain of sessions.
* `DecidedOnce`, `DigestsIdentify` – each old and new finding gets one decision;
  equal digests mean equal rules and diffs.
* `NothingLost` – summaries and live messages are together what was said.
* `CallsAnsweredAtOnce`, `AnswerIsWhole` – what is sent is well formed in each
  protocol; what comes back is all of it, with its tokens.
* `OverrunBounded`, `ScanKeepsFindings` – all tokens recorded together exceed the
  budget by at most one file per slot and the calls made after the last file that
  passed the gate, which are two if nothing is reused; dedup loses nothing and
  repeats nothing.

The mutants in `PROJECT.json` say which plausible bug each property catches.

### Why the bounds are enough

`Budgets` bounds how often each kind of thing outside the bot happens;
`left.of` is the budget chosen, `left.now` what is left of it, and properties
that hold only while something did not happen compare the two (`Never`). The
races that matter are between one external event and two workers: two heads give
an old and a new job, two workers let them overlap, a second move makes both
outdated. `AttemptBound` is never reached in the system runs; `MaxAttempts` 1 or
2 lets the last attempt be exhausted. Combinations of an administrator, a fault
and a crash in one behaviour are only covered by `StoreSpec`, which has no
budget. Two merge requests share only the lock and the workspace, for which two
revisions of one compete just as well.

In `records` one owner is enough, since no statement compares the owner of a row,
one finding for a callback and the result to disagree on it, a buffer of one for every loss, one other writer to displace the job's last
event, two attempts for a claim that a page is told of. In
`console` two requests give every race of a check and a change; the deletion of
two superadmins at once needs exactly two. In `publication` two callbacks race
for a limit of one, and one more note than a page holds is reached with two
revisions. In `review` two findings are enough for two of one file, one of each,
and one in each attempt; concurrency 1 makes files and comments wait for the
semaphores. Three reviews of two jobs give a chain, a resumed attempt and a
cycle. In `engine` three answers suffice to start a background compression, to
compress at once while it is pending, and to look for its result (the theorem
covers the rest); three jobs give a finding reused over two sessions; a budget
of three lets the last of two slots overrun it.

Symmetry is used in two runs of safety properties only: of workers in
system_forward, of people and of requests in console. Deadlock is
not checked in the composite runs, where a component stops when its bound is
reached; it is checked in the system's runs.

## 4. Fairness

`ReviewSystem!FairSpec` assumes weak fairness of every worker step and of each
watcher (they are goroutines, and calls have timeouts, so a call returns), of
the polling discovery (its ticker runs for ever) and of the rest of a reconcile
request, of the passing of a retry time, and of the exit of a stopping process.
It assumes nothing of pushes, administrators, faults, crashes, or of a reconcile
being requested. A worker step that waits for the lock is enabled only when the
lock is free; weak fairness of the disjunction suffices because the holder
leaves. A review returns within its timeout also where no watcher cancels it, so
the liveness properties say nothing of how soon the watcher does. Faults are not part of the liveness run: a configuration error is
retried for ever by design, and a failed call may make the current revision
stale (section 7).

`MCReview!ReviewSpec`, as `AgentRun!FairSpec`, assumes that some step of the run
is taken as long as one can be: the goroutines are scheduled, calls of the model
have timeouts, and the comments of an attempt are bounded, so none of them can
be postponed for ever. Nothing is assumed of kills, of the end of the context, or
of a further attempt.

## 5. What is proved

The proofs assume only the named assumptions on the constants, which TLC
evaluates in the runs: that identifiers standing for "nothing" are not
identifiers of something, that bounds and capacities are numbers (positive where
the code's are), that findings and callbacks of one review are finitely many
(Publisher), as are the files a report is about (SessionReport), that each merge
request has a project and each target a rule file or none (ReviewSystem), that a
commit is an ancestor of itself and younger than its other ancestors
(BranchGraph), that a project has finitely many paths
and rule files of the form the loader reads (ReviewInput), and that a server
bills at least one output token for what it answers (ModelClient). No proof uses
the size of an instance.

* **ReviewStoreProofs.** `StoreStaysSound`: `StoreInv`, the type invariant with
  `LeaseMatchesState`, is inductive. The type alone says nothing about the owner
  a statement leaves, and the lease part needs the row's state to be one the code
  knows. One lemma per statement shows that the row it writes is well formed;
  `OneRowWritten` lifts that to the table; Enqueue and the recoveries write
  several rows. `StaleStaysFinal`: each statement leaves a stale row stale
  (`OtherStepsKeep`, `EnqueueKeeps`). `SecondActiveNeedsRetry`: Enqueue leaves at
  most one active row of its merge request (`EnqueueLeavesOne`), and any other
  statement keeps the ids, so a second active row had ended
  (`OthersOnlyReactivate`).
* **ReviewSystemProofs.** Every property system_forward and system_faults check
  of safety, for any workers, projects, merge requests, branches and budgets.
  `ProcessInv` adds to the types what a place in `process` says of the worker
  (`PlaceFits`: a job from Claim on, a rule file that may be used after ReadRule,
  a workspace only after Prepare, an outcome Finish takes at the end). One lemma
  for each group of steps gives what the step does to the worker (`Walks`), what
  it leaves alone (`Keeps`) and which statement it executes, and the rest is
  argued from those. `SystemImplementsStore`: a step of the system is a
  statement of `StoreSpec` or leaves the table alone, so ReviewStoreProofs'
  theorems hold of the whole system (`SystemTableSound`). On top of ProcessInv:
  the lock is held exactly by the worker inside a project and the workspace is
  that worker's (`LockInv`: `WorkspaceStaysOwn`); a worker's row is its own or
  stale until it leaves (`JobInv`), so no second worker claims it and no late
  statement revives it (`ReviewersStayApart`, `OneActiveJobOnly`); the owner of a
  running row is on it and was not told to stop (`OwnerInv`:
  `RunningStaysWorkedOn`); a worker that read the head again has a head GitLab has
  reached, and no verdict on the merge request is newer (`RecheckInv`:
  `VerdictsOnlyForward`); the polling's list is of heads GitLab has reached and
  no row has passed (`DiscoveryInv`), and a worker that turns to `MarkStale` has
  a reason that lasts (`StaleInv`: `StaleOnlyTruthful`).
* **RecordsProofs.** `CompletedStaysExact`: while ReplaceFindings inserts, the
  stored findings and those left to insert are together the result's, since
  callbacks end before the run returns (`RunFits`). `PagesStayCurrent` rests on
  `PageFits`: in every state a change was missed, or news of it is under way (in the
  buffer or with a writer), or the worker is between a change and the event that
  tells of it, or what the page has read so far, be it half, is so now. An event
  lost or displaced by another job's sets `missed`, and only reading again resets
  it. `BusFits` says that a message is owed only while there is one in the buffer
  or a writer makes room for one. `FileAlwaysOpens`: `SchemaInv` lists what each stage of Open finds
  done; `FirstLacking` is found by a well-founded minimum.
* **PublicationProofs.** `PubInv` has a part for each thing Publish relies on.
  `LimitFits` counts, besides the findings that stand on the merge request, the
  callers that have found room and not yet written, and the answers that were
  lost: without them the limit is not inductive. `SelectionWithinLimit` shows
  that the selection, the findings with fewer than `MaxPublished` before them in
  the order of rank and place, has at most that many elements: its last element
  has all others before it. `NotesReplaced`, `ResolvedFits` and `ResetFits` say
  that a phase of Publish leaves what its work list says, because nobody else
  touches notes of that kind meanwhile; a page that was listed shows every note
  it should (`PageShowsAll`). From them `PublishedStaysSelected`,
  `OneConclusionStays` and `ReconsideredStaysResolved`.
* **ConsoleProofs.** `AccountsStaySound` and `OnlySuperadminsDecide`: a request
  between its check and its change knows whether another one overlapped; while
  none did, what it checked still holds: a superadmin other than the one it is
  about, or, where accounts are not asked for, a count that leaves one
  (`TokenFits`). `SavesAlwaysKeepTheRest`: the draft of a save that nobody
  overlapped is the file with its own section replaced, and every copy of the
  file has the secret. `GraphStaysRecent`: a cached number of changed files
  was the merge request's at the version it is cached for or a later one, a
  cached relation held when the entry was stored; what a request has taken over
  was so within the life of an entry before it looked. `PagesAlwaysAgree`: a
  result is the bag of its findings by key, and the bag is written as the set of
  its findings numbered within their key, which has as many elements as the
  result has comments (`NumberedAll`). What one result has more of than another
  is then a difference of sets, and two bags differ by as much as they have
  together (`BothWays`); that the open and the fixed findings of every point are
  the raised ones (`TrendAddsUp`) follows from the least point where they would
  not be, since the trend compares each point with the one before
  (`PointBefore`).
* **AgentRunProofs.** `AttemptsKeepPromise`: the attempts of a job implement
  Coverage, the specification of a manifest. `PlacesFit` says that a file is
  undecided exactly while its goroutine has not ended and it was not reused, and
  that none is undecided once they were collected. On top of it, `AgentFit`:
  `RecordsFit` says what checkpoint each outcome has in the session's file, and
  that a checkpoint the run has not taken over is one it wrote itself, hence a
  file that is dispatched to fail has none to lose (`CheckpointsAreKept`);
  `FindingsFit` says where each finding is. Its parts that make it inductive: a
  file past AwaitKey has nothing in the pool (`UnitFits`), so what the filter
  was shown and what the checkpoint says are still what the collector has for
  the file (`CopiesFit`); no finding of a file that is not reused is twice in the
  collector (`DistinctOn`), so the indices name what was shown. From them
  `CommentsAlwaysAccounted` and `OutcomesAlwaysAgree`. The lemmas below that:
  the k-th element of a subsequence is at the position of rank k
  (`RanksFit`, `ElementAtRank`, `SameSubsequence`), hence adding and removing
  comments of one file changes nothing for another (`AddedForOthers`,
  `RemovedForOthers`, `RemovedIsNamed`); and a line changes the checkpoint of its
  own file only (`CheckpointAfter`), by the least line after which two readings
  would differ.
  SessionReport: `ReportsAlwaysAgree`. `WritingFits` says of every file, and of
  the file under way with what its review has in the buffer, that its lines fit
  (`LinesFit`): a line reused with comments is the first that reports on its file,
  and each response has a request of its own unless requests overlapped. The
  buffer is part of it because a file alone is not enough: a spill or a kill
  changes the file by lines written long before. A file that is cut off anywhere
  still fits (`BeginningFits`), and a fragment costs no line but the first after
  it (`OntoAppends`, `OntoSpills`). `PageFits` then says what the page shows after the first n
  lines, kept by each kind of line (`ReadRequest`, `ReadResponse`, `ReadOther`)
  and argued by the least n where it would not hold; `TrackerFits` is its part
  about findings: what is current is what the last line on the file has, and what
  is fixed is gone from a later review. The attempt to prove it showed that an
  earlier form of `ReportAgrees` was wrong: it took a finding that is fixed by
  comparison to have been shown by a line `done`, but its line may also be
  `reused`. The three reviews of the run do not show it; TLC found it once five
  were allowed. The property now names both kinds of line.
* **EngineProofs.** `ConversationsComplete` (`NothingLost`) and
  `PendingJobsFit`: the invariant `ConversationInv` adds to `NothingLost` that
  each pending job belongs to its conversation, that its snapshot is a prefix of
  what the conversation holds now, and that its result stands for the same
  messages as its snapshot. Without that, `NothingLost` is not inductive:
  applying an arbitrary result would break it. The case that matters in
  `AddNextMessageStep` is that a job still pending at the end was neither applied
  nor canceled, hence no compression came in between.
  FullScan: `DispatchFits` has each file in one place and counted once, which
  needs that batches are a partition (`GroupBatchesPartition`) and that the first
  file of a batch exists. `BudgetFits` is what `OverrunAlwaysBounded` needs to be
  inductive: what was spent, and the estimates of the files that run or have
  passed the gate, stay within the budget, one dearest file for each slot and the
  calls since the last file that passed (`late`); `CallsFit` bounds those: without
  checkpoints a batch none of whose files passed has no comments to merge. The
  sum of estimates is the number of pairs of a file and a unit of its estimate
  (`Units`, `TotalAdds`, `TotalBounded`), so it needs no induction.
  `FindingsFit`, for `ScanAlwaysKeepsFindings`, adds that what is in the pool is
  not in the collector and no number above `uttered` is anywhere; an accepted
  grouping keeps the findings of its batch (`MergedFits`), and so the collector's
  (`Replaced`).
  ReviewInput: `ReuseFits` says of a job that it lists only opened sessions of
  jobs under its own rule file (`ListsFit`), and of a session that every line is
  of a file's diff of that job and carries findings made under the same rule
  file for the same diff (`SessionsFit`); a checkpoint is one of a session's
  lines (`CheckpointIsALine`), so `ReuseAlwaysUnderTargetRules` holds over a
  chain of any length. `AlwaysDecidedOnce`: what is accepted of an answer's
  first n decisions names no finding twice (`TakesExist`, `ValidatedOnce`, by
  the least n), and what `KeptOpen` adds lists each undecided finding once
  (`KeptOpenOnce`). `DigestsAlwaysIdentify`: a session is opened only by a job
  whose rules could be read (`RulesRead`); each digest field names its layer, so
  equal digests are equal layer by layer (`TaggedParts`), and a path's rule is
  that of the first place that matches it (`SameRule`).
  ModelClient: `AnswersStayWhole`. The probes take the first field of a list
  that the answer reports with a number above zero, wherever the dialect wraps
  its usage (`ProbeTakesFirst`, `ProbeFindsNothing`, `FieldEverywhere`,
  `FieldNowhere`), so each dialect's counts are found in the order of the
  lists, and the cache's are added only where the dialect reports them apart
  (`ApartOfField`, `UsageIsBilled`); the exchange goes on with a stream's usage
  only after its last piece, and with a plan that was billed (`PlansAreBilled`,
  `ExchangeFits`). `CallsAlwaysAnswered`: in a history the calls of a message are
  answered by as many tool messages right after it, and every tool message is one
  of them (`HistoryFits`, which `GoOn` keeps whatever the answer). Each protocol
  puts the blocks of the messages on the wire in their order and nothing else
  (`Placed`), which is enough for a call and its result to be as near as in the
  history (`PlacedFits`); that a conversion does so is shown message by message
  (`OneMorePlaced`, `ResponsesFits`, `BuiltFits`), by the least message after
  which it would not. Anthropic's form merges results into one message, hence it
  also needs that no two messages of results are adjacent (`Turns`): a result that
  came two messages after its call would have one of results before its own
  (`ResultsFollow`).
* **ManifestProofs.** `ManInv` relates the entries to the builder's flags, to
  the frozen manifest and to the outcomes that were accepted; `BlameInv` says
  what the failures of a frozen manifest are blamed on. From them:
  `BuilderKeepsPromise` (`ManSpec => C!CovSpec`: a Mark is `Decide`, the seal is
  `Seal`, a successful Finalize is `Freeze` in one step with the sweep of what
  is left, and a refused call stutters), `AcceptedReported`, `SilentBlamed`,
  `RefusalsChangeNothing`, and `FrozenDecided` for Coverage itself, which
  therefore also holds of every other implementation, AgentRun among them.

Only model-checked: liveness (`CurrentIsDecided`, `ReviewsEnd`, `RunEnds`), since
TLAPS proves no ENABLED and no fairness; what folds over a diff's text compute (`ParsedAsWritten`,
`CommentOnItsCode`), since the provers cannot instantiate an induction theorem
(the replay of a session's lines, the page read from them and the conversion of a
history, functions of the number of lines or messages, are proved about through
the least one that breaks a claim).

## 6. Plan

Done: the table, the system around it, the records of a job, the schema, the
publisher, accounts and configuration, the branch graph and quality pages, the
agent's attempts, manifest, session files and report, the conversation, the
clients, rules and inputs, the scan, diffs and lines; theorems about all
components but diffs and lines. Next: *ReviewSystem* over Publisher, with
the notes of several merge requests, of failures and of late progress.

## 7. Where documents and code disagree

`F` is `docs/init_20260819/ocr-review-bot-技术架构方案.md`, `W` is
`docs/init_20260819/ocr-review-bot-后台Web规划设计.md`. Four disagreements have a
run; `PROJECT.json` quotes the lines.

* claim_stale – an error of `ensureCurrent` (worker.go:64, 327), a shutdown
  included, marks the current revision stale for good; W:708 says stale means
  replaced by a newer version.
* claim_kill – LLM traffic is buffered without a flush, so a killed process may
  leave half a line, and `LoadResumeState` refuses the file (persist.go:129,
  resume.go:159); manifest.go:758 says that a hard kill falls back to the
  checkpoints.
* claim_rules – the project layer of the rules and the file filter are read from
  the head of the merge request (component.go:92); F:187 says never from the
  source branch.
* claim_history – two jobs of a project that are resumed from each other make
  `LoadSession` follow their chain without end (viewer/store.go:841).

Seen while modelling, without a run of its own:

*Queue and worker.* `RecoverExpired` is never called, so a running row nobody
works on waits for a restart (F:845). A branch that returns to an earlier commit,
or a reopened merge request, meets its stale row and is not reviewed (F:39),
which is why `CurrentIsDecided` is stated where branches move forward.
`RetryReview` lets an old revision run beside the current one (F:359); a late
`Finish` or `RetryAfter` overwrites `canceled` (W:1083); a reconcile request that
overlaps the polling may supersede the newer revision by an older one. They are
why `OneActiveJob`, the jobs' part of `ReviewersApart` and `StaleIsTruthful` are
stated for runs without administrators. `finishInfra` and `finishRuleFailure` of
an old head delete the newer head's conclusion (worker.go:470, 482, F:581), which
`VerdictsMoveForward` excepts. The totals of a failed or stale job are reset, and
a retry's first totals replace the last attempt's (W:1175, F:1159). A statement
of `Finish` or `RetryAfter` that fails, and a stop or a failed read between
Claim's commit and its reading of the row (store.go:472), leave a running row
without a worker, which `RunningIsWorkedOn` excepts. `migrateReviewJobIdentity` drops the
values of the progress columns.

*Publishing.* Only `new_line` is sent for a position (F:555), also for lines of
the old side (resolver.go:104). A discussion whose answer is lost is followed by
an ordinary note without a look for the marker (F:396, 1149). Live findings the
filter drops later can use up the limit, so that a selected one is not published;
reused findings are published again under each head's marker. A progress note of
a late callback can follow the conclusion. Quoted code that spans a blank line
never matches the new side and may match the old one; `countDiffLines` ignores
lines of content that start with `+++` or `---`.

*Review.* A rule's references are resolved in the directory of the artifacts, are
not found there and are skipped; a malformed rule.json of the head fails the
review as infrastructure. Files over the token limit are dropped before coverage
is registered, so coverage is complete without them. Findings reused from another
job's session are not written when the session's file existed
(persist.go:184-189), so a third attempt loses them. Findings of files a partial
result did not review count as fixed. `partitionMessages` keeps no rounds when
everything fits (compression.go:139). A model call whose arguments are no object
makes the later requests of its conversation fail under Anthropic
(client.go:767). The scan, which the bot does not call, says that its budget caps the
whole run (agent.go:74) but makes the calls that merge and summarize whatever was
spent: a batch of reused files is merged by a call after the budget is used up.
It saves checkpoints before it merges duplicates, and leaves a file whose prompt is too large neither
completed nor failed.

*Console.* Two superadmins can delete each other at once. With `auth.enabled`
off, as it is without a configuration file (a file that has no `auth` section
turns it on, config.go:110, 151), a holder of the token that administers has the
user id 0, so the checks of auth.go:637 and 658 never take an account for his
own: one PUT demotes or disables the last superadmin (`SuperadminsDecide` says
so). Enqueue makes a running row stale without an event (store.go:409), so its
page goes on showing it as running; so does one whose last event is displaced
from the subscriber's buffer by events of other jobs, which the page subscribes to
and then skips (admin_api.go:208, ReviewDetail.vue:19). `ReadPersisted` starts
from an empty configuration, so a save writes zeros for fields the file left to
their defaults (config.go:209). Coalesced events carry no id, and the page then
drops the events it lists of that type. The list of reviews filters after it has
paged. A denial of access by an error of GitLab is cached for minutes. A queued
job of a new head makes the quality list show no findings. The viewer attaches
the answers of two relocation calls of one file to the later one, and a fragment
left by a kill hides the next line, a session's start included.

## 8. Not modelled

* *Analytics, quality tools over MCP, paged lists, exports, audit rows*: read
  only, or written once and only shown.
* *Endpoint resolution, templates, tool definitions*: looked up once, no state.
* *Review tools, MCP client, git commands, code graph*: external processes whose
  answers are texts; a call succeeds or fails.
* *Telemetry, HTTP serving of the viewer, the console's other pages*: no effect
  on reviews.
* *HTTP retries and headers of the GitLab client, SDKs of the models*: external;
  a request is answered, refused, or carried out without an answer.
* *The data race on the worker's copy of the job* (worker.go:225): JobRecords
  lets the callbacks' statements come in any order, but keeps a value in one
  piece.
* *Order of claims within a priority* (`ORDER BY priority, queued_at`): a claim
  takes a row of the highest priority, any of those claimable, which covers every
  order of `queued_at`.
* *Unbounded retries of a configuration error*: nothing justifies fairness of
  the endpoint's recovery.

## 9. Running

`tlc -config SystemForward.cfg MCReviewSystem.tla` and so on, as listed in
`PROJECT.json`; `tlapm ReviewStoreProofs.tla`, and likewise for the other seven
proof modules, which take from ten seconds to seven minutes each from nothing.
The largest runs have one to three million states
and take two to three minutes each.
