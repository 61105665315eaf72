---------------------------- MODULE SessionReport ----------------------------
(***************************************************************************)
(* The report of a job: what LoadSession makes of the session files of two *)
(* jobs of one project, at any moment of the reviews that write them.  A   *)
(* review appends lines through a buffer that is flushed with every        *)
(* review_item; a kill may leave a fragment, which swallows the next line. *)
(*                                                                         *)
(* Findings are told apart by content and line: id \div 10 is the content. *)
(* Texts, durations and tool calls are left out; a response has one token. *)
(***************************************************************************)
EXTENDS SessionLog, FiniteSets

CONSTANTS
  Jobs, Other,    \* two jobs of one project; the other one of each
  Reviewed,       \* the files they review
  NoJob,          \* no review, no session resumed
  Answers,        \* the findings of one review of one file, by id
  Limits          \* bounds: reviews and LLM requests of both jobs

ASSUME ReportAssumption ==
  /\ Reviewed \subseteq Files /\ IsFiniteSet(Reviewed)
  /\ NoItem \notin Files /\ NoJob \notin Jobs
  /\ Other \in [Jobs -> Jobs] /\ \A j \in Jobs : Other[j] # j /\ Other[Other[j]] = j
  /\ Answers \subseteq Seq(Nat)
  /\ Limits \subseteq [reviews : Nat, requests : Nat]

Tasks == {"main_task", "re_location_task"}

VARIABLES
  files,     \* each job's session file, line by line
  created,   \* the jobs whose file exists
  review,    \* the review that holds the project's lock, or NoJob
  left,      \* what is left of the limits
  crossed    \* history: two requests of one file and task overlapped

reportVars == <<files, created, review, left, crossed>>

ReportInit ==
  /\ files = [j \in Jobs |-> <<>>] /\ created = {}
  /\ review = NoJob /\ left \in Limits /\ crossed = FALSE

-----------------------------------------------------------------------------
(* Writing. *)

Garbage == [type |-> "garbage", path |-> NoItem]
Fragment == [type |-> "fragment", path |-> NoItem]

Torn(lines) == lines # <<>> /\ Last(lines) = Fragment

\* The fragment and the first line after it are one line, which parses as none.
Onto(lines, more) ==
  IF more # <<>> /\ Torn(lines) THEN Front(lines) \o <<Garbage>> \o Tail(more)
                                ELSE lines \o more

Unreadable(lines) == \E i \in DOMAIN lines : lines[i] \in {Garbage, Fragment}

Loads(j) == j \in created /\ ~Unreadable(files[j])

\* Only the lines of review items count.
ItemsOnly(lines) ==
  [i \in DOMAIN lines |->
     IF lines[i].type \in {"done", "reused", "failed"} THEN lines[i] ELSE Garbage]

Checkpoints(j) ==
  [f \in Reviewed |->
     IF Loads(j) THEN Checkpoint(ItemsOnly(files[j]), f) ELSE NoItem]

\* The line whose comments stand for the file: a review of it, or a reuse
\* that brought comments along.
Reports(line, f) ==
  /\ line.path = f /\ line.type \in {"done", "reused"}
  /\ line.type = "done" \/ line.comments # <<>>

\* LatestComments.
LatestComments(lines, f) ==
  LET mine == {i \in DOMAIN lines : Reports(lines[i], f)}
  IN  IF mine = {} THEN NoItem
      ELSE lines[CHOOSE i \in mine : \A k \in mine : k <= i].comments

First(a, b) == IF a # NoItem THEN a ELSE b

Start(from) == [type |-> "session_start", path |-> NoItem, from |-> from]

\* The first session that was loaded and is not the job's own.
ResumedFrom(j) == IF Loads(Other[j]) THEN Other[j] ELSE NoJob

\* RunComponent up to agent.New: the project's lock is held.
BeginReview(j) ==
  /\ review = NoJob /\ left.reviews > 0 /\ left' = [left EXCEPT !.reviews = @ - 1]
  /\ review' = [job |-> j, buffer |-> <<Start(ResumedFrom(j))>>,
                appending |-> j \in created,
                resume |-> [f \in Reviewed |->
                              First(Checkpoints(j)[f], Checkpoints(Other[j])[f])],
                latest |-> [f \in Reviewed |->
                  First(IF Loads(j) THEN LatestComments(files[j], f) ELSE NoItem,
                        IF Loads(Other[j]) THEN LatestComments(files[Other[j]], f)
                                           ELSE NoItem)],
                open |-> {}, settled |-> {}, completed |-> {}, stage |-> "loading"]
  /\ created' = created \union {j} /\ UNCHANGED <<files, crossed>>

In(stage) == review # NoJob /\ review.stage = stage

\* The lines of the buffer and more, and a Flush, which no kill undoes.
Flushes(lines) ==
  files' = [files EXCEPT ![review.job] = Onto(@, review.buffer \o lines)]

LoadDiffs ==
  /\ In("loading") /\ review' = [review EXCEPT !.stage = "files"]
  /\ UNCHANGED <<files, created, left, crossed>>

\* The buffer is full; a reader sees the lines.
Spill ==
  /\ review # NoJob /\ review.buffer # <<>>
  /\ files' = [files EXCEPT ![review.job] = Onto(@, <<Head(review.buffer)>>)]
  /\ review' = [review EXCEPT !.buffer = Tail(@)]
  /\ UNCHANGED <<created, left, crossed>>

\* One main task at a time; comments are located by several goroutines, which
\* a file that fails does not wait for.
Request(f, task) ==
  /\ In("files") /\ review.resume[f] = NoItem
  /\ f \notin IF task = "main_task" THEN review.settled ELSE review.completed
  /\ left.requests > 0 /\ left' = [left EXCEPT !.requests = @ - 1]
  /\ LET call == [path |-> f, task |-> task, no |-> left'.requests]
         beside == {c \in review.open : c.path = f /\ c.task = task}
     IN  /\ task = "main_task" => beside = {}
         /\ crossed' = (crossed \/ beside # {})
         /\ review' = [review EXCEPT
              !.open = @ \union {call},
              !.buffer = Append(@, [type |-> "llm_request", path |-> f, task |-> task])]
  /\ UNCHANGED <<files, created>>

\* SetResponse; content may be empty beside tool calls.
Respond(call) ==
  /\ In("files")
  /\ \E blank \in {call.task = "main_task", FALSE} :
       review' = [review EXCEPT
         !.open = @ \ {call},
         !.buffer = Append(@, [type |-> "llm_response", path |-> call.path,
                               task |-> call.task, blank |-> blank])]
  /\ UNCHANGED <<files, created, left, crossed>>

\* SetError.
CallFails(call) ==
  /\ In("files")
  /\ review' = [review EXCEPT
       !.open = @ \ {call},
       !.buffer = Append(@, [type |-> "llm_error", path |-> call.path,
                             task |-> call.task])]
  /\ UNCHANGED <<files, created, left, crossed>>

Settles(f, type, comments) ==
  /\ Flushes(<<[type |-> type, path |-> f, comments |-> comments]>>)
  /\ review' = [review EXCEPT
       !.buffer = <<>>, !.settled = @ \union {f},
       !.completed = IF type = "done" THEN @ \union {f} ELSE @]
  /\ UNCHANGED <<created, left, crossed>>

\* The file's own call has returned.
MainEnded(f) ==
  /\ f \notin review.settled
  /\ \A c \in review.open : c.path = f => c.task # "main_task"

\* AwaitKey: its comments are located.
Located(f) == \A c \in review.open : c.path # f

\* RecordReviewItemReused, Done and Failed.
ReuseItem(f) ==
  /\ In("files") /\ MainEnded(f) /\ review.resume[f] # NoItem
  /\ Settles(f, "reused", ReusedComments(review.appending, review.resume[f]))

DoneItem(f) ==
  /\ In("files") /\ MainEnded(f) /\ Located(f) /\ review.resume[f] = NoItem
  /\ \E ids \in Answers :
       Settles(f, "done", [i \in DOMAIN ids |-> [path |-> f, id |-> ids[i]]])

FailItemOf(f) ==
  /\ In("files") /\ MainEnded(f) /\ review.resume[f] = NoItem
  /\ Settles(f, "failed", <<>>)

\* The review waits for the files and for the pool.
AllEnded == In("files") /\ review.settled = Reviewed /\ review.open = {}

-----------------------------------------------------------------------------
(* reconcileHistoricalFindings. *)

Of(comments) == IF comments = NoItem THEN {} ELSE ToSet(comments)

Historical == UNION {Of(review.latest[f]) : f \in review.completed}

Current ==
  UNION {Of(LatestComments(files[review.job], f)) : f \in review.completed}

Decision(was, is, status) == [was |-> was, is |-> is, status |-> status]

\* What the model says of each historical finding: the current one it lives
\* on in, or a status.  "new" beside a historical finding names no comment.
Links ==
  {L \in SUBSET (Historical \X Current) :
     \A p, q \in L : p[1] = q[1] <=> p[2] = q[2]}

\* validateReconciliation: each finding is decided once, those the model left
\* out are kept.
Decided(fate, link) ==
  SetToSeq({Decision({h}, {p[2] : p \in {q \in link : q[1] = h}},
                     IF \E p \in link : p[1] = h THEN "unfixed" ELSE fate[h]) :
              h \in Historical})
    \o SetToSeq({Decision({}, {c}, "new") : c \in Current \ {p[2] : p \in link}})

\* The model's answer in two of its orders, or the conservative one.
Reconcile ==
  /\ AllEnded /\ review.completed # {}
  /\ \E fate \in [Historical -> {"fixed", "unfixed", "new"}], link \in Links :
     \E order \in {Decided(fate, link), Reverse(Decided(fate, link))} :
       Flushes(<<[type |-> "finding_reconciliation", path |-> NoItem,
                  decisions |-> order]>>)
  /\ review' = [review EXCEPT !.buffer = <<>>, !.stage = "reconciled"]
  /\ UNCHANGED <<created, left, crossed>>

\* Finalize; a run whose diff does not load ends without an item.
EndReview ==
  /\ \/ In("reconciled") \/ In("loading")
     \/ AllEnded /\ review.completed = {}
  /\ Flushes(<<[type |-> "session_end", path |-> NoItem]>>)
  /\ review' = NoJob
  /\ UNCHANGED <<created, left, crossed>>

\* Some of what is buffered was written; a longer fragment is still one.
KillReview ==
  /\ review # NoJob /\ review' = NoJob
  /\ files' \in IF review.buffer = <<>> \/ Torn(files[review.job]) THEN {files}
                ELSE {files, [files EXCEPT ![review.job] = Append(@, Fragment)]}
  /\ UNCHANGED <<created, left, crossed>>

ReportNext ==
  \/ \E j \in Jobs : BeginReview(j)
  \/ \E f \in Reviewed :
       \/ \E task \in Tasks : Request(f, task)
       \/ ReuseItem(f) \/ DoneItem(f) \/ FailItemOf(f)
  \/ review # NoJob /\ \E call \in review.open : Respond(call) \/ CallFails(call)
  \/ LoadDiffs \/ Spill \/ Reconcile \/ EndReview \/ KillReview

ReportSpec == ReportInit /\ [][ReportNext]_reportVars

-----------------------------------------------------------------------------
(* Reading: findingTracker. *)

\* findingKey: what two findings must share to be one.
Key(finding) == [path |-> finding.path, content |-> finding.id \div 10]

Keys(comments) == {Key(c) : c \in ToSet(comments)}

NewTracker ==
  [baseline |-> {}, current |-> {}, reconsidered |-> {}, active |-> FALSE,
   compared |-> FALSE, ended |-> FALSE, new |-> {}, fixed |-> {}]

Started(t) ==
  [t EXCEPT !.active = TRUE, !.current = t.baseline, !.reconsidered = {}]

\* Mutant of Replaces: every line of a file stands for it.
ReplacesAlways(line) == TRUE

Replaces(line) == line.type = "done" \/ line.comments # <<>>

TrackerApplies(t, line) ==
  LET s == IF t.active THEN t ELSE Started(t)
      kept == IF Replaces(line) THEN {k \in s.current : k.path # line.path}
                                ELSE s.current
  IN  [s EXCEPT !.current = kept \union Keys(line.comments),
                !.reconsidered = IF line.type = "done" THEN @ \union {line.path} ELSE @]

\* The first review that ended is the baseline of the next.
TrackerEnds(t) ==
  CASE ~t.active -> t
    [] t.active /\ ~t.ended ->
         [t EXCEPT !.ended = TRUE, !.active = FALSE, !.baseline = t.current]
    [] t.active /\ t.ended ->
         [t EXCEPT !.compared = TRUE, !.active = FALSE, !.baseline = t.current,
                   !.new = t.current \ t.baseline,
                   !.fixed = {k \in t.baseline : k.path \in t.reconsidered}
                               \ t.current]

Statuses(t) ==
  [k \in t.current \union t.fixed |->
     CASE k \notin t.current -> "fixed"
       [] k \in t.current /\ ~t.compared -> "current"
       [] k \in t.current /\ t.compared ->
            IF k \in t.new THEN "new" ELSE "unfixed"]

\* The finding a decision is shown at.
Named(d) ==
  CASE d.status = "fixed" -> d.was
    [] d.status = "unfixed" -> IF d.is # {} THEN d.is ELSE d.was
    [] d.status = "new" -> d.is

\* applyAIReconciliation: a later decision of the same content wins.
Adjudicated(statuses, decisions) ==
  LET kept == {k \in DOMAIN statuses : statuses[k] # "fixed"}
      Said(k) == {i \in DOMAIN decisions : \E c \in Named(decisions[i]) : Key(c) = k}
      named == {Key(c) : c \in UNION {Named(decisions[i]) : i \in DOMAIN decisions}}
  IN  [k \in kept \union named |->
         IF Said(k) = {} THEN "unfixed"
         ELSE decisions[CHOOSE i \in Said(k) : \A n \in Said(k) : n <= i].status]

-----------------------------------------------------------------------------
(* Reading: LoadSession. *)

EmptyPage ==
  [cards |-> [f \in Reviewed |-> [t \in Tasks |-> <<>>]],
   tracker |-> NewTracker, timelines |-> <<>>, aborted |-> TRUE, from |-> NoJob]

\* A response goes to the last request of its file and task, if that one has
\* no text yet.
AttachResponse(cards, line) ==
  IF cards = <<>> \/ Last(cards).said THEN cards
  ELSE Append(Front(cards), [said |-> ~line.blank, usage |-> TRUE])

ReadLine(page, line) ==
  CASE line.type = "session_start" ->
         IF line.from = NoJob THEN page ELSE [page EXCEPT !.from = line.from]
    [] line.type = "llm_request" ->
         [page EXCEPT !.cards[line.path][line.task] =
                        Append(@, [said |-> FALSE, usage |-> FALSE])]
    [] line.type = "llm_response" ->
         [page EXCEPT !.cards[line.path][line.task] = AttachResponse(@, line)]
    [] line.type \in {"done", "reused"} ->
         [page EXCEPT !.tracker = TrackerApplies(@, line)]
    [] line.type = "finding_reconciliation" ->
         [page EXCEPT !.timelines = Append(@, line.decisions)]
    [] line.type = "session_end" ->
         [page EXCEPT !.aborted = FALSE, !.tracker = TrackerEnds(@)]
    [] OTHER -> page

\* The page after all lines of a file.
PageFrom(lines) ==
  LET page[n \in 0..Len(lines)] ==
        IF n = 0 THEN EmptyPage ELSE ReadLine(page[n - 1], lines[n])
  IN  page[Len(lines)]

PageOf(j) == PageFrom(files[j])

Findings(page) ==
  LET statuses == Statuses(TrackerEnds(page.tracker))
  IN  IF page.timelines = <<>> THEN statuses
      ELSE Adjudicated(statuses, Last(page.timelines))

\* The token usage of the job's own reviews: the cards that have one.
Used(page) ==
  UNION {{<<f, t, i>> : i \in {n \in DOMAIN page.cards[f][t] :
                                 page.cards[f][t][n].usage}} :
           f \in Reviewed, t \in Tasks}

Tokens(page) == Cardinality(Used(page))

-----------------------------------------------------------------------------
(* Properties. *)

LinesOf(j, types) == {i \in DOMAIN files[j] : files[j][i].type \in types}

\* What the file says a review of f found last is on the page, and as fixed
\* only if the model said so of a finding with the same content.
FoundIsShown(j, findings, page) ==
  \A f \in Reviewed : \A c \in Of(LatestComments(files[j], f)) :
    /\ Key(c) \in DOMAIN findings
    /\ findings[Key(c)] = "fixed" =>
         \E i \in DOMAIN Last(page.timelines) :
           LET d == Last(page.timelines)[i]
           IN  d.status = "fixed" /\ \E h \in d.was : Key(h) = Key(c)

\* What is on the page was found by a review whose lines the file holds or
\* that one of them reused, or is decided there; fixed by comparison means
\* reviewed again and not found.
ShownIsFound(j, findings, page) ==
  \A k \in DOMAIN findings :
    \/ \E f \in Reviewed : \E c \in Of(LatestComments(files[j], f)) : Key(c) = k
    \/ \E i \in LinesOf(j, {"finding_reconciliation"}) :
       \E d \in ToSet(files[j][i].decisions) : \E c \in Named(d) : Key(c) = k
    \/ /\ findings[k] = "fixed"
       /\ \E i \in LinesOf(j, {"done", "reused"}), n \in LinesOf(j, {"done"}) :
         i < n /\ k \in Keys(files[j][i].comments) /\ files[j][n].path = k.path
           /\ k \notin Keys(files[j][n].comments)

\* No response is counted twice; each is counted if no two requests of one
\* file and task were under way at once.
TokensOnce(j, page) ==
  /\ Tokens(page) <= Cardinality(LinesOf(j, {"llm_response"}))
  /\ ~crossed => Tokens(page) = Cardinality(LinesOf(j, {"llm_response"}))

\* The report of a job agrees with the lines of its session at every moment
\* of the reviews that write it, after kills, torn lines and reuse included.
ReportAgrees ==
  \A j \in Jobs : LET page == PageOf(j)
                       findings == Findings(page)
                   IN  /\ FoundIsShown(j, findings, page)
                       /\ ShownIsFound(j, findings, page)
                       /\ TokensOnce(j, page)

\* "LoadSession fully parses a JSONL file into a ViewSession" (store.go:602):
\* it follows the session each session says it was resumed from, to an end.
HistoryEnds ==
  \A j \in Jobs : LET from == PageOf(j).from
                   IN  from # NoJob => PageOf(from).from = NoJob
=============================================================================
