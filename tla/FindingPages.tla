---------------------------- MODULE FindingPages ----------------------------
(***************************************************************************)
(* What the quality pages show of one merge request's findings: the list   *)
(* of merge requests counts them, the page of a file lists them, and the   *)
(* trend compares each review with the one before.  The pages read the     *)
(* table and the result files that the reviews leave (module JobRecords).  *)
(***************************************************************************)
EXTENDS Naturals, Sequences, FiniteSets, SequencesExt

CONSTANTS
  Comments,   \* comments of a result, told apart by all their columns
  PathOf,     \* the file of each comment
  KeyOf,      \* fixTrendFindingKey: path, line, category and content
  NoResult,   \* there is no ocr-result.json that can be parsed
  MaxReviews, \* bound: jobs of the merge request
  MaxFound    \* bound: comments of a result

ASSUME PagesAssumption ==
  /\ \A c, d \in Comments : KeyOf[c] = KeyOf[d] => PathOf[c] = PathOf[d]
  /\ {MaxReviews, MaxFound} \subseteq Nat /\ NoResult \notin Seq(Comments)

VARIABLE reviews  \* the jobs of the merge request, in the order of queued_at

Results == SeqOf(Comments, MaxFound)

NewReview == [over |-> FALSE, filed |-> FALSE, artifact |-> NoResult, rows |-> {}]

PagesInit == reviews = <<>>

\* Enqueue: a job of a new revision, when no other is active.
QueueReview ==
  /\ Len(reviews) < MaxReviews
  /\ \A j \in DOMAIN reviews : reviews[j].over
  /\ reviews' = Append(reviews, NewReview)

\* RecordFinding, while the review runs.
FindLive(j) ==
  /\ ~reviews[j].over
  /\ \E c \in Comments : reviews' = [reviews EXCEPT ![j].rows = @ \union {c}]

\* ReplaceFindings, WriteResult and Finish: the table has one row of equal ones.
CompleteReview(j) ==
  /\ ~reviews[j].over
  /\ \E result \in Results : reviews' = [reviews EXCEPT ![j] =
       [over |-> TRUE, filed |-> TRUE, artifact |-> result, rows |-> ToSet(result)]]

\* A failed attempt: its result, when it has one, is written all the same.
RetryReview(j) ==
  /\ ~reviews[j].over
  /\ \E result \in Results \union {reviews[j].artifact} :
       reviews' = [reviews EXCEPT ![j].filed = TRUE, ![j].artifact = result]

\* finishInfra leaves the job without an artifact directory.
FailReview(j) ==
  /\ ~reviews[j].over
  /\ reviews' = [reviews EXCEPT ![j].over = TRUE, ![j].filed = FALSE]

PagesNext ==
  \/ QueueReview
  \/ \E j \in DOMAIN reviews :
       FindLive(j) \/ CompleteReview(j) \/ RetryReview(j) \/ FailReview(j)

PagesSpec == PagesInit /\ [][PagesNext]_reviews

-----------------------------------------------------------------------------
(* The pages. *)

Latest == reviews[Len(reviews)]

Filed(review) == review.filed /\ review.artifact # NoResult

CommentsIn(path) == SelectSeq(Latest.artifact, LAMBDA c : PathOf[c] = path)

\* loadQualityMergeRequests and addQualityFinding: the rows of the latest job,
\* or its comments when it has none.
FileIssueCount(path) ==
  IF reviews = <<>> THEN 0
  ELSE IF Latest.rows # {} THEN Cardinality({c \in Latest.rows : PathOf[c] = path})
  ELSE IF Filed(Latest) THEN Len(CommentsIn(path))
  ELSE 0

\* loadQualityFileDetail.
FileFindings(path) ==
  IF reviews = <<>> THEN <<>>
  ELSE IF Latest.rows = {} /\ Filed(Latest) THEN CommentsIn(path)
  ELSE SetToSeq({c \in Latest.rows : PathOf[c] = path})

Keys == {KeyOf[c] : c \in Comments}

\* How often a key is among a result's comments.
Count(result, key) == Cardinality({i \in DOMAIN result : KeyOf[result[i]] = key})

\* A result as a bag: its findings by key, numbered.
Numbered(result) ==
  {finding \in Keys \X (1..Len(result)) : finding[2] <= Count(result, finding[1])}

\* What one result has more of than another.
More(one, other) == Numbered(one) \ Numbered(other)

\* Mutant of FixedSince: a key still there counts all its findings as open.
FixedKeys(previous, current) ==
  {finding \in Numbered(previous) : Count(current, finding[1]) = 0}

FixedSince(previous, current) == More(previous, current)

\* A result that cannot be parsed has no point.
Points == {j \in DOMAIN reviews : Filed(reviews[j])}

UpTo(j) == {i \in Points : i <= j}

\* The result of the point before.
Previous(j) ==
  LET before == {i \in Points : i < j}
  IN  IF before = {} THEN <<>> ELSE reviews[Max(before)].artifact

\* loadFixTrend.
FixTrend ==
  [j \in Points |->
     [issues |-> Len(reviews[j].artifact),
      fixed |-> Cardinality(UNION {{i} \X FixedSince(Previous(i), reviews[i].artifact) :
                                     i \in UpTo(j)})]]

\* What the reviews up to j raised anew.
Raised(j) == UNION {{i} \X More(reviews[i].artifact, Previous(i)) : i \in UpTo(j)}

\* The list counts as many findings of a file as its page shows; and at every
\* point of the trend the open and the fixed findings are together all that
\* were raised anew by some review.
PagesAgree ==
  /\ \A path \in {PathOf[c] : c \in Comments} :
       FileIssueCount(path) = Len(FileFindings(path))
  /\ \A j \in Points :
       FixTrend[j].issues + FixTrend[j].fixed = Cardinality(Raised(j))
=============================================================================
