----------------------------- MODULE Publisher ------------------------------
(***************************************************************************)
(* The notes the bot keeps on one merge request, revision after revision:  *)
(* findings published by the callbacks of a running review, the progress   *)
(* note, and Publish, which resolves what earlier revisions left, chooses  *)
(* the findings that stay, and replaces the conclusion.                    *)
(*                                                                         *)
(* Every request to GitLab is a step.  Its answer may be lost after the    *)
(* request was carried out; the process may be killed at any moment and    *)
(* the revision is then reviewed again.                                    *)
(***************************************************************************)
EXTENDS Naturals, FiniteSets, SequencesExt

CONSTANTS
  Callbacks,   \* goroutines of the review that report findings and progress
  Publishing,  \* the goroutine that calls Publish
  Findings,    \* the findings a review may make
  SpotOf,      \* path and line of a finding: what its marker tells apart
  NoSpot,      \* a note or a caller without a finding
  RankOf,      \* findingSeverityRank of its severity
  Lined,       \* spots with a path and a line, which may carry a discussion
  MaxPublished, \* maxPublishedFindings
  PageSize,    \* notes on the first page of ListNotes
  LastHead,    \* bound: revisions
  MaxReports,  \* bound: reports of the callbacks
  MaxNotes,    \* bound: notes ever created
  MaxLost      \* bound: requests that fail

ASSUME PublisherAssumption ==
  /\ Publishing \notin Callbacks /\ NoSpot \notin {SpotOf[f] : f \in Findings}
  /\ IsFiniteSet(Findings) /\ IsFiniteSet(Callbacks) /\ Callbacks # {}
  /\ RankOf \in [Findings -> 0..4]
  /\ {MaxPublished, PageSize, LastHead} \subseteq Nat \ {0}
  /\ {MaxReports, MaxNotes, MaxLost} \subseteq Nat

Spots == {SpotOf[f] : f \in Findings}
Callers == Callbacks \union {Publishing}

VARIABLES
  thread,    \* the notes on the merge request
  nextNote,  \* the id of the next note
  head,      \* job.HeadSHA of the review that runs, a number here
  pubPhase,  \* where the review and its Publish are
  callAt,    \* where each caller is in its chain of requests
  carried,   \* the finding, or the note to update, of each caller
  reports,   \* reports made by the callbacks
  plan,      \* Publish: selected, omitted and reconsidered, and work left
  lost,      \* requests that failed so far
  late,      \* a progress note was written after its review had ended
  crowded    \* history: the notes did not fit the first page

pubVars == <<thread, nextNote, head, pubPhase, callAt, carried, reports, plan,
             lost, late, crowded>>

Kinds == {"finding", "progress", "conclusion"}
Phases == {"reviewing", "old", "resolve", "reset", "drop_threads", "reread",
           "drop_notes", "publish", "conclude", "drop_last", "post", "ended"}

NoPlan == [selected |-> {}, omitted |-> {}, paths |-> {}, todo |-> {},
           failed |-> FALSE, verdict |-> FALSE]

PubInit ==
  /\ thread = {} /\ nextNote = 1
  /\ head = 1 /\ pubPhase = "reviewing"
  /\ callAt = [c \in Callers |-> "idle"]
  /\ carried = [c \in Callers |-> NoSpot]
  /\ reports = 0 /\ plan = NoPlan
  /\ lost = 0 /\ late = FALSE /\ crowded = FALSE

-----------------------------------------------------------------------------
(* GitLab. *)

\* doJSON and doForm: an answer, or an error that the bound allows.
Answered(ok) ==
  /\ ok \/ lost < MaxLost
  /\ lost' = IF ok THEN lost ELSE lost + 1

Note(kind, spot, threaded) ==
  [id |-> nextNote, kind |-> kind, head |-> head, spot |-> spot,
   threaded |-> threaded, resolved |-> FALSE]

\* ListNotes: the newest notes, one page of them.
FirstPage ==
  {n \in thread : Cardinality({m \in thread : m.id > n.id}) < PageSize}

\* ListDiscussions: every page.
AllPages == thread

\* CreateNote and CreateDiffDiscussion: a request without an answer may have
\* been carried out.
Creates(note, ok) ==
  /\ nextNote <= MaxNotes /\ nextNote' = nextNote + 1
  /\ Answered(ok)
  /\ thread' \in {thread \union {note}} \union (IF ok THEN {} ELSE {thread})
  /\ crowded' = (crowded \/ Cardinality(thread') > PageSize)

\* DeleteNote, DeleteDiscussion: gone already is a failure that costs nothing.
Deletes(id, ok) ==
  /\ \/ ok /\ id \in {n.id : n \in thread} /\ UNCHANGED lost
     \/ ~ok /\ id \notin {n.id : n \in thread} /\ UNCHANGED lost
     \/ ~ok /\ Answered(FALSE)
  /\ thread' \in {{n \in thread : n.id # id}}
                   \union (IF ok THEN {} ELSE {thread})

-----------------------------------------------------------------------------
(* Markers. *)

CurrentFinding(n) == n.kind = "finding" /\ n.head = head

\* Mutant of HasMarker: the marker leaves the revision out.
HasMarkerOfSpot(n, spot) == n.kind = "finding" /\ n.spot = spot

\* liveFindingMarker: revision, path and line; not what the finding says.
HasMarker(n, spot) == CurrentFinding(n) /\ n.spot = spot

\* liveFindingMRMarkerPrefix: the findings of every revision.
BotFinding(n) == n.kind = "finding"

\* Mutant of Concluded: the prefix of the conclusion names the revision.
ConcludedHead(n) ==
  \/ n.kind = "progress"
  \/ n.kind = "conclusion" /\ n.head = head

\* progressMarkerPrefix and conclusionMarkerPrefix.
Concluded(n) == n.kind \in {"progress", "conclusion"}

-----------------------------------------------------------------------------
(* One caller's chain of requests. *)

Moves(c, place) == callAt' = [callAt EXCEPT ![c] = place]

\* The chain ends; Publish goes on to its next finding.
Returns(c, failed) ==
  /\ Moves(c, "idle")
  /\ carried' = [carried EXCEPT ![c] = NoSpot]
  /\ plan' = IF c = Publishing
             THEN [plan EXCEPT !.failed = @ \/ failed] ELSE plan

Keeps == UNCHANGED <<head, pubPhase, reports, late>>
NoNote == UNCHANGED <<thread, nextNote, crowded>>

\* OnProgress with a finding: PublishLiveFinding begins.
LiveFinding(c, f) ==
  /\ pubPhase = "reviewing" /\ callAt[c] = "idle" /\ reports < MaxReports
  /\ reports' = reports + 1
  /\ Moves(c, "exists")
  /\ carried' = [carried EXCEPT ![c] = SpotOf[f]]
  /\ UNCHANGED <<head, pubPhase, plan, lost, late>> /\ NoNote

NoteExists(c) ==
  /\ callAt[c] = "exists"
  /\ \E ok \in BOOLEAN :
       /\ Answered(ok)
       /\ IF ~ok \/ \E n \in FirstPage : HasMarker(n, carried[c])
          THEN Returns(c, ~ok)
          ELSE Moves(c, "count") /\ UNCHANGED <<carried, plan>>
  /\ Keeps /\ NoNote

LimitReached ==
  Cardinality({n \in FirstPage : CurrentFinding(n)}) >= MaxPublished

\* currentHeadFindingCount: an error does not stop the publication.
CountFindings(c) ==
  /\ callAt[c] = "count"
  /\ \E ok \in BOOLEAN :
       /\ Answered(ok)
       /\ IF ok /\ LimitReached
          THEN Returns(c, FALSE)
          ELSE /\ Moves(c, IF carried[c] \in Lined THEN "version"
                           ELSE "ordinary")
               /\ UNCHANGED <<carried, plan>>
  /\ Keeps /\ NoNote

\* GetDiffVersionForHead: an error, or no version of this head.
GetDiffVersion(c) ==
  /\ callAt[c] = "version"
  /\ \E ok \in BOOLEAN :
       Answered(ok) /\ Moves(c, IF ok THEN "discuss" ELSE "ordinary")
  /\ UNCHANGED <<carried, plan>> /\ Keeps /\ NoNote

\* CreateDiffDiscussion; any error, lost or not, leads to an ordinary note.
CreateDiffDiscussion(c) ==
  /\ callAt[c] = "discuss"
  /\ \/ \E ok \in BOOLEAN :
          /\ Creates(Note("finding", carried[c], TRUE), ok)
          /\ IF ok THEN Returns(c, FALSE)
             ELSE Moves(c, "ordinary") /\ UNCHANGED <<carried, plan>>
     \/ \* IsInvalidDiffPosition: the line is not part of the diff.
        /\ Moves(c, "ordinary")
        /\ UNCHANGED <<carried, plan, lost>> /\ NoNote
  /\ Keeps

PublishOrdinaryFinding(c) ==
  /\ callAt[c] = "ordinary"
  /\ \E ok \in BOOLEAN :
       /\ Creates(Note("finding", carried[c], FALSE), ok)
       /\ Returns(c, ~ok)
  /\ Keeps

\* PublishProgress: UpsertSummaryNote lists and then writes.  A background
\* compression may report its usage when the review has ended.
PublishProgress(c) ==
  /\ callAt[c] = "idle" /\ reports < MaxReports
  /\ reports' = reports + 1
  /\ \E ok \in BOOLEAN :
       /\ Answered(ok)
       /\ LET own == {n \in FirstPage : n.kind = "progress" /\ n.head = head}
          IN  IF ~ok THEN UNCHANGED <<callAt, carried>>
              ELSE /\ Moves(c, "upsert")
                   /\ carried' = [carried EXCEPT ![c] =
                        IF own = {} THEN NoSpot
                        ELSE (CHOOSE n \in own :
                                \A m \in own : m.id <= n.id).id]
  /\ UNCHANGED <<head, pubPhase, plan, late>> /\ NoNote

\* UpdateNote of a note that is gone fails; its error is only logged.
UpsertNote(c) ==
  /\ callAt[c] = "upsert"
  /\ \E ok \in BOOLEAN :
       IF carried[c] = NoSpot
       THEN /\ Creates(Note("progress", NoSpot, FALSE), ok)
            /\ late' = (late \/ pubPhase # "reviewing")
       ELSE Answered(ok) /\ NoNote /\ UNCHANGED late
  /\ Returns(c, FALSE)
  /\ UNCHANGED <<head, pubPhase, reports>>

ChainStep(c) ==
  \/ NoteExists(c) \/ CountFindings(c) \/ GetDiffVersion(c)
  \/ CreateDiffDiscussion(c) \/ PublishOrdinaryFinding(c) \/ UpsertNote(c)

-----------------------------------------------------------------------------
(* Publish. *)

\* The more severe of two findings, the earlier one of two alike.
Precedes(comments, i, j) ==
  \/ RankOf[comments[i]] > RankOf[comments[j]]
  \/ RankOf[comments[i]] = RankOf[comments[j]] /\ i < j

\* selectPublishedFindings: the positions of those that are published.
SelectPublishedFindings(comments) ==
  {i \in DOMAIN comments :
     Cardinality({j \in DOMAIN comments : Precedes(comments, j, i)})
       < MaxPublished}

\* The review ends.  Its findings are some of those made or reused; paths
\* are those of its completed and affected files.  Late progress may go on.
StartPublish ==
  /\ pubPhase = "reviewing"
  /\ \A c \in Callbacks : callAt[c] \in {"idle", "upsert"}
  /\ \E found \in SUBSET Findings, paths \in SUBSET Lined :
       LET comments == SetToSeq(found)
           chosen == SelectPublishedFindings(comments)
       IN  /\ plan' = [NoPlan EXCEPT
                !.selected = {SpotOf[comments[i]] : i \in chosen},
                !.omitted = DOMAIN comments \ chosen,
                !.paths = paths, !.verdict = TRUE]
           /\ pubPhase' = IF paths = {} THEN "reset" ELSE "old"
  /\ UNCHANGED <<head, callAt, carried, reports, lost, late>> /\ NoNote

\* PublishFailure and PublishRuleFailure: a conclusion without findings.
StartFailure ==
  /\ pubPhase = "reviewing"
  /\ \A c \in Callbacks : callAt[c] \in {"idle", "upsert"}
  /\ pubPhase' = "conclude" /\ plan' = NoPlan
  /\ UNCHANGED <<head, callAt, carried, reports, lost, late>> /\ NoNote

Waits == UNCHANGED <<head, callAt, carried, reports, late>>

\* Mutant of Superseded: the discussions of the first page only.
SupersededOnPage ==
  {n \in FirstPage : /\ n.kind = "finding" /\ n.head # head /\ n.threaded
                     /\ n.spot \in plan.paths /\ ~n.resolved}

Superseded ==
  {n \in AllPages : /\ n.kind = "finding" /\ n.head # head /\ n.threaded
                    /\ n.spot \in plan.paths /\ ~n.resolved}

\* resolveSupersededFindings.
ListOldFindings ==
  /\ pubPhase = "old"
  /\ \E ok \in BOOLEAN :
       /\ Answered(ok)
       /\ pubPhase' = IF ok THEN "resolve" ELSE "reset"
       /\ plan' = [plan EXCEPT
                     !.todo = IF ok THEN {n.id : n \in Superseded} ELSE {}]
  /\ Waits /\ NoNote

ResolveDiscussion ==
  /\ pubPhase = "resolve"
  /\ IF plan.todo = {}
     THEN /\ pubPhase' = "reset" /\ UNCHANGED <<thread, plan, lost>>
     ELSE \E id \in plan.todo, ok \in BOOLEAN :
            /\ Answered(ok)
            /\ thread' = IF ok THEN {[n EXCEPT !.resolved = @ \/ n.id = id] :
                                       n \in thread}
                         ELSE thread
            /\ plan' = [plan EXCEPT !.todo = @ \ {id}]
            /\ UNCHANGED pubPhase
  /\ UNCHANGED <<nextNote, crowded>> /\ Waits

\* resetBotFindingComments, when some findings are left out: discussions on
\* every page, then notes of the first page.
ListForReset ==
  /\ pubPhase \in {"reset", "reread"}
  /\ LET listed == IF pubPhase = "reset" THEN AllPages ELSE FirstPage
         next == IF pubPhase = "reset" THEN "drop_threads" ELSE "drop_notes"
     IN  IF plan.omitted = {}
         THEN /\ pubPhase' = "publish" /\ UNCHANGED lost
              /\ plan' = [plan EXCEPT !.todo = plan.selected]
         ELSE \E ok \in BOOLEAN :
                /\ Answered(ok)
                /\ pubPhase' = next
                /\ plan' = [plan EXCEPT !.failed = @ \/ ~ok,
                     !.todo = IF ok THEN {n.id : n \in
                                {m \in listed : BotFinding(m)}} ELSE {}]
  /\ Waits /\ NoNote

\* DeleteDiscussion and DeleteNote, one after the other.
Drop ==
  /\ pubPhase \in {"drop_threads", "drop_notes", "drop_last"}
  /\ IF plan.todo = {}
     THEN /\ pubPhase' = CASE pubPhase = "drop_threads" -> "reread"
                           [] pubPhase = "drop_notes" -> "publish"
                           [] OTHER -> "post"
          /\ plan' = [plan EXCEPT !.todo = IF pubPhase = "drop_notes"
                                           THEN plan.selected ELSE {}]
          /\ UNCHANGED <<thread, lost>>
     ELSE \E id \in plan.todo, ok \in BOOLEAN :
            /\ Deletes(id, ok)
            /\ plan' = [plan EXCEPT !.todo = @ \ {id},
                          !.failed = @ \/ (~ok /\ pubPhase # "drop_last")]
            /\ UNCHANGED pubPhase
  /\ UNCHANGED <<nextNote, crowded>> /\ Waits

\* The loop over the selected findings.
PublishNext ==
  /\ pubPhase = "publish" /\ callAt[Publishing] = "idle"
  /\ IF plan.todo = {}
     THEN pubPhase' = "conclude" /\ UNCHANGED <<callAt, carried, plan>>
     ELSE \E spot \in plan.todo :
            /\ Moves(Publishing, "exists")
            /\ carried' = [carried EXCEPT ![Publishing] = spot]
            /\ plan' = [plan EXCEPT !.todo = @ \ {spot}]
            /\ UNCHANGED pubPhase
  /\ UNCHANGED <<head, reports, lost, late>> /\ NoNote

\* publishConclusion: DeleteNotesWithMarkers, whose errors are only logged.
ListConclusions ==
  /\ pubPhase = "conclude"
  /\ \E ok \in BOOLEAN :
       /\ Answered(ok)
       /\ pubPhase' = IF ok THEN "drop_last" ELSE "post"
       /\ plan' = [plan EXCEPT
            !.todo = IF ok THEN {n.id : n \in {m \in FirstPage : Concluded(m)}}
                     ELSE {}]
  /\ Waits /\ NoNote

\* A verdict that cannot be posted becomes a failure, which is published in
\* its place; a failure that cannot be posted is only finished.
CreateConclusion ==
  /\ pubPhase = "post"
  /\ \E ok \in BOOLEAN :
       /\ Creates(Note("conclusion", NoSpot, FALSE), ok)
       /\ pubPhase' = IF ok \/ ~plan.verdict THEN "ended" ELSE "conclude"
       /\ plan' = IF ok THEN plan ELSE [plan EXCEPT !.verdict = FALSE]
  /\ Waits

PublishStep ==
  \/ StartPublish \/ StartFailure \/ ListOldFindings \/ ResolveDiscussion
  \/ ListForReset \/ Drop \/ PublishNext \/ ListConclusions
  \/ CreateConclusion

-----------------------------------------------------------------------------
(* Around the review. *)

\* The next revision's review; the callers of this one have returned.
NextReview ==
  /\ pubPhase \in {"reviewing", "ended"}
  /\ \A c \in Callers : callAt[c] = "idle"
  /\ head < LastHead /\ head' = head + 1
  /\ pubPhase' = "reviewing" /\ plan' = NoPlan
  /\ late' = FALSE
  /\ UNCHANGED <<callAt, carried, reports, lost>> /\ NoNote

\* The process is killed; RecoverInterrupted has the revision reviewed again.
KillReview ==
  /\ pubPhase # "ended" /\ lost < MaxLost /\ lost' = lost + 1
  /\ pubPhase' = "reviewing" /\ plan' = NoPlan
  /\ callAt' = [c \in Callers |-> "idle"]
  /\ carried' = [c \in Callers |-> NoSpot]
  /\ UNCHANGED <<head, reports, late>> /\ NoNote

PubNext ==
  \/ \E c \in Callbacks : \/ PublishProgress(c)
                          \/ \E f \in Findings : LiveFinding(c, f)
  \/ \E c \in Callers : ChainStep(c)
  \/ PublishStep \/ NextReview \/ KillReview

PubSpec == PubInit /\ [][PubNext]_pubVars

-----------------------------------------------------------------------------
(* Properties. *)

\* The variables keep their types.
PubTypeOK ==
  /\ thread \subseteq [id : 1..MaxNotes, kind : Kinds, head : 1..LastHead,
                       spot : Spots \union {NoSpot}, threaded : BOOLEAN,
                       resolved : BOOLEAN]
  /\ \A n, m \in thread : n.id = m.id => n = m
  /\ nextNote \in 1..MaxNotes + 1 /\ head \in 1..LastHead
  /\ pubPhase \in Phases /\ reports \in 0..MaxReports
  /\ lost \in 0..MaxLost /\ late \in BOOLEAN /\ crowded \in BOOLEAN

Reliable == lost = 0
Fits == ~crowded

\* Callbacks that count at the same time may all find room for one more, and
\* a request whose answer is lost may have been carried out: the limit of a
\* revision is passed by one for each other callback and each lost answer,
\* and by no more (currentHeadFindingCount and what follows it).
LimitPassedByRaceOnly ==
  Fits => Cardinality({n \in thread : CurrentFinding(n)})
            < MaxPublished + Cardinality(Callbacks) + lost

\* When findings were left out, the merge request ends with one note for
\* each selected place and none other, of any revision, whatever was
\* published live before (resetBotFindingComments).
OnlySelectedRemain ==
  pubPhase = "ended" /\ plan.verdict /\ plan.omitted # {} /\ Reliable /\ Fits
    => /\ {n.spot : n \in {m \in thread : m.kind = "finding"}} = plan.selected
       /\ Cardinality({n \in thread : n.kind = "finding"})
            = Cardinality(plan.selected)

\* A selected finding is only missing from the merge request when the limit
\* is used up: by findings published live that the review has dropped since
\* (PublishLiveFinding, called for each selected finding).
SelectedUnlessFull ==
  pubPhase = "ended" /\ plan.verdict /\ Reliable /\ Fits =>
    LET current == {n \in thread : CurrentFinding(n)}
    IN  \/ plan.selected \subseteq {n.spot : n \in current}
        \/ Cardinality(current) >= MaxPublished

\* What is published is the selection, within the limit.
PublishedIsSelected ==
  PubTypeOK /\ LimitPassedByRaceOnly /\ OnlySelectedRemain /\ SelectedUnlessFull

\* A publication leaves the conclusion of its own revision and no progress
\* note but one written behind its back; each failure and each kill, one
\* between the deletion and the creation included, leaves at most one
\* conclusion too many, and the next publication removes it
\* (publishConclusion).
OneConclusion ==
  pubPhase = "ended" /\ Fits =>
    LET conclusions == {n \in thread : n.kind = "conclusion"}
    IN  /\ Cardinality(conclusions) <= 1 + lost
        /\ Reliable =>
             /\ {n.head : n \in conclusions} = {head}
             /\ (\E n \in thread : n.kind = "progress") => late

\* What an earlier revision said of a file that was reviewed again does not
\* stay open, however many notes there are (resolveSupersededFindings).
ReconsideredIsResolved ==
  pubPhase = "ended" /\ plan.verdict /\ Reliable =>
    \A n \in thread :
      n.kind = "finding" /\ n.threaded /\ n.head # head /\ n.spot \in plan.paths
        => n.resolved
=============================================================================
