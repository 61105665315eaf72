------------------------- MODULE PublicationProofs -------------------------
(***************************************************************************)
(* Theorems about the notes the bot keeps on a merge request (Publisher).  *)
(*                                                                         *)
(* The limit holds because each caller that has found room, and each       *)
(* answer that was lost, stands for one note more and no more (LimitFits). *)
(* Publish works through what it listed while nobody else touches notes of *)
(* that kind, so its phases leave what its list says: nothing of the old   *)
(* conclusions, of the discussions to resolve or of the findings to drop.  *)
(***************************************************************************)
EXTENDS Publisher, FiniteSetTheorems, WellFoundedInduction, TLAPS

-----------------------------------------------------------------------------
(* The inductive invariant.                                                *)

NoteRecord == [id : 1..MaxNotes, kind : Kinds, head : 1..LastHead,
               spot : Spots \union {NoSpot}, threaded : BOOLEAN, resolved : BOOLEAN]

PlanRecord == [selected : SUBSET Spots, omitted : SUBSET Nat, paths : SUBSET Lined,
               todo : SUBSET (Nat \union Spots), failed : BOOLEAN, verdict : BOOLEAN]

InChain == {"exists", "count", "version", "discuss", "ordinary"}
CallPlaces == InChain \union {"idle", "upsert"}

\* Every note has an identifier of its own, older than the next one's, and a
\* revision that has been under review.
ThreadFits ==
  /\ thread \in SUBSET NoteRecord /\ IsFiniteSet(thread)
  /\ nextNote \in 1..MaxNotes + 1 /\ head \in 1..LastHead
  /\ \A n \in thread : n.id < nextNote /\ n.head <= head
  /\ \A n, m \in thread : n.id = m.id => n = m
  /\ Fits => Cardinality(thread) <= PageSize

\* Callbacks publish findings during the review only, Publish only after it.
CallersFit ==
  /\ callAt \in [Callers -> CallPlaces] /\ carried = [c \in Callers |-> carried[c]]
  /\ \A c \in Callers : callAt[c] \in InChain => carried[c] \in Spots
  /\ callAt[Publishing] # "upsert"
  /\ pubPhase # "publish" => callAt[Publishing] = "idle"
  /\ pubPhase # "reviewing" => \A c \in Callbacks : callAt[c] \in {"idle", "upsert"}

CountersFit ==
  /\ pubPhase \in Phases /\ reports \in 0..MaxReports /\ lost \in 0..MaxLost
  /\ late \in BOOLEAN /\ crowded \in BOOLEAN

\* What Publish works through are notes it has seen, of the kind it deletes or
\* resolves, or findings it has selected.
PlanFits ==
  /\ plan \in PlanRecord /\ IsFiniteSet(plan.selected)
  /\ Cardinality(plan.selected) <= MaxPublished
  /\ pubPhase \in {"resolve", "drop_threads", "drop_notes", "drop_last"} =>
       \A i \in plan.todo : i \in Nat /\ i < nextNote
  /\ pubPhase \in {"resolve", "drop_threads", "drop_notes"} =>
       \A n \in thread : n.id \in plan.todo => n.kind = "finding"
  /\ pubPhase = "resolve" => \A n \in thread : n.id \in plan.todo => n.head # head
  /\ pubPhase = "drop_last" => \A n \in thread : n.id \in plan.todo => Concluded(n)
  /\ pubPhase = "publish" => plan.todo \subseteq plan.selected

\* The findings of this revision, and the callers that have found room for one
\* more: each may add one.
Current == {n \in thread : CurrentFinding(n)}
Counted == {c \in Callers : callAt[c] \in {"version", "discuss", "ordinary"}}

LimitFits ==
  Fits => Cardinality(Current) + Cardinality(Counted)
            < MaxPublished + Cardinality(Callbacks) + lost

\* Conclusions, and those that stay once Publish is through with its work.
Conclusions == {n \in thread : n.kind = "conclusion"}
Staying == {n \in Conclusions : n.id \notin plan.todo}

ConclusionsFit ==
  Fits =>
    /\ Cardinality(Conclusions) <= 1 + lost
    /\ pubPhase = "drop_last" => Cardinality(Staying) <= lost
    /\ pubPhase = "post" => Cardinality(Conclusions) <= lost

\* Without failures the notes of earlier conclusions and the progress notes
\* are gone, and the new conclusion is this revision's.
NotesReplaced ==
  Reliable /\ Fits =>
    /\ pubPhase = "drop_last" => Staying = {}
    /\ pubPhase = "post" => Conclusions = {}
    /\ pubPhase = "ended" => Conclusions # {} /\ \A n \in Conclusions : n.head = head
    /\ \A n \in thread : n.kind = "progress" =>
         /\ pubPhase = "drop_last" => n.id \in plan.todo \/ late
         /\ pubPhase \in {"post", "ended"} => late

\* After the resolution, nothing of an earlier revision is open in a file that
\* was reviewed again; during it, what is open is still to be resolved.
OldThread(n) ==
  n.kind = "finding" /\ n.threaded /\ n.head # head /\ n.spot \in plan.paths

ResolvedFits ==
  plan.verdict /\ Reliable =>
    \A n \in thread : OldThread(n) /\ ~n.resolved =>
      /\ pubPhase \in {"reviewing", "old", "resolve"}
      /\ pubPhase = "resolve" => n.id \in plan.todo

\* The phases from the loop over the selected findings on.
Published == {"publish", "conclude", "drop_last", "post", "ended"}

\* A selected finding that Publish has still to publish.
Waiting(spot) ==
  pubPhase = "publish" /\ (spot \in plan.todo
                           \/ (callAt[Publishing] # "idle" /\ carried[Publishing] = spot))

Shown(spot) == \E n \in Current : n.spot = spot

SelectionFits ==
  plan.verdict /\ Reliable /\ Fits /\ pubPhase \in Published =>
    \/ \A spot \in plan.selected : Waiting(spot) \/ Shown(spot)
    \/ Cardinality(Current) >= MaxPublished

\* When findings were left out, there is no finding but those that the loop
\* has published since, one for each place.
FindingNotes == {n \in thread : n.kind = "finding"}

ResetFits ==
  plan.verdict /\ Reliable /\ Fits /\ plan.omitted # {} =>
    /\ pubPhase = "drop_threads" => \A n \in FindingNotes : n.id \in plan.todo
    /\ pubPhase \in {"reread", "drop_notes"} => FindingNotes = {}
    /\ pubPhase \in Published =>
         /\ \A n \in FindingNotes : n.head = head /\ n.spot \in plan.selected /\ ~Waiting(n.spot)
         /\ \A n, m \in FindingNotes : n.spot = m.spot => n = m
         /\ \A spot \in plan.selected : Waiting(spot) \/ Shown(spot)
         /\ callAt[Publishing] # "idle" => carried[Publishing] \in plan.selected \ plan.todo

PubInv ==
  /\ ThreadFits /\ CallersFit /\ CountersFit /\ PlanFits
  /\ LimitFits /\ ConclusionsFit /\ NotesReplaced /\ ResolvedFits /\ SelectionFits /\ ResetFits

-----------------------------------------------------------------------------
(* Counting.                                                               *)

\* What is counted is finite.
LEMMA CountsAreNumbers ==
  ASSUME PublisherAssumption, ThreadFits
  PROVE  /\ IsFiniteSet(Current) /\ Cardinality(Current) \in Nat
         /\ IsFiniteSet(Conclusions) /\ Cardinality(Conclusions) \in Nat
         /\ IsFiniteSet(Staying) /\ Cardinality(Staying) \in Nat
         /\ Cardinality(Staying) <= Cardinality(Conclusions)
         /\ IsFiniteSet(Counted) /\ Cardinality(Counted) \in Nat
         /\ Cardinality(Callbacks) \in Nat \ {0}
<1>1. Current \in SUBSET thread /\ Conclusions \in SUBSET thread /\ Staying \in SUBSET Conclusions
  BY DEF Current, Conclusions, Staying
<1>2. IsFiniteSet(thread)
  BY DEF ThreadFits
<1>3. IsFiniteSet(Current) /\ IsFiniteSet(Conclusions)
  BY <1>1, <1>2, FS_Subset
<1>4. IsFiniteSet(Staying) /\ Cardinality(Staying) <= Cardinality(Conclusions)
  BY <1>1, <1>3, FS_Subset
<1>5. IsFiniteSet(Callbacks) /\ Callbacks # {}
  BY DEF PublisherAssumption
<1>6. IsFiniteSet(Callers)
  BY <1>5, FS_AddElement DEF Callers
<1>7. Counted \in SUBSET Callers
  BY DEF Counted
<1>8. IsFiniteSet(Counted)
  BY <1>6, <1>7, FS_Subset
<1>9. Cardinality(Callbacks) # 0
  BY <1>5, FS_EmptySet
<1> QED BY <1>3, <1>4, <1>5, <1>8, <1>9, FS_CardinalityType

\* As long as the notes fit, the first page shows them all.
LEMMA PageShowsAll ==
  ASSUME PublisherAssumption, ThreadFits, Fits
  PROVE  FirstPage = thread
<1>1. ASSUME NEW n \in thread
      PROVE  Cardinality({m \in thread : m.id > n.id}) < PageSize
  <2> DEFINE newer == {m \in thread : m.id > n.id}
  <2>1. newer \in SUBSET thread /\ n.id \in Nat
    BY DEF ThreadFits, NoteRecord
  <2>2. newer # thread
    BY <2>1
  <2>3. IsFiniteSet(thread) /\ Cardinality(thread) <= PageSize /\ PageSize \in Nat
    BY DEF ThreadFits, PublisherAssumption
  <2> HIDE DEF newer
  <2>4. IsFiniteSet(newer) /\ Cardinality(newer) <= Cardinality(thread)
        /\ Cardinality(newer) # Cardinality(thread)
    BY <2>1, <2>2, <2>3, FS_Subset
  <2>5. Cardinality(newer) \in Nat /\ Cardinality(thread) \in Nat
    BY <2>3, <2>4, FS_CardinalityType
  <2> QED BY <2>3, <2>4, <2>5 DEF newer
<1> QED BY <1>1 DEF FirstPage

\* The sequence of some findings has each of them once.
LEMMA SequenceOfFindings ==
  ASSUME PublisherAssumption, NEW found \in SUBSET Findings
  PROVE  /\ DOMAIN SetToSeq(found) = 1..Cardinality(found) /\ Cardinality(found) \in Nat
         /\ \A i \in DOMAIN SetToSeq(found) : SetToSeq(found)[i] \in Findings
<1>1. IsFiniteSet(found)
  BY FS_Subset DEF PublisherAssumption
<1>2. Cardinality(found) \in Nat /\ ExistsBijection(1..Cardinality(found), found)
  BY <1>1, FS_CardinalityType
<1>3. \E f \in [1..Cardinality(found) -> found] : IsInjective(f)
  BY <1>2 DEF ExistsBijection, Bijection, Injection, IsInjective
<1>4. SetToSeq(found) \in [1..Cardinality(found) -> found]
  BY <1>3 DEF SetToSeq
<1> QED BY <1>2, <1>4

\* selectPublishedFindings selects no more than may be published: of those it
\* selects, all others precede the last one.
LEMMA SelectionWithinLimit ==
  ASSUME PublisherAssumption, NEW found \in SUBSET Findings
  PROVE  LET chosen == SelectPublishedFindings(SetToSeq(found)) IN
         IsFiniteSet(chosen) /\ Cardinality(chosen) <= MaxPublished
<1> DEFINE s == SetToSeq(found)
           D == DOMAIN s
           Before(i) == {j \in D : Precedes(s, j, i)}
           chosen == {i \in D : Cardinality(Before(i)) < MaxPublished}
<1>1. /\ D = 1..Cardinality(found) /\ Cardinality(found) \in Nat
      /\ \A i \in D : RankOf[s[i]] \in 0..4
  BY SequenceOfFindings DEF PublisherAssumption
<1>2. SelectPublishedFindings(s) = chosen
  BY DEF SelectPublishedFindings
<1>3. IsFiniteSet(D) /\ MaxPublished \in Nat \ {0} /\ D \in SUBSET Nat
  <2>1. IsFiniteSet(1..Cardinality(found))
    BY <1>1, FS_Interval
  <2> HIDE DEF D
  <2> QED BY <1>1, <2>1 DEF PublisherAssumption
<1> HIDE DEF D, s
<1>4. \A i \in D : Before(i) \in SUBSET D /\ IsFiniteSet(Before(i)) /\ Cardinality(Before(i)) \in Nat
  BY <1>3, FS_Subset, FS_CardinalityType
<1>5. IsFiniteSet(chosen)
  BY <1>3, FS_Subset
<1>6. CASE chosen = {}
  <2>1. Cardinality(chosen) = 0
    BY <1>6, FS_EmptySet
  <2> HIDE DEF chosen
  <2> QED BY <1>2, <1>3, <1>5, <2>1 DEF s
<1>7. CASE chosen # {}
  <2> DEFINE Room(i) == MaxPublished - Cardinality(Before(i))
             Rooms == {Room(i) : i \in chosen}
             R == {pair \in Nat \X Nat : pair[1] < pair[2]}
  <2>1. IsWellFoundedOn(R, Nat)
    BY NatLessThanWellFounded DEF OpToRel
  <2>2. Rooms \in SUBSET Nat /\ Rooms # {}
    <3>1. ASSUME NEW i \in chosen PROVE Room(i) \in Nat
      <4>1. i \in D /\ Cardinality(Before(i)) < MaxPublished
        OBVIOUS
      <4>2. Cardinality(Before(i)) \in Nat
        BY <1>4, <4>1
      <4> HIDE DEF Before
      <4> QED BY <1>3, <4>1, <4>2
    <3> HIDE DEF Room, chosen
    <3> QED BY <1>7, <3>1
  <2>3. PICK x \in Rooms : \A y \in Rooms : ~(<<y, x>> \in R)
    <3> HIDE DEF Rooms, R
    <3> QED BY <2>1, <2>2, WFMin
  <2>4. PICK i \in chosen : x = Room(i)
    BY <2>3
  <2>5. ASSUME NEW j \in chosen, j # i PROVE j \in Before(i)
    <3>1. i \in D /\ j \in D /\ i \in Nat /\ j \in Nat
      BY <1>3
    <3>2. SUFFICES ASSUME j \notin Before(i) PROVE FALSE
      OBVIOUS
    <3>3. Precedes(s, i, j)
      BY SMTT(30), <1>1, <2>5, <3>1, <3>2 DEF Precedes
    <3>4. Before(i) \subseteq Before(j)
      <4>1. SUFFICES ASSUME NEW k \in D, Precedes(s, k, i) PROVE Precedes(s, k, j)
        OBVIOUS
      <4>2. k \in Nat /\ i \in Nat /\ j \in Nat
        BY <1>3, <3>1
      <4>3. RankOf[s[k]] \in 0..4 /\ RankOf[s[i]] \in 0..4 /\ RankOf[s[j]] \in 0..4
        BY <1>1, <3>1
      <4> QED BY <3>3, <4>1, <4>2, <4>3 DEF Precedes
    <3>5. ~Precedes(s, i, i)
      BY SMTT(30), <1>1, <3>1 DEF Precedes
    <3>6. i \in Before(j) /\ i \notin Before(i)
      BY <3>1, <3>3, <3>5
    <3>7. Cardinality(Before(i)) < Cardinality(Before(j))
      <4>1. IsFiniteSet(Before(j)) /\ Before(i) \in SUBSET Before(j) /\ Before(i) # Before(j)
        BY <1>4, <3>1, <3>4, <3>6
      <4>2. Cardinality(Before(i)) <= Cardinality(Before(j))
            /\ Cardinality(Before(i)) # Cardinality(Before(j))
        <5> HIDE DEF Before
        <5> QED BY <4>1, FS_Subset
      <4>3. Cardinality(Before(i)) \in Nat /\ Cardinality(Before(j)) \in Nat
        BY <1>4, <3>1
      <4> QED BY <4>2, <4>3
    <3>8. Room(j) \in Rooms /\ Room(j) < Room(i) /\ Room(j) \in Nat /\ Room(i) \in Nat
      <4>1. Cardinality(Before(i)) \in Nat /\ Cardinality(Before(j)) \in Nat
        BY <1>4, <3>1
      <4>2. Cardinality(Before(j)) < MaxPublished
        BY <2>5
      <4>3. Room(j) \in Rooms
        BY <2>5
      <4> HIDE DEF Before, Rooms
      <4> QED BY <1>3, <3>7, <4>1, <4>2, <4>3
    <3>9. <<Room(j), Room(i)>> \in R
      <4> DEFINE a == Room(j)
                 b == Room(i)
      <4> HIDE DEF a, b
      <4>1. a \in Nat /\ b \in Nat /\ a < b
        BY <3>8 DEF a, b
      <4>2. <<a, b>> \in R
        BY <4>1
      <4> QED BY <4>2 DEF a, b
    <3> QED BY <2>3, <2>4, <3>8, <3>9
  <2>6. chosen \in SUBSET (Before(i) \union {i})
    BY <2>5
  <2>7. IsFiniteSet(Before(i)) /\ Cardinality(Before(i)) \in Nat
        /\ Cardinality(Before(i)) < MaxPublished
    BY <1>4
  <2> HIDE DEF Before
  <2>8. /\ IsFiniteSet(Before(i) \union {i})
        /\ Cardinality(Before(i) \union {i}) \in {Cardinality(Before(i)), Cardinality(Before(i)) + 1}
    BY <2>7, FS_AddElement
  <2>9. Cardinality(chosen) <= Cardinality(Before(i) \union {i})
    <3> HIDE DEF chosen
    <3> QED BY <2>6, <2>8, FS_Subset
  <2>10. Cardinality(chosen) \in Nat
    <3> HIDE DEF chosen
    <3> QED BY <1>5, FS_CardinalityType
  <2>11. Cardinality(chosen) <= MaxPublished
    BY <1>3, <2>7, <2>8, <2>9, <2>10
  <2> QED BY <1>2, <1>5, <2>11 DEF s
<1> QED BY <1>6, <1>7

-----------------------------------------------------------------------------
(* It holds at the start.                                                  *)

\* No notes, no calls and no plan.
LEMMA PubInvInit == PublisherAssumption /\ PubInit => PubInv
<1> SUFFICES ASSUME PublisherAssumption, PubInit PROVE PubInv
  OBVIOUS
<1>1. IsFiniteSet(thread) /\ Cardinality(thread) = 0
  BY FS_EmptySet DEF PubInit
<1>2. ThreadFits
  BY <1>1 DEF PubInit, ThreadFits, PublisherAssumption
<1>3. CallersFit
  BY DEF PubInit, CallersFit, CallPlaces, InChain, Callers
<1>4. CountersFit
  <2>1. 0 \in 0..MaxReports /\ 0 \in 0..MaxLost
    BY DEF PublisherAssumption
  <2> QED BY <2>1 DEF PubInit, CountersFit, Phases
<1>5. PlanFits
  <2>1. plan = NoPlan /\ NoPlan \in PlanRecord /\ NoPlan.selected = {}
    BY DEF PubInit, NoPlan, PlanRecord
  <2>2. IsFiniteSet({}) /\ Cardinality({}) = 0
    BY FS_EmptySet
  <2> QED BY <2>1, <2>2 DEF PubInit, PlanFits, PublisherAssumption
<1>6. Current = {} /\ Conclusions = {} /\ Counted = {}
  BY DEF PubInit, Current, Conclusions, Counted
<1>7. LimitFits /\ ConclusionsFit
  <2>1. Cardinality({}) = 0 /\ Cardinality(Callbacks) \in Nat \ {0}
    BY <1>2, FS_EmptySet, CountsAreNumbers
  <2> QED BY <1>6, <2>1 DEF PubInit, LimitFits, ConclusionsFit, PublisherAssumption
<1> QED BY <1>2, <1>3, <1>4, <1>5, <1>7
        DEF PubInit, PubInv, NotesReplaced, ResolvedFits, SelectionFits, ResetFits, Published

-----------------------------------------------------------------------------
(* Steps that create no note.                                              *)

\* The plan is the one it was, but that something may have failed.
PlanKept ==
  /\ plan' \in PlanRecord /\ plan'.selected = plan.selected /\ plan'.omitted = plan.omitted
  /\ plan'.paths = plan.paths /\ plan'.todo = plan.todo /\ plan'.verdict = plan.verdict

\* A request was answered or not.
CostFits == lost' \in 0..MaxLost /\ lost' >= lost

\* An answer, or none, is within the bound.
LEMMA AnsweredFits ==
  ASSUME PublisherAssumption, CountersFit, NEW ok \in BOOLEAN, Answered(ok)
  PROVE  CostFits /\ (ok => lost' = lost) /\ (~ok => lost' = lost + 1) /\ lost \in Nat
BY DEF PublisherAssumption, CountersFit, Answered, CostFits

\* A step of a caller that leaves the notes alone leaves what is said of them.
LEMMA QuietStep ==
  ASSUME PublisherAssumption, PubInv, UNCHANGED <<thread, nextNote, crowded, head, pubPhase, late>>,
         CostFits, reports' \in 0..MaxReports, PlanKept,
         CallersFit', LimitFits', SelectionFits', ResetFits'
  PROVE  PubInv'
<1>1. ThreadFits' /\ CountersFit'
  BY DEF PubInv, ThreadFits, CountersFit, CostFits, Fits
<1>2. PlanFits'
  BY DEF PubInv, PlanFits, PlanKept, Concluded
<1>3. Conclusions' = Conclusions /\ Staying' = Staying
  BY DEF Conclusions, Staying, PlanKept
<1>4. ThreadFits /\ lost \in Nat /\ lost' \in Nat /\ lost' >= lost
  BY DEF PubInv, CountersFit, CostFits, PublisherAssumption
<1>5. Cardinality(Conclusions) \in Nat /\ Cardinality(Staying) \in Nat
  BY <1>4, CountsAreNumbers
<1>6. ConclusionsFit'
  BY <1>3, <1>4, <1>5 DEF PubInv, ConclusionsFit, Fits
<1>7. NotesReplaced'
  BY <1>3, <1>4 DEF PubInv, NotesReplaced, Reliable, Fits, PlanKept
<1>8. ResolvedFits'
  BY <1>4 DEF PubInv, ResolvedFits, OldThread, Reliable, PlanKept
<1> QED BY <1>1, <1>2, <1>6, <1>7, <1>8 DEF PubInv

\* A caller moves to its next place.
CallerAt(c, place, x) ==
  /\ callAt' = [callAt EXCEPT ![c] = place]
  /\ carried' = [carried EXCEPT ![c] = x]

\* Where a caller may move.
LEMMA CallerMoves ==
  ASSUME PublisherAssumption, CallersFit, NEW c \in Callers, NEW place \in CallPlaces, NEW x,
         CallerAt(c, place, x), UNCHANGED pubPhase, place \in InChain => x \in Spots,
         c = Publishing => place \in InChain \union {"idle"},
         c = Publishing /\ place # "idle" => pubPhase = "publish",
         c \in Callbacks /\ place \in InChain => pubPhase = "reviewing"
  PROVE  /\ CallersFit' /\ callAt'[c] = place /\ carried'[c] = x
         /\ \A d \in Callers : d # c => callAt'[d] = callAt[d] /\ carried'[d] = carried[d]
<1>1. /\ callAt'[c] = place /\ carried'[c] = x
      /\ \A d \in Callers : d # c => callAt'[d] = callAt[d] /\ carried'[d] = carried[d]
  BY DEF CallersFit, CallerAt
<1>2. callAt' \in [Callers -> CallPlaces] /\ carried' = [d \in Callers |-> carried'[d]]
  BY DEF CallersFit, CallerAt
<1>3. Publishing \in Callers /\ Publishing \notin Callbacks /\ Callbacks \subseteq Callers
  BY DEF Callers, PublisherAssumption
<1>4. \A d \in Callers : callAt'[d] \in InChain => carried'[d] \in Spots
  BY <1>1 DEF CallersFit
<1>5. callAt'[Publishing] # "upsert" /\ (pubPhase # "publish" => callAt'[Publishing] = "idle")
  BY <1>1, <1>3 DEF CallersFit, InChain
<1>6. ASSUME pubPhase # "reviewing", NEW d \in Callbacks PROVE callAt'[d] \in {"idle", "upsert"}
  BY <1>1, <1>3, <1>6 DEF CallersFit, CallPlaces
<1> QED BY <1>1, <1>2, <1>4, <1>5, <1>6 DEF CallersFit

\* A move that leaves the notes alone lets nobody in who was not counted.
LEMMA NobodyJoins ==
  ASSUME PublisherAssumption, PubInv, UNCHANGED <<thread, crowded, head>>, CostFits,
         Counted' \subseteq Counted
  PROVE  LimitFits'
<1>1. Current' = Current
  BY DEF Current, CurrentFinding
<1>2. /\ IsFiniteSet(Counted) /\ Cardinality(Counted) \in Nat /\ Cardinality(Current) \in Nat
      /\ Cardinality(Callbacks) \in Nat
  BY CountsAreNumbers DEF PubInv
<1> DEFINE N == Counted'
<1>3. N \in SUBSET Counted
  OBVIOUS
<1> HIDE DEF N
<1>4. IsFiniteSet(N) /\ Cardinality(N) <= Cardinality(Counted)
  BY <1>2, <1>3, FS_Subset
<1>5. Cardinality(N) \in Nat
  BY <1>4, FS_CardinalityType
<1>6. lost \in Nat /\ lost' \in Nat /\ lost' >= lost /\ MaxPublished \in Nat
  BY DEF PubInv, CountersFit, CostFits, PublisherAssumption
<1>7. Fits => Cardinality(Current) + Cardinality(Counted)
                < MaxPublished + Cardinality(Callbacks) + lost
  BY DEF PubInv, LimitFits
<1>8. Fits => Cardinality(Current) + Cardinality(N) < MaxPublished + Cardinality(Callbacks) + lost'
  BY <1>2, <1>4, <1>5, <1>6, <1>7
<1> QED BY <1>1, <1>8 DEF LimitFits, Fits, N

\* One caller joins who has found room, or who was not told.
LEMMA OneJoins ==
  ASSUME PublisherAssumption, PubInv, UNCHANGED <<thread, crowded, head>>, CostFits, CallersFit',
         NEW c \in Callers, Counted' \subseteq Counted \union {c},
         Fits => lost' = lost + 1 \/ Cardinality(Current) < MaxPublished
  PROVE  LimitFits'
<1>1. Current' = Current
  BY DEF Current, CurrentFinding
<1>2. /\ IsFiniteSet(Counted) /\ Cardinality(Counted) \in Nat /\ Cardinality(Current) \in Nat
      /\ Cardinality(Callbacks) \in Nat \ {0}
  BY CountsAreNumbers DEF PubInv
<1> DEFINE N == Counted'
<1>3. N \in SUBSET (Counted \union {c}) /\ (N \subseteq Callbacks \/ N \subseteq {Publishing})
  <2>1. CASE pubPhase' = "reviewing"
    BY <2>1 DEF CallersFit, Counted, Callers
  <2>2. CASE pubPhase' # "reviewing"
    <3>1. \A d \in Callbacks : callAt'[d] \in {"idle", "upsert"}
      BY <2>2 DEF CallersFit
    <3> QED BY <3>1 DEF Counted, Callers
  <2> QED BY <2>1, <2>2
<1> HIDE DEF N
<1>4. IsFiniteSet(N) /\ Cardinality(N) \in Nat /\ Cardinality(N) <= Cardinality(Counted) + 1
  <2>1. /\ IsFiniteSet(Counted \union {c})
        /\ Cardinality(Counted \union {c}) \in {Cardinality(Counted), Cardinality(Counted) + 1}
    BY <1>2, FS_AddElement
  <2>2. IsFiniteSet(N) /\ Cardinality(N) <= Cardinality(Counted \union {c})
    BY <1>3, <2>1, FS_Subset
  <2>3. Cardinality(N) \in Nat
    BY <2>2, FS_CardinalityType
  <2> QED BY <1>2, <2>1, <2>2, <2>3
<1>5. Cardinality(N) <= Cardinality(Callbacks)
  <2>1. CASE N \subseteq Callbacks
    BY <2>1, FS_Subset DEF PublisherAssumption
  <2>2. CASE N \subseteq {Publishing}
    <3>1. IsFiniteSet({Publishing}) /\ Cardinality({Publishing}) = 1
      BY FS_Singleton
    <3>2. Cardinality(N) <= Cardinality({Publishing})
      BY <2>2, <3>1, FS_Subset
    <3> QED BY <1>2, <1>4, <3>1, <3>2
  <2> QED BY <1>3, <2>1, <2>2
<1>6. lost \in Nat /\ lost' \in Nat /\ lost' >= lost /\ MaxPublished \in Nat
  BY DEF PubInv, CountersFit, CostFits, PublisherAssumption
<1>7. Fits => Cardinality(Current) + Cardinality(Counted)
                < MaxPublished + Cardinality(Callbacks) + lost
  BY DEF PubInv, LimitFits
<1>8. Fits => Cardinality(Current) + Cardinality(N) < MaxPublished + Cardinality(Callbacks) + lost'
  BY <1>2, <1>4, <1>5, <1>6, <1>7
<1> QED BY <1>1, <1>8 DEF LimitFits, Fits, N

\* What the selection waits for stays while Publish's own caller goes on with
\* the same finding.
LEMMA SelectionKept ==
  ASSUME PubInv, UNCHANGED <<thread, crowded, head, pubPhase>>, CostFits, PlanKept,
         callAt'[Publishing] = "idle" <=> callAt[Publishing] = "idle",
         carried'[Publishing] = carried[Publishing]
  PROVE  SelectionFits' /\ ResetFits'
<1>1. /\ lost' = 0 => lost = 0
      /\ Current' = Current /\ FindingNotes' = FindingNotes
  BY DEF PubInv, CountersFit, CostFits, Current, CurrentFinding, FindingNotes
<1>2. \A spot : (Waiting(spot) => Waiting(spot)') /\ (Waiting(spot)' => Waiting(spot))
                /\ (Shown(spot) => Shown(spot)')
  BY <1>1 DEF Waiting, Shown, PlanKept
<1>3. SelectionFits'
  BY <1>1, <1>2 DEF PubInv, SelectionFits, Reliable, Fits, PlanKept
<1>4. ResetFits'
  BY <1>1, <1>2 DEF PubInv, ResetFits, Reliable, Fits, PlanKept
<1> QED BY <1>3, <1>4

\* When findings were left out there is room for each selected one.
LEMMA RoomAfterReset ==
  ASSUME PublisherAssumption, PubInv, plan.verdict, Reliable, Fits, plan.omitted # {},
         callAt[Publishing] # "idle"
  PROVE  Cardinality(Current) < MaxPublished
<1>1. pubPhase = "publish"
  BY DEF PubInv, CallersFit
<1> DEFINE spot == carried[Publishing]
           others == plan.selected \ {spot}
           f == [n \in Current |-> n.spot]
<1>2. spot \in plan.selected /\ Waiting(spot)
  BY <1>1 DEF PubInv, ResetFits, Published, Waiting
<1>3. \A n \in Current : n.spot \in plan.selected /\ n.spot # spot
  BY <1>1, <1>2 DEF PubInv, ResetFits, Published, Current, CurrentFinding, FindingNotes
<1>4. f \in [Current -> others]
  BY <1>3
<1>5. \A n, m \in Current : f[n] = f[m] => n = m
  BY <1>1 DEF PubInv, ResetFits, Published, Current, CurrentFinding, FindingNotes
<1>6. f \in Injection(Current, others)
  BY <1>4, <1>5 DEF Injection, IsInjective
<1>7. /\ IsFiniteSet(plan.selected) /\ Cardinality(plan.selected) <= MaxPublished
      /\ MaxPublished \in Nat
  BY DEF PubInv, PlanFits, PublisherAssumption
<1>8. Cardinality(plan.selected) \in Nat
  BY <1>7, FS_CardinalityType
<1>9. IsFiniteSet(others) /\ Cardinality(others) = Cardinality(plan.selected) - 1
  BY SMTT(30), <1>2, <1>7, FS_RemoveElement
<1> HIDE DEF f, others
<1>10. Cardinality(Current) <= Cardinality(others)
  BY <1>6, <1>9, FS_Injection
<1>11. Cardinality(Current) \in Nat
  BY CountsAreNumbers DEF PubInv
<1> QED BY <1>7, <1>8, <1>9, <1>10, <1>11

\* Publish's caller returns because its finding is shown or there is no room.
LEMMA SelectionReturns ==
  ASSUME PublisherAssumption, PubInv, UNCHANGED <<thread, crowded, head, pubPhase>>, CostFits,
         PlanKept, callAt[Publishing] # "idle", callAt'[Publishing] = "idle",
         lost' = 0 /\ Fits => Shown(carried[Publishing]) \/ Cardinality(Current) >= MaxPublished
  PROVE  SelectionFits' /\ ResetFits'
<1>1. /\ lost' = 0 => lost = 0
      /\ Current' = Current /\ FindingNotes' = FindingNotes
  BY DEF PubInv, CountersFit, CostFits, Current, CurrentFinding, FindingNotes
<1>2. \A spot : /\ Waiting(spot) => Waiting(spot)' \/ spot = carried[Publishing]
                /\ Waiting(spot)' => Waiting(spot)
                /\ Shown(spot) => Shown(spot)'
  BY <1>1 DEF Waiting, Shown, PlanKept
<1>3. SelectionFits'
  BY <1>1, <1>2 DEF PubInv, SelectionFits, Reliable, Fits, PlanKept
<1>4. ASSUME plan.verdict, lost' = 0, Fits, plan.omitted # {} PROVE Shown(carried[Publishing])
  <2>1. Cardinality(Current) < MaxPublished
    BY <1>1, <1>4, RoomAfterReset DEF Reliable
  <2>2. Cardinality(Current) \in Nat /\ MaxPublished \in Nat
    BY CountsAreNumbers DEF PubInv, PublisherAssumption
  <2> QED BY <1>4, <2>1, <2>2
<1>5. ResetFits'
  BY <1>1, <1>2, <1>4 DEF PubInv, ResetFits, Reliable, Fits, PlanKept
<1> QED BY <1>3, <1>5

\* Where a caller in its chain may be.
LEMMA ChainPlaces ==
  ASSUME PublisherAssumption, CallersFit, NEW c \in Callers, callAt[c] \in InChain
  PROVE  /\ carried[c] \in Spots /\ carried = [carried EXCEPT ![c] = carried[c]]
         /\ c = Publishing => pubPhase = "publish"
         /\ c # Publishing => c \in Callbacks /\ pubPhase = "reviewing"
         /\ Publishing \in Callers
BY DEF CallersFit, InChain, Callers

\* What a caller's return does to the plan: something may have failed.
LEMMA ReturnKeepsPlan ==
  ASSUME PubInv, NEW c, NEW failed \in BOOLEAN,
         plan' = IF c = Publishing THEN [plan EXCEPT !.failed = @ \/ failed] ELSE plan
  PROVE  PlanKept
<1>1. plan \in PlanRecord
  BY DEF PubInv, PlanFits
<1>2. plan.failed \/ failed \in BOOLEAN
  OBVIOUS
<1>3. CASE c = Publishing
  <2>1. plan' = [plan EXCEPT !.failed = plan.failed \/ failed]
    BY <1>3
  <2> QED BY <1>1, <1>2, <2>1 DEF PlanRecord, PlanKept
<1>4. CASE c # Publishing
  BY <1>1, <1>4 DEF PlanKept
<1> QED BY <1>3, <1>4

\* A caller goes on to its next request.
LEMMA CallerGoesOn ==
  ASSUME PublisherAssumption, PubInv, NEW c \in Callers, callAt[c] \in InChain, NEW place \in InChain,
         UNCHANGED <<thread, nextNote, crowded, head, pubPhase, late, reports, plan, carried>>,
         CostFits, callAt' = [callAt EXCEPT ![c] = place],
         \/ callAt[c] \in {"version", "discuss", "ordinary"} \/ place \in {"exists", "count"}
         \/ (Fits => lost' = lost + 1 \/ Cardinality(Current) < MaxPublished)
  PROVE  PubInv'
<1>1. CallersFit /\ plan \in PlanRecord /\ reports' \in 0..MaxReports
  BY DEF PubInv, PlanFits, CountersFit
<1>2. CallerAt(c, place, carried[c]) /\ PlanKept
  BY <1>1, ChainPlaces DEF CallerAt, PlanKept
<1>3. /\ CallersFit' /\ callAt'[c] = place /\ carried'[c] = carried[c]
      /\ \A d \in Callers : d # c => callAt'[d] = callAt[d] /\ carried'[d] = carried[d]
  BY <1>1, <1>2, ChainPlaces, CallerMoves DEF CallPlaces
<1>4. /\ Counted' \subseteq Counted \union {c}
      /\ callAt[c] \in {"version", "discuss", "ordinary"} \/ place \in {"exists", "count"}
           => Counted' \subseteq Counted
  BY <1>3 DEF Counted
<1>5. LimitFits'
  BY <1>3, <1>4, NobodyJoins, OneJoins
<1>6. callAt'[Publishing] = "idle" <=> callAt[Publishing] = "idle"
  BY <1>1, <1>3, ChainPlaces DEF InChain
<1>7. SelectionFits' /\ ResetFits'
  BY <1>2, <1>6, SelectionKept
<1> QED BY <1>1, <1>2, <1>3, <1>5, <1>7, QuietStep

\* A caller's chain ends: its finding is shown, there is no room, or a request
\* has failed.
LEMMA CallerReturns ==
  ASSUME PublisherAssumption, PubInv, NEW c \in Callers, callAt[c] \in InChain, NEW failed \in BOOLEAN,
         UNCHANGED <<thread, nextNote, crowded, head, pubPhase, late, reports>>,
         CostFits, Returns(c, failed),
         lost' = 0 /\ Fits => Shown(carried[c]) \/ Cardinality(Current) >= MaxPublished
  PROVE  PubInv'
<1>1. CallersFit /\ reports' \in 0..MaxReports
  BY DEF PubInv, CountersFit
<1>2. CallerAt(c, "idle", NoSpot) /\ PlanKept
  BY ReturnKeepsPlan DEF CallerAt, Returns, Moves
<1>3. /\ CallersFit' /\ callAt'[c] = "idle" /\ carried'[c] = NoSpot
      /\ \A d \in Callers : d # c => callAt'[d] = callAt[d] /\ carried'[d] = carried[d]
  BY <1>1, <1>2, ChainPlaces, CallerMoves DEF CallPlaces, InChain
<1>4. LimitFits'
  <2>1. Counted' \subseteq Counted
    BY <1>3 DEF Counted
  <2> QED BY <2>1, NobodyJoins
<1>5. SelectionFits' /\ ResetFits'
  <2>1. CASE c = Publishing
    <3>1. callAt[Publishing] # "idle" /\ callAt'[Publishing] = "idle"
      BY <1>3, <2>1 DEF InChain
    <3> QED BY <1>2, <2>1, <3>1, SelectionReturns
  <2>2. CASE c # Publishing
    <3>1. callAt'[Publishing] = callAt[Publishing] /\ carried'[Publishing] = carried[Publishing]
      BY <1>1, <1>3, <2>2, ChainPlaces
    <3> QED BY <1>2, <3>1, SelectionKept
  <2> QED BY <2>1, <2>2
<1> QED BY <1>1, <1>2, <1>3, <1>4, <1>5, QuietStep

\* A caller finds its marker, or asks for the number of findings.
LEMMA NoteExistsKeeps ==
  ASSUME PublisherAssumption, PubInv, NEW c \in Callers, NoteExists(c)
  PROVE  PubInv'
<1>1. PICK ok \in BOOLEAN :
        /\ Answered(ok)
        /\ IF ~ok \/ \E n \in FirstPage : HasMarker(n, carried[c])
           THEN Returns(c, ~ok)
           ELSE Moves(c, "count") /\ UNCHANGED <<carried, plan>>
  BY DEF NoteExists
<1>2. CostFits /\ (~ok => lost' = lost + 1) /\ lost \in Nat
  BY <1>1, AnsweredFits DEF PubInv
<1>3. /\ callAt[c] = "exists" /\ callAt[c] \in InChain
      /\ UNCHANGED <<thread, nextNote, crowded, head, pubPhase, late, reports>>
  BY DEF NoteExists, Keeps, NoNote, InChain
<1>4. CASE ~ok \/ \E n \in FirstPage : HasMarker(n, carried[c])
  <2>1. lost' = 0 => \E n \in thread : CurrentFinding(n) /\ n.spot = carried[c]
    <3>1. lost' = 0 => ok
      BY <1>2
    <3>2. \A n \in FirstPage : n \in thread
      BY DEF FirstPage
    <3> QED BY <1>4, <3>1, <3>2 DEF HasMarker
  <2>2. lost' = 0 => Shown(carried[c])
    BY <2>1 DEF Shown, Current
  <2> QED BY <1>1, <1>2, <1>3, <1>4, <2>2, CallerReturns
<1>5. CASE ~(~ok \/ \E n \in FirstPage : HasMarker(n, carried[c]))
  BY <1>1, <1>2, <1>3, <1>5, CallerGoesOn DEF Moves, InChain
<1> QED BY <1>4, <1>5

\* A caller finds no room, or room for one more.
LEMMA CountFindingsKeeps ==
  ASSUME PublisherAssumption, PubInv, NEW c \in Callers, CountFindings(c)
  PROVE  PubInv'
<1> DEFINE place == IF carried[c] \in Lined THEN "version" ELSE "ordinary"
<1>1. PICK ok \in BOOLEAN :
        /\ Answered(ok)
        /\ IF ok /\ LimitReached THEN Returns(c, FALSE)
           ELSE Moves(c, place) /\ UNCHANGED <<carried, plan>>
  BY DEF CountFindings
<1>2. CostFits /\ (~ok => lost' = lost + 1) /\ lost \in Nat
  BY <1>1, AnsweredFits DEF PubInv
<1>3. /\ callAt[c] = "count" /\ callAt[c] \in InChain
      /\ UNCHANGED <<thread, nextNote, crowded, head, pubPhase, late, reports>>
  BY DEF CountFindings, Keeps, NoNote, InChain
<1>4. Fits => (LimitReached <=> Cardinality(Current) >= MaxPublished)
  <2>1. Fits => FirstPage = thread
    BY PageShowsAll DEF PubInv
  <2> QED BY <2>1 DEF LimitReached, Current
<1>5. CASE ok /\ LimitReached
  BY <1>1, <1>2, <1>3, <1>4, <1>5, CallerReturns
<1>6. CASE ~(ok /\ LimitReached)
  <2>1. place \in InChain
    BY DEF InChain
  <2>2. Cardinality(Current) \in Nat /\ MaxPublished \in Nat
    BY CountsAreNumbers DEF PubInv, PublisherAssumption
  <2>3. Fits => lost' = lost + 1 \/ Cardinality(Current) < MaxPublished
    BY <1>2, <1>4, <1>6, <2>2
  <2>4. callAt' = [callAt EXCEPT ![c] = place] /\ UNCHANGED <<carried, plan>>
    BY <1>1, <1>6 DEF Moves
  <2> HIDE DEF place
  <2> QED BY <1>2, <1>3, <2>1, <2>3, <2>4, CallerGoesOn
<1> QED BY <1>5, <1>6

\* A caller is told the version of the difference, or not.
LEMMA GetDiffVersionKeeps ==
  ASSUME PublisherAssumption, PubInv, NEW c \in Callers, GetDiffVersion(c)
  PROVE  PubInv'
<1>1. PICK ok \in BOOLEAN : Answered(ok) /\ Moves(c, IF ok THEN "discuss" ELSE "ordinary")
  BY DEF GetDiffVersion
<1>2. CostFits
  BY <1>1, AnsweredFits DEF PubInv
<1> DEFINE place == IF ok THEN "discuss" ELSE "ordinary"
<1>3. place \in InChain /\ callAt' = [callAt EXCEPT ![c] = place]
  BY <1>1 DEF InChain, Moves
<1>4. /\ callAt[c] = "version" /\ callAt[c] \in InChain
      /\ UNCHANGED <<thread, nextNote, crowded, head, pubPhase, late, reports, plan, carried>>
  BY DEF GetDiffVersion, Keeps, NoNote, InChain
<1> HIDE DEF place
<1> QED BY <1>2, <1>3, <1>4, CallerGoesOn

\* The line is not part of the difference.
LEMMA InvalidPositionKeeps ==
  ASSUME PublisherAssumption, PubInv, NEW c \in Callers, callAt[c] = "discuss",
         Moves(c, "ordinary"), UNCHANGED <<carried, plan, lost>>, NoNote, Keeps
  PROVE  PubInv'
<1>1. CostFits
  BY DEF CostFits, PubInv, CountersFit, PublisherAssumption
<1>2. /\ callAt[c] \in InChain /\ callAt' = [callAt EXCEPT ![c] = "ordinary"] /\ "ordinary" \in InChain
      /\ UNCHANGED <<thread, nextNote, crowded, head, pubPhase, late, reports, plan, carried>>
  BY DEF Keeps, NoNote, InChain, Moves
<1> QED BY <1>1, <1>2, CallerGoesOn

\* A callback begins, or ends what is no publication of a finding.
LEMMA CallbackMoves ==
  ASSUME PublisherAssumption, PubInv, NEW c \in Callbacks, NEW place \in {"idle", "upsert", "exists"}, NEW x,
         CallerAt(c, place, x), place = "exists" => pubPhase = "reviewing" /\ x \in Spots,
         UNCHANGED <<thread, nextNote, crowded, head, pubPhase, late, plan>>,
         CostFits, reports' \in 0..MaxReports
  PROVE  PubInv'
<1>1. CallersFit /\ plan \in PlanRecord
  BY DEF PubInv, PlanFits
<1>2. c \in Callers /\ c # Publishing /\ Publishing \in Callers /\ PlanKept
  BY <1>1 DEF Callers, PublisherAssumption, PlanKept
<1>3. /\ CallersFit' /\ callAt'[c] = place
      /\ \A d \in Callers : d # c => callAt'[d] = callAt[d] /\ carried'[d] = carried[d]
  BY <1>1, <1>2, CallerMoves DEF CallPlaces, InChain
<1>4. LimitFits'
  <2>1. Counted' \subseteq Counted
    BY <1>3 DEF Counted
  <2> QED BY <2>1, NobodyJoins
<1>5. SelectionFits' /\ ResetFits'
  BY <1>2, <1>3, SelectionKept
<1> QED BY <1>2, <1>3, <1>4, <1>5, QuietStep

\* A report more is within the bound.
LEMMA ReportsFit ==
  ASSUME PublisherAssumption, PubInv, reports < MaxReports, reports' = reports + 1
  PROVE  reports' \in 0..MaxReports
BY DEF PubInv, CountersFit, PublisherAssumption

\* A callback reports a finding.
LEMMA LiveFindingKeeps ==
  ASSUME PublisherAssumption, PubInv, NEW c \in Callbacks, NEW f \in Findings, LiveFinding(c, f)
  PROVE  PubInv'
<1>1. CostFits /\ reports' \in 0..MaxReports
  BY ReportsFit DEF LiveFinding, CostFits, PubInv, CountersFit, PublisherAssumption
<1>2. /\ CallerAt(c, "exists", SpotOf[f]) /\ SpotOf[f] \in Spots /\ pubPhase = "reviewing"
      /\ UNCHANGED <<thread, nextNote, crowded, head, pubPhase, late, plan>>
  BY DEF LiveFinding, CallerAt, Moves, Spots, NoNote
<1> QED BY <1>1, <1>2, CallbackMoves

\* A callback lists the notes for its progress note.
LEMMA PublishProgressKeeps ==
  ASSUME PublisherAssumption, PubInv, NEW c \in Callbacks, PublishProgress(c)
  PROVE  PubInv'
<1> DEFINE own == {n \in FirstPage : n.kind = "progress" /\ n.head = head}
           known == IF own = {} THEN NoSpot
                    ELSE (CHOOSE n \in own : \A m \in own : m.id <= n.id).id
<1>1. PICK ok \in BOOLEAN :
        /\ Answered(ok)
        /\ IF ~ok THEN UNCHANGED <<callAt, carried>>
           ELSE Moves(c, "upsert") /\ carried' = [carried EXCEPT ![c] = known]
  BY DEF PublishProgress
<1> HIDE DEF known
<1>2. CostFits /\ reports' \in 0..MaxReports
  BY <1>1, AnsweredFits, ReportsFit DEF PubInv, PublishProgress
<1>3. UNCHANGED <<thread, nextNote, crowded, head, pubPhase, late, plan>> /\ callAt[c] = "idle"
  BY DEF PublishProgress, NoNote
<1>4. CallerAt(c, "upsert", known) \/ CallerAt(c, "idle", carried[c])
  <2>1. CASE ok
    BY <1>1, <2>1 DEF CallerAt, Moves
  <2>2. CASE ~ok
    <3>1. callAt = [callAt EXCEPT ![c] = "idle"] /\ carried = [carried EXCEPT ![c] = carried[c]]
      BY <1>3 DEF PubInv, CallersFit, Callers
    <3> QED BY <1>1, <2>2, <3>1 DEF CallerAt
  <2> QED BY <2>1, <2>2
<1> QED BY <1>2, <1>3, <1>4, CallbackMoves

\* A callback updates its progress note.
LEMMA UpdateNoteKeeps ==
  ASSUME PublisherAssumption, PubInv, NEW c \in Callers, callAt[c] = "upsert", NEW ok \in BOOLEAN,
         Answered(ok), NoNote, UNCHANGED <<head, pubPhase, reports, late>>, Returns(c, FALSE)
  PROVE  PubInv'
<1>1. c \in Callbacks /\ c # Publishing
  BY DEF PubInv, CallersFit, Callers, PublisherAssumption
<1>2. CallerAt(c, "idle", NoSpot) /\ UNCHANGED plan
  BY <1>1 DEF Returns, Moves, CallerAt
<1>3. CostFits /\ reports' \in 0..MaxReports
  BY AnsweredFits DEF PubInv, CountersFit
<1> QED BY <1>1, <1>2, <1>3, CallbackMoves DEF NoNote

-----------------------------------------------------------------------------
(* Steps that create a note.                                               *)

\* A note is created or, when the request has no answer, maybe not.
Created(note, ok) ==
  /\ note.id = nextNote /\ note.head = head /\ ~note.resolved /\ note \notin thread
  /\ thread' = thread \union {note} \/ (~ok /\ thread' = thread)
  /\ nextNote' = nextNote + 1 /\ crowded' \in BOOLEAN /\ (Fits' => Fits)
  /\ CostFits /\ (ok => lost' = lost) /\ (~ok => lost' = lost + 1) /\ lost \in Nat

\* The notes that may come next.
NewNotes == [id : {nextNote}, kind : Kinds, head : {head}, spot : Spots \union {NoSpot},
             threaded : BOOLEAN, resolved : {FALSE}]

\* The new note is as good as the others.
LEMMA CreatesFits ==
  ASSUME PublisherAssumption, PubInv, NEW ok \in BOOLEAN, NEW note \in NewNotes, Creates(note, ok),
         UNCHANGED head
  PROVE  ThreadFits' /\ Created(note, ok)
<1>1. ThreadFits /\ CountersFit /\ nextNote <= MaxNotes /\ nextNote' = nextNote + 1
  BY DEF PubInv, Creates
<1>2. note \in NoteRecord /\ note.id = nextNote /\ note.head = head /\ ~note.resolved
  <2>1. nextNote \in 1..MaxNotes /\ head \in 1..LastHead
    BY <1>1 DEF ThreadFits, PublisherAssumption
  <2> QED BY <2>1 DEF NewNotes, NoteRecord
<1>3. thread' = thread \union {note} \/ (~ok /\ thread' = thread)
  BY DEF Creates
<1>4. /\ CostFits /\ (ok => lost' = lost) /\ (~ok => lost' = lost + 1) /\ lost \in Nat
  BY <1>1, AnsweredFits DEF Creates
<1>5. crowded' \in BOOLEAN /\ (Fits' => Fits /\ ~(Cardinality(thread') > PageSize))
  BY <1>1 DEF Creates, Fits, CountersFit
<1>6. nextNote \in Nat /\ \A n \in thread : n.id \in Nat /\ n.id < nextNote /\ n.head <= head
  BY <1>1 DEF ThreadFits, NoteRecord
<1>7. note \notin thread
  BY <1>2, <1>6
<1>8. IsFiniteSet(thread') /\ Cardinality(thread') \in Nat
  <2>1. IsFiniteSet(thread) /\ IsFiniteSet(thread \union {note})
    BY <1>1, FS_AddElement DEF ThreadFits
  <2>2. IsFiniteSet(thread')
    BY <1>3, <2>1
  <2> QED BY <2>2, FS_CardinalityType
<1>9. ThreadFits'
  <2>1. thread' \in SUBSET NoteRecord /\ thread' \subseteq thread \union {note}
    BY <1>1, <1>2, <1>3 DEF ThreadFits
  <2>2. head \in Nat /\ \A n \in thread' : n.id < nextNote' /\ n.head <= head
    BY <1>1, <1>2, <1>6, <2>1 DEF ThreadFits
  <2>3. \A n, m \in thread' : n.id = m.id => n = m
    BY <1>1, <1>2, <1>6, <2>1 DEF ThreadFits
  <2>4. nextNote' \in 1..MaxNotes + 1 /\ head' = head /\ head \in 1..LastHead
    BY <1>1, <1>6 DEF ThreadFits, PublisherAssumption
  <2>5. Fits' => Cardinality(thread') <= PageSize
    BY <1>5, <1>8 DEF PublisherAssumption
  <2> QED BY <1>8, <2>1, <2>2, <2>3, <2>4, <2>5 DEF ThreadFits
<1> QED BY <1>1, <1>2, <1>3, <1>4, <1>5, <1>7, <1>9 DEF Created

\* A caller that has found room publishes its finding, with an answer or
\* without; without one it may publish it a second time.
LEMMA FindingCreated ==
  ASSUME PublisherAssumption, PubInv, NEW c \in Callers, callAt[c] \in {"discuss", "ordinary"},
         NEW note, NEW ok \in BOOLEAN, Created(note, ok), note.kind = "finding", note.spot = carried[c],
         ThreadFits', UNCHANGED <<head, pubPhase, reports, late>>, PlanKept,
         NEW place \in {"idle", "ordinary"}, NEW x, CallerAt(c, place, x),
         place = "ordinary" => ~ok /\ x = carried[c]
  PROVE  PubInv'
<1>1. /\ CallersFit /\ callAt[c] \in InChain /\ ThreadFits /\ CountersFit
      /\ c = Publishing => pubPhase = "publish"
      /\ c # Publishing => c \in Callbacks /\ pubPhase = "reviewing"
      /\ carried[c] \in Spots
  BY ChainPlaces DEF PubInv, InChain
<1>2. /\ CallersFit' /\ callAt'[c] = place /\ carried'[c] = x
      /\ \A d \in Callers : d # c => callAt'[d] = callAt[d] /\ carried'[d] = carried[d]
  BY <1>1, CallerMoves DEF CallPlaces, InChain
<1>3. /\ CountersFit' /\ (lost' = 0 => ok /\ lost = 0) /\ lost \in Nat /\ lost' \in Nat
      /\ Fits' => Fits
  BY <1>1 DEF CountersFit, Created, CostFits
<1>4. PlanFits'
  <2>1. pubPhase' \in {"reviewing", "publish"}
    BY <1>1
  <2> QED BY <2>1 DEF PubInv, PlanFits, PlanKept
<1>5. CurrentFinding(note) /\ Conclusions' = Conclusions
      /\ (thread' = thread \union {note} => /\ Current' = Current \union {note}
                                            /\ FindingNotes' = FindingNotes \union {note})
      /\ (thread' = thread => Current' = Current /\ FindingNotes' = FindingNotes)
  BY DEF Created, CurrentFinding, Conclusions, Current, FindingNotes
<1>6. /\ IsFiniteSet(Current) /\ Cardinality(Current) \in Nat /\ Cardinality(Conclusions) \in Nat
      /\ IsFiniteSet(Counted) /\ Cardinality(Counted) \in Nat /\ Cardinality(Callbacks) \in Nat
      /\ MaxPublished \in Nat
  BY <1>1, CountsAreNumbers DEF PublisherAssumption
<1>7. /\ Cardinality(Current') \in {Cardinality(Current), Cardinality(Current) + 1}
      /\ ok => Cardinality(Current') = Cardinality(Current) + 1
  <2>1. note \notin Current
    BY DEF Created, Current
  <2>2. Cardinality(Current \union {note}) = Cardinality(Current) + 1
    BY <1>6, <2>1, FS_AddElement
  <2> QED BY <1>5, <2>2 DEF Created
<1>8. LimitFits'
  <2> DEFINE N == Counted'
  <2>1. N \in SUBSET Counted /\ (ok => N = Counted \ {c}) /\ c \in Counted
    BY <1>2 DEF Counted
  <2> HIDE DEF N
  <2>2. IsFiniteSet(N) /\ Cardinality(N) <= Cardinality(Counted)
    BY <1>6, <2>1, FS_Subset
  <2>3. ok => Cardinality(N) = Cardinality(Counted) - 1
    BY <1>6, <2>1, FS_RemoveElement
  <2>4. Cardinality(N) \in Nat
    BY <2>2, FS_CardinalityType
  <2>5. Fits => Cardinality(Current) + Cardinality(Counted)
                  < MaxPublished + Cardinality(Callbacks) + lost
    BY DEF PubInv, LimitFits
  <2>6. (ok => lost' = lost) /\ (~ok => lost' = lost + 1)
    BY DEF Created
  <2> DEFINE k == Cardinality(Current')
  <2>7. k \in Nat /\ k <= Cardinality(Current) + 1 /\ (ok => k = Cardinality(Current) + 1)
    BY <1>6, <1>7
  <2> HIDE DEF k
  <2>8. Fits' => k + Cardinality(N) < MaxPublished + Cardinality(Callbacks) + lost'
    BY <1>3, <1>6, <2>2, <2>3, <2>4, <2>5, <2>6, <2>7
  <2> QED BY <2>8 DEF LimitFits, N, k
<1>9. ConclusionsFit'
  <2>1. lost' >= lost /\ (Fits => Cardinality(Conclusions) <= 1 + lost)
    BY DEF Created, CostFits, PubInv, ConclusionsFit
  <2>2. Fits' => Cardinality(Conclusions) <= 1 + lost'
    BY <1>3, <1>6, <2>1
  <2> QED BY <1>1, <1>5, <2>2 DEF ConclusionsFit
<1>10. NotesReplaced'
  BY <1>1 DEF NotesReplaced
<1>11. ResolvedFits'
  BY <1>1, <1>3 DEF PubInv, ResolvedFits, OldThread, Reliable, Created, PlanKept
<1>12. ASSUME lost' = 0, pubPhase = "publish"
       PROVE  /\ c = Publishing /\ callAt'[Publishing] = "idle" /\ note \in Current'
              /\ thread' = thread \union {note} /\ callAt[Publishing] # "idle"
  <2>1. c = Publishing /\ ok
    BY <1>1, <1>3, <1>12
  <2>2. place = "idle" /\ thread' = thread \union {note}
    BY <2>1 DEF Created
  <2> QED BY <1>2, <1>5, <2>1, <2>2
<1>13. ASSUME lost' = 0, pubPhase = "publish", NEW spot
       PROVE  /\ Waiting(spot) => Waiting(spot)' \/ spot = note.spot
              /\ Waiting(spot)' => spot \in plan.todo /\ Waiting(spot)
              /\ Shown(spot) \/ spot = note.spot => Shown(spot)'
  <2>1. Current \subseteq Current'
    BY <1>5, <1>12, <1>13
  <2> QED BY <1>12, <1>13, <2>1 DEF Waiting, Shown, PlanKept
<1>14. pubPhase' \in Published => pubPhase = "publish"
  BY <1>1 DEF Published
<1>15. SelectionFits'
  <2>1. Cardinality(Current) >= MaxPublished => Cardinality(Current') >= MaxPublished
    BY <1>6, <1>7
  <2> QED BY <1>3, <1>13, <1>14, <2>1 DEF PubInv, SelectionFits, Reliable, PlanKept, Published
<1>16. ResetFits'
  <2>1. SUFFICES ASSUME plan.verdict, lost' = 0, lost = 0, Fits, plan.omitted # {}, pubPhase = "publish"
                 PROVE  /\ \A n \in FindingNotes' :
                             n.head = head /\ n.spot \in plan.selected /\ ~Waiting(n.spot)'
                        /\ \A n, m \in FindingNotes' : n.spot = m.spot => n = m
                        /\ \A spot \in plan.selected : Waiting(spot)' \/ Shown(spot)'
                        /\ callAt'[Publishing] = "idle"
    BY <1>1, <1>3, <1>14 DEF ResetFits, Reliable, PlanKept
  <2>2. /\ \A n \in FindingNotes : n.head = head /\ n.spot \in plan.selected /\ ~Waiting(n.spot)
        /\ \A n, m \in FindingNotes : n.spot = m.spot => n = m
        /\ \A spot \in plan.selected : Waiting(spot) \/ Shown(spot)
        /\ carried[Publishing] \in plan.selected \ plan.todo
    BY <1>12, <2>1 DEF PubInv, ResetFits, Reliable, Published
  <2>3. FindingNotes' = FindingNotes \union {note} /\ note.spot = carried[Publishing] /\ note.head = head
    BY <1>5, <1>12, <2>1 DEF Created
  <2>4. Waiting(note.spot)
    BY <1>12, <2>1, <2>3 DEF Waiting
  <2>5. \A n \in FindingNotes' : n.head = head /\ n.spot \in plan.selected /\ ~Waiting(n.spot)'
    BY <1>13, <2>1, <2>2, <2>3
  <2>6. \A n, m \in FindingNotes' : n.spot = m.spot => n = m
    BY <2>2, <2>3, <2>4
  <2>7. \A spot \in plan.selected : Waiting(spot)' \/ Shown(spot)'
    BY <1>13, <2>1, <2>2
  <2> QED BY <1>12, <2>1, <2>5, <2>6, <2>7
<1> QED BY <1>2, <1>3, <1>4, <1>8, <1>9, <1>10, <1>11, <1>15, <1>16 DEF PubInv

\* A caller publishes its finding as a discussion of its line.
LEMMA CreateDiffDiscussionKeeps ==
  ASSUME PublisherAssumption, PubInv, NEW c \in Callers, CreateDiffDiscussion(c)
  PROVE  PubInv'
<1> DEFINE note == Note("finding", carried[c], TRUE)
<1>1. /\ callAt[c] = "discuss" /\ callAt[c] \in InChain /\ CallersFit /\ Keeps
      /\ UNCHANGED <<head, pubPhase, reports, late>> /\ plan \in PlanRecord
  BY DEF CreateDiffDiscussion, Keeps, InChain, PubInv, PlanFits
<1>2. ASSUME NEW ok \in BOOLEAN, Creates(note, ok),
             IF ok THEN Returns(c, FALSE) ELSE Moves(c, "ordinary") /\ UNCHANGED <<carried, plan>>
      PROVE  PubInv'
  <2>1. carried[c] \in Spots /\ carried = [carried EXCEPT ![c] = carried[c]]
    BY <1>1, ChainPlaces
  <2>2. /\ ThreadFits' /\ Created(note, ok) /\ note.kind = "finding" /\ note.spot = carried[c]
    <3>1. note \in NewNotes /\ note.kind = "finding" /\ note.spot = carried[c] /\ UNCHANGED head
      BY <1>1, <2>1 DEF Kinds, NewNotes, Note
    <3> HIDE DEF note
    <3> QED BY <1>2, <3>1, CreatesFits
  <2>3. CASE ok
    <3>1. CallerAt(c, "idle", NoSpot) /\ PlanKept
      BY <1>2, <2>3, ReturnKeepsPlan DEF Returns, Moves, CallerAt
    <3> HIDE DEF note
    <3> QED BY <1>1, <2>2, <3>1, FindingCreated
  <2>4. CASE ~ok
    <3>1. CallerAt(c, "ordinary", carried[c]) /\ PlanKept
      BY <1>1, <1>2, <2>1, <2>4 DEF Moves, CallerAt, PlanKept
    <3> HIDE DEF note
    <3> QED BY <1>1, <2>2, <2>4, <3>1, FindingCreated
  <2> QED BY <2>3, <2>4
<1> QED BY <1>1, <1>2, InvalidPositionKeeps DEF CreateDiffDiscussion

\* A caller publishes its finding as a note of its own.
LEMMA PublishOrdinaryKeeps ==
  ASSUME PublisherAssumption, PubInv, NEW c \in Callers, PublishOrdinaryFinding(c)
  PROVE  PubInv'
<1> DEFINE note == Note("finding", carried[c], FALSE)
<1>1. /\ callAt[c] = "ordinary" /\ callAt[c] \in InChain /\ CallersFit
      /\ UNCHANGED <<head, pubPhase, reports, late>>
  BY DEF PublishOrdinaryFinding, Keeps, InChain, PubInv
<1>2. PICK ok \in BOOLEAN : Creates(note, ok) /\ Returns(c, ~ok)
  BY DEF PublishOrdinaryFinding
<1>3. carried[c] \in Spots
  BY <1>1, ChainPlaces
<1>4. /\ ThreadFits' /\ Created(note, ok) /\ note.kind = "finding" /\ note.spot = carried[c]
  <2>1. note \in NewNotes /\ note.kind = "finding" /\ note.spot = carried[c] /\ UNCHANGED head
    BY <1>1, <1>3 DEF Kinds, NewNotes, Note
  <2> HIDE DEF note
  <2> QED BY <1>2, <2>1, CreatesFits
<1>5. CallerAt(c, "idle", NoSpot) /\ PlanKept
  BY <1>2, ReturnKeepsPlan DEF Returns, Moves, CallerAt
<1> HIDE DEF note
<1> QED BY <1>1, <1>4, <1>5, FindingCreated

\* A callback writes its first progress note, maybe after the review.
LEMMA ProgressCreatedKeeps ==
  ASSUME PublisherAssumption, PubInv, NEW c \in Callers, callAt[c] = "upsert", NEW ok \in BOOLEAN,
         Creates(Note("progress", NoSpot, FALSE), ok), late' = (late \/ pubPhase # "reviewing"),
         UNCHANGED <<head, pubPhase, reports>>, Returns(c, FALSE)
  PROVE  PubInv'
<1> DEFINE note == Note("progress", NoSpot, FALSE)
<1>1. ThreadFits' /\ Created(note, ok) /\ note.kind = "progress"
  <2>1. note \in NewNotes /\ note.kind = "progress" /\ UNCHANGED head /\ Creates(note, ok)
    BY DEF Kinds, NewNotes, Note
  <2> HIDE DEF note
  <2> QED BY <2>1, CreatesFits
<1> HIDE DEF note
<1>2. ThreadFits /\ CallersFit /\ CountersFit /\ plan \in PlanRecord
  BY DEF PubInv, PlanFits
<1>3. c \in Callbacks /\ c # Publishing /\ Publishing \in Callers
  BY <1>2 DEF CallersFit, Callers, PublisherAssumption
<1>4. CallerAt(c, "idle", NoSpot) /\ UNCHANGED plan
  BY <1>3 DEF Returns, Moves, CallerAt
<1>5. /\ CallersFit' /\ callAt'[c] = "idle"
      /\ \A d \in Callers : d # c => callAt'[d] = callAt[d] /\ carried'[d] = carried[d]
  BY <1>2, <1>3, <1>4, CallerMoves DEF CallPlaces, InChain
<1>6. /\ CountersFit' /\ (lost' = 0 => lost = 0) /\ lost \in Nat /\ lost' \in Nat /\ lost' >= lost
      /\ Fits' => Fits
  <2>1. late' \in BOOLEAN
    OBVIOUS
  <2>2. /\ crowded' \in BOOLEAN /\ (Fits' => Fits) /\ lost' \in 0..MaxLost /\ lost' >= lost
        /\ lost \in 0..MaxLost
    BY <1>1, <1>2 DEF CountersFit, Created, CostFits
  <2>3. (lost' = 0 => lost = 0) /\ lost \in Nat /\ lost' \in Nat
    BY <2>2
  <2> QED BY <1>2, <2>1, <2>2, <2>3 DEF CountersFit
<1>7. /\ Current' = Current /\ FindingNotes' = FindingNotes /\ Conclusions' = Conclusions
      /\ Staying' = Staying
  <2>1. Current' = Current /\ FindingNotes' = FindingNotes /\ Conclusions' = Conclusions
    BY <1>1 DEF Created, Current, CurrentFinding, FindingNotes, Conclusions
  <2> QED BY <1>4, <2>1 DEF Staying
<1>8. /\ Cardinality(Current) \in Nat /\ Cardinality(Conclusions) \in Nat
      /\ Cardinality(Staying) \in Nat /\ IsFiniteSet(Counted) /\ Cardinality(Counted) \in Nat
      /\ Cardinality(Callbacks) \in Nat /\ MaxPublished \in Nat
  BY <1>2, CountsAreNumbers DEF PublisherAssumption
<1>9. PlanFits'
  <2>1. /\ nextNote \in Nat /\ nextNote' = nextNote + 1
        /\ \A n \in thread' : n \in thread \/ n.id = nextNote
    <3>1. nextNote \in Nat /\ nextNote' = nextNote + 1 /\ note.id = nextNote
      BY <1>1, <1>2 DEF Created, ThreadFits
    <3>2. \A n \in thread' : n \in thread \/ n = note
      BY <1>1 DEF Created
    <3> QED BY <3>1, <3>2
  <2>2. pubPhase \in {"resolve", "drop_threads", "drop_notes", "drop_last"} =>
          \A i \in plan.todo : i \in Nat /\ i < nextNote
    BY DEF PubInv, PlanFits
  <2>3. pubPhase \in {"resolve", "drop_threads", "drop_notes", "drop_last"} =>
          \A i \in plan.todo : i \in Nat /\ i < nextNote' /\ i # nextNote
    BY <2>1, <2>2
  <2> QED BY <1>4, <2>1, <2>3 DEF PubInv, PlanFits, Concluded
<1>10. LimitFits'
  <2> DEFINE N == Counted'
  <2>1. N \in SUBSET Counted
    BY <1>5 DEF Counted
  <2> HIDE DEF N
  <2>2. IsFiniteSet(N) /\ Cardinality(N) <= Cardinality(Counted)
    BY <1>8, <2>1, FS_Subset
  <2>3. Cardinality(N) \in Nat
    BY <2>2, FS_CardinalityType
  <2>4. Fits => Cardinality(Current) + Cardinality(Counted)
                  < MaxPublished + Cardinality(Callbacks) + lost
    BY DEF PubInv, LimitFits
  <2>5. Fits' => Cardinality(Current) + Cardinality(N) < MaxPublished + Cardinality(Callbacks) + lost'
    BY <1>6, <1>8, <2>2, <2>3, <2>4
  <2> QED BY <1>7, <2>5 DEF LimitFits, N
<1>11. ConclusionsFit'
  BY <1>6, <1>7, <1>8 DEF PubInv, ConclusionsFit
<1>12. NotesReplaced'
  <2>1. \A n \in thread' : n \in thread \/ n = note
    BY <1>1 DEF Created
  <2>2. pubPhase # "reviewing" => late'
    OBVIOUS
  <2>3. late => late'
    OBVIOUS
  <2>4. \A n \in Conclusions' : n \in Conclusions
    BY <1>7
  <2> QED BY <1>4, <1>6, <1>7, <2>2 DEF PubInv, NotesReplaced, Reliable
<1>13. ResolvedFits'
  BY <1>1, <1>4, <1>6 DEF PubInv, ResolvedFits, OldThread, Reliable, Created
<1>14. \A spot : /\ Waiting(spot) => Waiting(spot)'
                 /\ Waiting(spot)' => Waiting(spot)
                 /\ Shown(spot) => Shown(spot)'
  BY <1>3, <1>4, <1>5, <1>7 DEF Waiting, Shown
<1>15. SelectionFits'
  BY <1>4, <1>6, <1>7, <1>14 DEF PubInv, SelectionFits, Reliable
<1>16. ResetFits'
  <2>1. callAt'[Publishing] = callAt[Publishing] /\ carried'[Publishing] = carried[Publishing]
    BY <1>3, <1>5
  <2> QED BY <1>4, <1>6, <1>7, <1>14, <2>1 DEF PubInv, ResetFits, Reliable
<1> QED BY <1>1, <1>5, <1>6, <1>9, <1>10, <1>11, <1>12, <1>13, <1>15, <1>16 DEF PubInv

\* A callback writes its progress note.
LEMMA UpsertNoteKeeps ==
  ASSUME PublisherAssumption, PubInv, NEW c \in Callers, UpsertNote(c)
  PROVE  PubInv'
<1>1. PICK ok \in BOOLEAN :
        IF carried[c] = NoSpot
        THEN /\ Creates(Note("progress", NoSpot, FALSE), ok)
             /\ late' = (late \/ pubPhase # "reviewing")
        ELSE Answered(ok) /\ NoNote /\ UNCHANGED late
  BY DEF UpsertNote
<1>2. callAt[c] = "upsert" /\ Returns(c, FALSE) /\ UNCHANGED <<head, pubPhase, reports>>
  BY DEF UpsertNote
<1>3. CASE carried[c] = NoSpot
  BY <1>1, <1>2, <1>3, ProgressCreatedKeeps
<1>4. CASE carried[c] # NoSpot
  BY <1>1, <1>2, <1>4, UpdateNoteKeeps
<1> QED BY <1>3, <1>4

\* Publish writes the conclusion, or leaves it and publishes the failure.
LEMMA CreateConclusionKeeps ==
  ASSUME PublisherAssumption, PubInv, CreateConclusion
  PROVE  PubInv'
<1> DEFINE note == Note("conclusion", NoSpot, FALSE)
<1>1. PICK ok \in BOOLEAN :
        /\ Creates(note, ok)
        /\ pubPhase' = IF ok \/ ~plan.verdict THEN "ended" ELSE "conclude"
        /\ plan' = IF ok THEN plan ELSE [plan EXCEPT !.verdict = FALSE]
  BY DEF CreateConclusion
<1>2. pubPhase = "post" /\ UNCHANGED <<head, callAt, carried, reports, late>>
  BY DEF CreateConclusion, Waits
<1>3. ThreadFits' /\ Created(note, ok) /\ note.kind = "conclusion"
  <2>1. note \in NewNotes /\ note.kind = "conclusion" /\ UNCHANGED head
    BY <1>2 DEF Kinds, NewNotes, Note
  <2> HIDE DEF note
  <2> QED BY <1>1, <2>1, CreatesFits
<1> HIDE DEF note
<1>4. ThreadFits /\ CallersFit /\ CountersFit /\ PlanFits /\ pubPhase' \in {"ended", "conclude"}
  BY <1>1 DEF PubInv
<1>5. /\ plan' \in PlanRecord /\ plan'.selected = plan.selected /\ plan'.omitted = plan.omitted
      /\ plan'.paths = plan.paths /\ plan'.todo = plan.todo
      /\ ok => plan' = plan
  BY <1>1, <1>4 DEF PlanFits, PlanRecord
<1>6. /\ CountersFit' /\ (lost' = 0 => lost = 0 /\ ok) /\ lost \in Nat /\ lost' \in Nat
      /\ lost' >= lost /\ (ok => lost' = lost) /\ (~ok => lost' = lost + 1) /\ (Fits' => Fits)
  BY <1>2, <1>3, <1>4 DEF CountersFit, Created, CostFits, Phases
<1>7. CallersFit'
  BY <1>2, <1>4 DEF CallersFit
<1>8. PlanFits'
  BY <1>4, <1>5 DEF PlanFits
<1>9. /\ Current' = Current /\ FindingNotes' = FindingNotes /\ Counted' = Counted
      /\ Conclusions' = Conclusions \/ Conclusions' = Conclusions \union {note}
      /\ ok => Conclusions' = Conclusions \union {note}
  BY <1>2, <1>3 DEF Created, Current, CurrentFinding, FindingNotes, Counted, Conclusions
<1>10. /\ Cardinality(Current) \in Nat /\ IsFiniteSet(Conclusions)
       /\ Cardinality(Conclusions) \in Nat /\ Cardinality(Counted) \in Nat
       /\ Cardinality(Callbacks) \in Nat /\ MaxPublished \in Nat
  BY <1>4, CountsAreNumbers DEF PublisherAssumption
<1>11. LimitFits'
  BY <1>6, <1>9, <1>10 DEF PubInv, LimitFits
<1>12. ConclusionsFit'
  <2>1. Cardinality(Conclusions') \in {Cardinality(Conclusions), Cardinality(Conclusions) + 1}
    <3>1. note \notin Conclusions
      BY <1>3 DEF Created, Conclusions
    <3>2. Cardinality(Conclusions \union {note}) = Cardinality(Conclusions) + 1
      BY <1>10, <3>1, FS_AddElement
    <3> QED BY <1>9, <3>2
  <2>2. Fits => Cardinality(Conclusions) <= lost
    BY <1>2 DEF PubInv, ConclusionsFit
  <2> DEFINE k == Cardinality(Conclusions')
  <2>3. k \in Nat /\ k <= Cardinality(Conclusions) + 1
    BY <1>10, <2>1
  <2> HIDE DEF k
  <2>4. ASSUME Fits' PROVE k <= 1 + lost'
    <3>1. Cardinality(Conclusions) <= lost /\ lost' >= lost /\ lost \in Nat /\ lost' \in Nat
      BY <1>6, <2>2, <2>4
    <3>2. k \in Nat /\ k <= Cardinality(Conclusions) + 1 /\ Cardinality(Conclusions) \in Nat
      BY <1>10, <2>3
    <3> DEFINE m == Cardinality(Conclusions)
               a == lost
               b == lost'
    <3>3. a \in Nat /\ b \in Nat /\ m \in Nat /\ k \in Nat /\ m <= a /\ a <= b /\ k <= m + 1
      BY <3>1, <3>2
    <3> HIDE DEF m, a, b
    <3>4. k <= 1 + b
      BY <3>3
    <3> QED BY <3>4 DEF b
  <2> QED BY <1>4, <2>4 DEF ConclusionsFit, k
<1>13. NotesReplaced'
  <2>1. SUFFICES ASSUME lost' = 0, Fits'
                 PROVE  /\ Conclusions' # {} /\ \A n \in Conclusions' : n.head = head
                        /\ \A n \in thread' : n.kind = "progress" => late
    BY <1>2, <1>4 DEF NotesReplaced, Reliable
  <2>2. Conclusions = {} /\ \A n \in thread : n.kind = "progress" => late
    BY <1>2, <1>6, <2>1 DEF PubInv, NotesReplaced, Reliable
  <2>3. Conclusions' = {note} /\ note.head = head
    BY <1>3, <1>6, <1>9, <2>1, <2>2 DEF Created
  <2> QED BY <1>3, <2>2, <2>3 DEF Created
<1>14. ResolvedFits'
  <2>1. SUFFICES ASSUME plan.verdict, lost' = 0, lost = 0, plan' = plan,
                        NEW n \in thread', OldThread(n)', ~n.resolved
                 PROVE  FALSE
    BY <1>5, <1>6 DEF ResolvedFits, Reliable
  <2>2. n \in thread /\ OldThread(n)
    BY <1>2, <1>3, <2>1 DEF Created, OldThread
  <2> QED BY <1>2, <2>1, <2>2 DEF PubInv, ResolvedFits, Reliable
<1>15. \A spot : ~Waiting(spot) /\ ~Waiting(spot)' /\ (Shown(spot) => Shown(spot)')
  BY <1>2, <1>4, <1>9 DEF Waiting, Shown
<1>16. SelectionFits'
  BY <1>2, <1>5, <1>6, <1>9, <1>15 DEF PubInv, SelectionFits, Reliable, Published
<1>17. ResetFits'
  <2>1. callAt[Publishing] = "idle" /\ callAt'[Publishing] = "idle"
    BY <1>2, <1>4 DEF CallersFit
  <2> QED BY <1>2, <1>4, <1>5, <1>6, <1>9, <1>15, <2>1 DEF PubInv, ResetFits, Reliable, Published
<1> QED BY <1>3, <1>6, <1>7, <1>8, <1>11, <1>12, <1>13, <1>14, <1>16, <1>17 DEF PubInv

-----------------------------------------------------------------------------
(* The phases of Publish.                                                  *)

\* While Publish lists and plans, the notes and the callers are left alone.
LEMMA PhaseMoves ==
  ASSUME PublisherAssumption, PubInv, pubPhase' \in Phases, CostFits,
         UNCHANGED <<thread, nextNote, crowded, head, callAt, carried, reports, late>>,
         pubPhase' # "publish" => callAt[Publishing] = "idle",
         pubPhase' # "reviewing" => \A c \in Callbacks : callAt[c] \in {"idle", "upsert"}
  PROVE  /\ ThreadFits' /\ CallersFit' /\ CountersFit' /\ LimitFits'
         /\ Current' = Current /\ Conclusions' = Conclusions /\ FindingNotes' = FindingNotes
         /\ \A spot : Shown(spot)' <=> Shown(spot)
         /\ lost \in Nat /\ lost' \in Nat /\ lost' >= lost /\ (lost' = 0 => lost = 0)
         /\ Cardinality(Conclusions) \in Nat
<1>1. ThreadFits' /\ CallersFit' /\ CountersFit'
  BY DEF PubInv, ThreadFits, CallersFit, CountersFit, CostFits, Fits
<1>2. /\ Current' = Current /\ Conclusions' = Conclusions /\ FindingNotes' = FindingNotes
      /\ Counted' = Counted
  BY DEF Current, CurrentFinding, Conclusions, FindingNotes, Counted
<1>3. LimitFits'
  BY <1>2, NobodyJoins
<1>4. \A spot : Shown(spot)' <=> Shown(spot)
  BY <1>2 DEF Shown
<1>5. lost \in Nat /\ lost' \in Nat /\ lost' >= lost /\ (lost' = 0 => lost = 0)
  BY DEF PubInv, CountersFit, CostFits
<1> QED BY <1>1, <1>2, <1>3, <1>4, <1>5, CountsAreNumbers DEF PubInv

\* The review has ended: its findings are selected.
LEMMA StartPublishKeeps ==
  ASSUME PublisherAssumption, PubInv, StartPublish
  PROVE  PubInv'
<1>1. PICK found \in SUBSET Findings, paths \in SUBSET Lined :
        LET comments == SetToSeq(found)
            chosen == SelectPublishedFindings(comments)
        IN  /\ plan' = [NoPlan EXCEPT !.selected = {SpotOf[comments[i]] : i \in chosen},
                          !.omitted = DOMAIN comments \ chosen, !.paths = paths, !.verdict = TRUE]
            /\ pubPhase' = IF paths = {} THEN "reset" ELSE "old"
  BY DEF StartPublish
<1> DEFINE comments == SetToSeq(found)
           chosen == SelectPublishedFindings(comments)
           shown == {SpotOf[comments[i]] : i \in chosen}
           left == DOMAIN comments \ chosen
<1>2. chosen \subseteq DOMAIN comments
  BY DEF SelectPublishedFindings
<1>3. DOMAIN comments \in SUBSET Nat /\ \A i \in DOMAIN comments : comments[i] \in Findings
  BY SequenceOfFindings
<1>4. IsFiniteSet(chosen) /\ Cardinality(chosen) <= MaxPublished /\ Cardinality(chosen) \in Nat
  BY SelectionWithinLimit, FS_CardinalityType
<1> HIDE DEF comments, chosen
<1>5. IsFiniteSet(shown) /\ Cardinality(shown) <= MaxPublished /\ shown \in SUBSET Spots
      /\ left \in SUBSET Nat
  <2> DEFINE g == [i \in chosen |-> SpotOf[comments[i]]]
  <2>1. g \in Surjection(chosen, shown)
    BY DEF Surjection
  <2>2. shown \in SUBSET Spots /\ left \in SUBSET Nat
    BY <1>2, <1>3 DEF Spots
  <2> HIDE DEF g, shown
  <2>3. IsFiniteSet(shown) /\ Cardinality(shown) <= Cardinality(chosen)
    BY <1>4, <2>1, FS_Surjection
  <2>4. Cardinality(shown) \in Nat /\ MaxPublished \in Nat
    BY <2>3, FS_CardinalityType DEF PublisherAssumption
  <2> QED BY <1>4, <2>2, <2>3, <2>4
<1>6. /\ plan' = [NoPlan EXCEPT !.selected = shown, !.omitted = left, !.paths = paths, !.verdict = TRUE]
      /\ pubPhase' = IF paths = {} THEN "reset" ELSE "old"
  BY <1>1 DEF comments, chosen
<1> HIDE DEF shown, left
<1>7. /\ plan' \in PlanRecord /\ plan'.selected = shown /\ plan'.paths = paths
      /\ pubPhase' \in {"old", "reset"} /\ (pubPhase' = "reset" => paths = {})
  BY <1>5, <1>6 DEF NoPlan, PlanRecord
<1>8. /\ UNCHANGED <<thread, nextNote, crowded, head, callAt, carried, reports, late>>
      /\ CostFits /\ pubPhase' \in Phases /\ callAt[Publishing] = "idle"
      /\ \A c \in Callbacks : callAt[c] \in {"idle", "upsert"}
  <2>1. pubPhase = "reviewing" /\ lost \in 0..MaxLost /\ lost' = lost
    BY DEF StartPublish, PubInv, CountersFit
  <2> QED BY <1>7, <2>1 DEF StartPublish, NoNote, CostFits, PubInv, CallersFit, Phases
<1>9. /\ ThreadFits' /\ CallersFit' /\ CountersFit' /\ LimitFits' /\ Conclusions' = Conclusions
      /\ lost' >= lost /\ lost \in Nat /\ lost' \in Nat /\ Cardinality(Conclusions) \in Nat
  BY <1>8, PhaseMoves
<1>10. PlanFits'
  BY <1>5, <1>7 DEF PlanFits
<1>11. ConclusionsFit' /\ NotesReplaced'
  BY <1>7, <1>8, <1>9 DEF PubInv, ConclusionsFit, NotesReplaced, Fits
<1>12. ResolvedFits' /\ SelectionFits' /\ ResetFits'
  BY <1>7 DEF ResolvedFits, OldThread, SelectionFits, ResetFits, Published
<1> QED BY <1>9, <1>10, <1>11, <1>12 DEF PubInv

\* No plan is a plan for any phase but those that work through one.
LEMMA NoPlanFits ==
  ASSUME PublisherAssumption, plan' = NoPlan, pubPhase' \in {"reviewing", "conclude"}
  PROVE  PlanFits' /\ ResolvedFits' /\ SelectionFits' /\ ResetFits'
<1>1. plan' \in PlanRecord /\ plan'.selected = {} /\ ~plan'.verdict
  BY DEF NoPlan, PlanRecord
<1>2. IsFiniteSet({}) /\ Cardinality({}) = 0 /\ MaxPublished \in Nat
  BY FS_EmptySet DEF PublisherAssumption
<1>3. PlanFits'
  BY <1>1, <1>2 DEF PlanFits
<1> QED BY <1>1, <1>3 DEF ResolvedFits, SelectionFits, ResetFits

\* The review has failed.
LEMMA StartFailureKeeps ==
  ASSUME PublisherAssumption, PubInv, StartFailure
  PROVE  PubInv'
<1>1. /\ UNCHANGED <<thread, nextNote, crowded, head, callAt, carried, reports, late>>
      /\ CostFits /\ pubPhase' \in Phases /\ callAt[Publishing] = "idle"
      /\ \A c \in Callbacks : callAt[c] \in {"idle", "upsert"}
      /\ plan' = NoPlan /\ pubPhase' = "conclude"
  <2>1. pubPhase = "reviewing" /\ lost \in 0..MaxLost /\ lost' = lost
    BY DEF StartFailure, PubInv, CountersFit
  <2> QED BY <2>1 DEF StartFailure, NoNote, CostFits, PubInv, CallersFit, Phases
<1>2. /\ ThreadFits' /\ CallersFit' /\ CountersFit' /\ LimitFits' /\ Conclusions' = Conclusions
      /\ lost' >= lost /\ lost \in Nat /\ lost' \in Nat /\ Cardinality(Conclusions) \in Nat
  BY <1>1, PhaseMoves
<1>3. ConclusionsFit' /\ NotesReplaced'
  BY <1>1, <1>2 DEF PubInv, ConclusionsFit, NotesReplaced, Fits
<1> QED BY <1>1, <1>2, <1>3, NoPlanFits DEF PubInv

\* Publish lists what earlier revisions said of the files reviewed again.
LEMMA ListOldFindingsKeeps ==
  ASSUME PublisherAssumption, PubInv, ListOldFindings
  PROVE  PubInv'
<1>1. PICK ok \in BOOLEAN :
        /\ Answered(ok) /\ pubPhase' = IF ok THEN "resolve" ELSE "reset"
        /\ plan' = [plan EXCEPT !.todo = IF ok THEN {n.id : n \in Superseded} ELSE {}]
  BY DEF ListOldFindings
<1>2. CostFits /\ (~ok => lost' = lost + 1) /\ lost \in Nat
  BY <1>1, AnsweredFits DEF PubInv
<1>3. /\ UNCHANGED <<thread, nextNote, crowded, head, callAt, carried, reports, late>>
      /\ pubPhase = "old" /\ pubPhase' \in {"resolve", "reset"} /\ pubPhase' \in Phases
      /\ ThreadFits /\ CallersFit /\ PlanFits
  BY <1>1 DEF ListOldFindings, Waits, NoNote, Phases, PubInv
<1>4. /\ ThreadFits' /\ CallersFit' /\ CountersFit' /\ LimitFits' /\ Conclusions' = Conclusions
      /\ lost' >= lost /\ lost' \in Nat /\ Cardinality(Conclusions) \in Nat
      /\ (lost' = 0 => lost = 0)
  BY <1>2, <1>3, PhaseMoves DEF CallersFit
<1> DEFINE ids == IF ok THEN {n.id : n \in Superseded} ELSE {}
<1>5. /\ ids \in SUBSET Nat /\ (\A i \in ids : i < nextNote)
      /\ \A n \in thread : n.id \in ids => n.kind = "finding" /\ n.head # head
      /\ \A n \in Superseded : ok => n.id \in ids
  BY <1>3 DEF Superseded, AllPages, ThreadFits, NoteRecord
<1>6. plan' = [plan EXCEPT !.todo = ids]
  BY <1>1
<1> HIDE DEF ids
<1>7. /\ plan' \in PlanRecord /\ plan'.selected = plan.selected /\ plan'.omitted = plan.omitted
      /\ plan'.paths = plan.paths /\ plan'.todo = ids /\ (plan'.verdict <=> plan.verdict)
  BY <1>3, <1>5, <1>6 DEF PlanFits, PlanRecord
<1>8. PlanFits'
  <2>1. \A i \in ids : i \in Nat /\ i < nextNote
    BY <1>5
  <2> QED BY <1>3, <1>5, <1>7, <2>1 DEF PlanFits
<1>9. ConclusionsFit' /\ NotesReplaced'
  BY <1>3, <1>4, <1>2 DEF PubInv, ConclusionsFit, NotesReplaced, Fits
<1>10. ResolvedFits'
  <2>1. SUFFICES ASSUME lost' = 0, NEW n \in thread, OldThread(n)', ~n.resolved
                 PROVE  pubPhase' = "resolve" /\ n.id \in ids
    BY <1>3, <1>7 DEF ResolvedFits, Reliable
  <2>2. ok
    BY <1>2, <2>1
  <2>3. n \in Superseded
    BY <1>3, <1>7, <2>1 DEF Superseded, AllPages, OldThread
  <2> QED BY <1>1, <1>5, <2>2, <2>3
<1>11. SelectionFits' /\ ResetFits'
  BY <1>3 DEF SelectionFits, ResetFits, Published
<1> QED BY <1>4, <1>8, <1>9, <1>10, <1>11 DEF PubInv

\* Publish goes straight to its findings, or lists those to drop.
LEMMA ListForResetKeeps ==
  ASSUME PublisherAssumption, PubInv, ListForReset
  PROVE  PubInv'
<1> DEFINE listed == IF pubPhase = "reset" THEN AllPages ELSE FirstPage
           next == IF pubPhase = "reset" THEN "drop_threads" ELSE "drop_notes"
           ids == {n.id : n \in {m \in listed : BotFinding(m)}}
<1>1. /\ UNCHANGED <<thread, nextNote, crowded, head, callAt, carried, reports, late>>
      /\ pubPhase \in {"reset", "reread"} /\ ThreadFits /\ CallersFit /\ PlanFits /\ CountersFit
      /\ lost \in 0..MaxLost
  BY DEF ListForReset, Waits, NoNote, PubInv, CountersFit
<1>2. CASE plan.omitted = {}
  <2>1. pubPhase' = "publish" /\ lost' = lost /\ plan' = [plan EXCEPT !.todo = plan.selected]
    BY <1>2 DEF ListForReset
  <2>2. CostFits /\ pubPhase' \in Phases
    BY <1>1, <2>1 DEF CostFits, Phases
  <2>3. /\ ThreadFits' /\ CallersFit' /\ CountersFit' /\ LimitFits' /\ Conclusions' = Conclusions
    BY <1>1, <2>1, <2>2, PhaseMoves DEF CallersFit
  <2>4. /\ plan' \in PlanRecord /\ plan'.selected = plan.selected /\ plan'.omitted = {}
        /\ plan'.paths = plan.paths /\ plan'.todo = plan.selected /\ (plan'.verdict <=> plan.verdict)
    BY <1>1, <1>2, <2>1 DEF PlanFits, PlanRecord
  <2>5. PlanFits'
    BY <1>1, <2>1, <2>4 DEF PlanFits
  <2>6. ConclusionsFit' /\ NotesReplaced'
    BY <1>1, <2>1, <2>3 DEF PubInv, ConclusionsFit, NotesReplaced, Fits
  <2>7. ResolvedFits'
    BY <1>1, <2>1, <2>4 DEF PubInv, ResolvedFits, OldThread, Reliable
  <2>8. SelectionFits' /\ ResetFits'
    BY <2>1, <2>4 DEF SelectionFits, ResetFits, Waiting
  <2> QED BY <2>3, <2>5, <2>6, <2>7, <2>8 DEF PubInv
<1>3. CASE plan.omitted # {}
  <2>1. PICK ok \in BOOLEAN :
          /\ Answered(ok) /\ pubPhase' = next
          /\ plan' = [plan EXCEPT !.failed = @ \/ ~ok, !.todo = IF ok THEN ids ELSE {}]
    BY <1>3 DEF ListForReset
  <2>2. CostFits /\ (~ok => lost' = lost + 1) /\ lost \in Nat
    BY <1>1, <2>1, AnsweredFits
  <2>3. /\ \/ pubPhase = "reset" /\ pubPhase' = "drop_threads"
           \/ pubPhase = "reread" /\ pubPhase' = "drop_notes"
        /\ pubPhase' \in Phases
    <3>1. pubPhase' = next
      BY <2>1
    <3> HIDE DEF ids
    <3>2. CASE pubPhase = "reset"
      BY <3>1, <3>2 DEF Phases
    <3>3. CASE pubPhase = "reread"
      BY <3>1, <3>3 DEF Phases
    <3> QED BY <1>1, <3>2, <3>3
  <2>4. /\ ThreadFits' /\ CallersFit' /\ CountersFit' /\ LimitFits' /\ Conclusions' = Conclusions
        /\ FindingNotes' = FindingNotes /\ (lost' = 0 => lost = 0 /\ ok)
        /\ lost' >= lost /\ lost' \in Nat /\ Cardinality(Conclusions) \in Nat
    BY <1>1, <2>2, <2>3, PhaseMoves DEF CallersFit
  <2>5. /\ ids \in SUBSET Nat /\ (\A i \in ids : i < nextNote)
        /\ \A n \in thread : n.id \in ids => n.kind = "finding"
        /\ pubPhase = "reset" => \A n \in FindingNotes : n.id \in ids
    <3>1. listed \subseteq thread /\ (pubPhase = "reset" => listed = thread)
      BY DEF AllPages, FirstPage
    <3> HIDE DEF listed
    <3>2. \A i \in ids : \E n \in thread : n.id = i /\ n.kind = "finding"
      BY <3>1 DEF BotFinding
    <3>3. \A n \in thread : n.id \in Nat /\ n.id < nextNote
      BY <1>1 DEF ThreadFits, NoteRecord
    <3>4. \A n \in thread : n.id \in ids => n.kind = "finding"
      BY <1>1, <3>2 DEF ThreadFits
    <3>5. pubPhase = "reset" => \A n \in FindingNotes : n.id \in ids
      BY <3>1 DEF BotFinding, FindingNotes
    <3> HIDE DEF ids
    <3> QED BY <3>2, <3>3, <3>4, <3>5
  <2> HIDE DEF ids
  <2>6. /\ plan' \in PlanRecord /\ plan'.selected = plan.selected /\ plan'.omitted = plan.omitted
        /\ plan'.paths = plan.paths /\ plan'.todo = (IF ok THEN ids ELSE {})
        /\ (plan'.verdict <=> plan.verdict)
    <3>1. (plan.failed \/ ~ok) \in BOOLEAN /\ (IF ok THEN ids ELSE {}) \in SUBSET (Nat \union Spots)
      BY <2>5
    <3> DEFINE some == IF ok THEN ids ELSE {}
               bad == plan.failed \/ ~ok
    <3>2. plan' = [plan EXCEPT !.failed = bad, !.todo = some]
      BY <2>1
    <3>3. some \in SUBSET (Nat \union Spots) /\ bad \in BOOLEAN
      BY <3>1
    <3> HIDE DEF some, bad
    <3>4. /\ plan' \in PlanRecord /\ plan'.selected = plan.selected /\ plan'.omitted = plan.omitted
          /\ plan'.paths = plan.paths /\ plan'.todo = some /\ (plan'.verdict <=> plan.verdict)
      BY <1>1, <3>2, <3>3 DEF PlanFits, PlanRecord
    <3> QED BY <3>4 DEF some
  <2>7. PlanFits'
    <3>1. \A i \in plan'.todo : i \in Nat /\ i < nextNote
      BY <2>5, <2>6
    <3>2. \A n \in thread : n.id \in plan'.todo => n.kind = "finding"
      BY <2>5, <2>6
    <3> QED BY <1>1, <2>3, <2>6, <3>1, <3>2 DEF PlanFits
  <2>8. ConclusionsFit' /\ NotesReplaced'
    BY <1>1, <2>2, <2>3, <2>4 DEF PubInv, ConclusionsFit, NotesReplaced, Fits
  <2>9. ResolvedFits'
    BY <1>1, <2>3, <2>4, <2>6 DEF PubInv, ResolvedFits, OldThread, Reliable
  <2>10. SelectionFits' /\ ResetFits'
    <3>1. SelectionFits'
      BY <2>3 DEF SelectionFits, Published
    <3>2. ResetFits'
      <4>1. pubPhase' \notin Published
        BY <2>3 DEF Published
      <4>2. CASE pubPhase = "reset" /\ pubPhase' = "drop_threads"
        BY <2>4, <2>5, <2>6, <4>1, <4>2 DEF ResetFits, Reliable
      <4>3. CASE pubPhase = "reread" /\ pubPhase' = "drop_notes"
        BY <1>1, <2>4, <2>6, <4>1, <4>3 DEF PubInv, ResetFits, Reliable, Fits
      <4> QED BY <2>3, <4>2, <4>3
    <3> QED BY <3>1, <3>2
  <2> QED BY <2>4, <2>7, <2>8, <2>9, <2>10 DEF PubInv
<1> QED BY <1>2, <1>3

\* Publish begins with the next finding, or goes on to the conclusion.
LEMMA PublishNextKeeps ==
  ASSUME PublisherAssumption, PubInv, PublishNext
  PROVE  PubInv'
<1>1. /\ UNCHANGED <<thread, nextNote, crowded, head, reports, late, lost>>
      /\ pubPhase = "publish" /\ callAt[Publishing] = "idle"
      /\ ThreadFits /\ CallersFit /\ PlanFits /\ CountersFit /\ Publishing \in Callers
      /\ lost \in 0..MaxLost /\ CostFits
  BY DEF PublishNext, NoNote, PubInv, CountersFit, Callers, CostFits, PublisherAssumption
<1>2. CASE plan.todo = {}
  <2>1. pubPhase' = "conclude" /\ UNCHANGED <<callAt, carried, plan>> /\ pubPhase' \in Phases
    BY <1>2 DEF PublishNext, Phases
  <2>2. /\ ThreadFits' /\ CallersFit' /\ CountersFit' /\ LimitFits' /\ Conclusions' = Conclusions
        /\ Current' = Current /\ FindingNotes' = FindingNotes
        /\ \A spot : Shown(spot)' <=> Shown(spot)
    BY <1>1, <2>1, PhaseMoves DEF CallersFit
  <2>3. PlanFits'
    BY <1>1, <2>1 DEF PlanFits
  <2>4. ConclusionsFit' /\ NotesReplaced' /\ ResolvedFits'
    BY <1>1, <2>1, <2>2 DEF PubInv, ConclusionsFit, NotesReplaced, ResolvedFits, OldThread, Fits, Reliable
  <2>5. \A spot : ~Waiting(spot) /\ ~Waiting(spot)'
    BY <1>1, <1>2, <2>1 DEF Waiting
  <2>6. SelectionFits' /\ ResetFits'
    BY <1>1, <2>1, <2>2, <2>5 DEF PubInv, SelectionFits, ResetFits, Fits, Reliable, Published
  <2> QED BY <2>2, <2>3, <2>4, <2>6 DEF PubInv
<1>3. ASSUME NEW spot \in plan.todo, CallerAt(Publishing, "exists", spot),
             plan' = [plan EXCEPT !.todo = @ \ {spot}], UNCHANGED pubPhase
      PROVE  PubInv'
  <2>1. /\ plan' \in PlanRecord /\ plan'.selected = plan.selected /\ plan'.omitted = plan.omitted
        /\ plan'.paths = plan.paths /\ plan'.todo = plan.todo \ {spot}
        /\ (plan'.verdict <=> plan.verdict) /\ plan.todo \subseteq plan.selected
        /\ plan.selected \subseteq Spots
    BY <1>1, <1>3 DEF PlanFits, PlanRecord
  <2>2. /\ CallersFit' /\ callAt'[Publishing] = "exists" /\ carried'[Publishing] = spot
        /\ \A d \in Callers : d # Publishing => callAt'[d] = callAt[d] /\ carried'[d] = carried[d]
    BY <1>1, <1>3, <2>1, CallerMoves DEF CallPlaces, InChain, PublisherAssumption
  <2>3. LimitFits'
    <3>1. Counted' \subseteq Counted
      BY <2>2 DEF Counted
    <3> QED BY <1>1, <3>1, NobodyJoins
  <2>4. /\ ThreadFits' /\ CountersFit' /\ Conclusions' = Conclusions
        /\ Current' = Current /\ FindingNotes' = FindingNotes
    BY <1>1, <1>3 DEF ThreadFits, CountersFit, Conclusions, Current, CurrentFinding, FindingNotes, Fits
  <2>5. PlanFits'
    BY <1>1, <1>3, <2>1 DEF PlanFits
  <2>6. ConclusionsFit' /\ NotesReplaced' /\ ResolvedFits'
    BY <1>1, <1>3, <2>1, <2>4
       DEF PubInv, ConclusionsFit, NotesReplaced, ResolvedFits, OldThread, Fits, Reliable
  <2>7. \A s : Waiting(s)' <=> Waiting(s)
    BY <1>1, <1>3, <2>1, <2>2 DEF Waiting
  <2>8. \A s : Shown(s)' <=> Shown(s)
    BY <2>4 DEF Shown
  <2>9. SelectionFits'
    BY <1>1, <1>3, <2>1, <2>4, <2>7, <2>8 DEF PubInv, SelectionFits, Fits, Reliable
  <2>10. ResetFits'
    <3>1. carried'[Publishing] \in plan'.selected \ plan'.todo
      BY <2>1, <2>2
    <3> QED BY <1>1, <1>3, <2>1, <2>4, <2>7, <2>8, <3>1 DEF PubInv, ResetFits, Fits, Reliable
  <2> QED BY <2>2, <2>3, <2>4, <2>5, <2>6, <2>9, <2>10 DEF PubInv
<1>4. CASE plan.todo # {}
  <2>1. PICK spot \in plan.todo :
          /\ CallerAt(Publishing, "exists", spot) /\ plan' = [plan EXCEPT !.todo = @ \ {spot}]
          /\ UNCHANGED pubPhase
    BY <1>4 DEF PublishNext, Moves, CallerAt
  <2> QED BY <1>3, <2>1
<1> QED BY <1>2, <1>4

\* Publish lists the conclusions and progress notes to delete.
LEMMA ListConclusionsKeeps ==
  ASSUME PublisherAssumption, PubInv, ListConclusions
  PROVE  PubInv'
<1> DEFINE ids == {n.id : n \in {m \in FirstPage : Concluded(m)}}
<1>1. PICK ok \in BOOLEAN :
        /\ Answered(ok) /\ pubPhase' = IF ok THEN "drop_last" ELSE "post"
        /\ plan' = [plan EXCEPT !.todo = IF ok THEN ids ELSE {}]
  BY DEF ListConclusions
<1>2. CostFits /\ (~ok => lost' = lost + 1) /\ lost \in Nat
  BY <1>1, AnsweredFits DEF PubInv
<1>3. /\ UNCHANGED <<thread, nextNote, crowded, head, callAt, carried, reports, late>>
      /\ pubPhase = "conclude" /\ pubPhase' \in {"drop_last", "post"} /\ pubPhase' \in Phases
      /\ pubPhase' = "drop_last" <=> ok
      /\ ThreadFits /\ CallersFit /\ PlanFits
  BY <1>1 DEF ListConclusions, Waits, NoNote, Phases, PubInv
<1>4. /\ ThreadFits' /\ CallersFit' /\ CountersFit' /\ LimitFits' /\ Conclusions' = Conclusions
      /\ Current' = Current /\ FindingNotes' = FindingNotes
      /\ \A spot : Shown(spot)' <=> Shown(spot)
      /\ lost' >= lost /\ lost' \in Nat /\ Cardinality(Conclusions) \in Nat
      /\ (lost' = 0 => lost = 0 /\ ok)
  BY <1>2, <1>3, PhaseMoves DEF CallersFit
<1>5. Fits => FirstPage = thread
  BY <1>3, PageShowsAll
<1>6. /\ ids \in SUBSET Nat /\ (\A i \in ids : i < nextNote)
      /\ \A n \in thread : n.id \in ids => Concluded(n)
      /\ Fits => \A n \in thread : Concluded(n) => n.id \in ids
  <2>1. FirstPage \subseteq thread
    BY DEF FirstPage
  <2>2. \A i \in ids : \E n \in thread : n.id = i /\ Concluded(n)
    BY <2>1
  <2>3. \A n \in thread : n.id \in Nat /\ n.id < nextNote
    BY <1>3 DEF ThreadFits, NoteRecord
  <2>4. \A n \in thread : n.id \in ids => Concluded(n)
    <3> HIDE DEF ids
    <3> QED BY <1>3, <2>2 DEF ThreadFits, Concluded
  <2>5. Fits => \A n \in thread : Concluded(n) => n.id \in ids
    BY <1>5
  <2> HIDE DEF ids
  <2> QED BY <2>2, <2>3, <2>4, <2>5
<1> HIDE DEF ids
<1>7. /\ plan' \in PlanRecord /\ plan'.selected = plan.selected /\ plan'.omitted = plan.omitted
      /\ plan'.paths = plan.paths /\ plan'.todo = (IF ok THEN ids ELSE {})
      /\ (plan'.verdict <=> plan.verdict)
  <2> DEFINE some == IF ok THEN ids ELSE {}
  <2>1. plan' = [plan EXCEPT !.todo = some] /\ some \in SUBSET (Nat \union Spots)
    BY <1>1, <1>6
  <2> HIDE DEF some
  <2>2. /\ plan' \in PlanRecord /\ plan'.selected = plan.selected /\ plan'.omitted = plan.omitted
        /\ plan'.paths = plan.paths /\ plan'.todo = some /\ (plan'.verdict <=> plan.verdict)
    BY <1>3, <2>1 DEF PlanFits, PlanRecord
  <2> QED BY <2>2 DEF some
<1>8. PlanFits'
  <2>1. \A i \in plan'.todo : i \in Nat /\ i < nextNote
    BY <1>6, <1>7
  <2>2. \A n \in thread : n.id \in plan'.todo => Concluded(n)
    BY <1>6, <1>7
  <2> QED BY <1>3, <1>7, <2>1, <2>2 DEF PlanFits, Concluded
<1>9. Fits /\ ok => Staying' = {}
  BY <1>3, <1>4, <1>6, <1>7 DEF Staying, Conclusions, Concluded
<1>10. ConclusionsFit'
  <2>1. Fits => Cardinality(Conclusions) <= 1 + lost
    BY DEF PubInv, ConclusionsFit
  <2>2. Cardinality({}) = 0
    BY FS_EmptySet
  <2>3. Fits => /\ Cardinality(Conclusions) <= 1 + lost'
                /\ ~ok => Cardinality(Conclusions) <= lost'
    BY <1>2, <1>4, <2>1
  <2>4. Fits /\ ok => Cardinality(Staying') <= lost'
    BY <1>4, <1>9, <2>2
  <2> QED BY <1>3, <1>4, <2>3, <2>4 DEF ConclusionsFit, Fits
<1>11. NotesReplaced'
  <2>1. SUFFICES ASSUME lost' = 0, Fits
                 PROVE  pubPhase' = "drop_last" /\ Staying' = {}
                        /\ \A n \in thread : n.kind = "progress" => n.id \in plan'.todo
    BY <1>3 DEF NotesReplaced, Reliable, Fits
  <2> QED BY <1>3, <1>4, <1>6, <1>7, <1>9, <2>1 DEF Concluded
<1>12. ResolvedFits'
  BY <1>3, <1>4, <1>7 DEF PubInv, ResolvedFits, OldThread, Reliable
<1>13. \A spot : ~Waiting(spot) /\ ~Waiting(spot)'
  BY <1>3 DEF Waiting
<1>14. SelectionFits' /\ ResetFits'
  <2>1. callAt[Publishing] = "idle" /\ callAt'[Publishing] = "idle"
    BY <1>3 DEF CallersFit
  <2>2. SelectionFits'
    BY <1>3, <1>4, <1>7, <1>13 DEF PubInv, SelectionFits, Fits, Reliable, Published
  <2>3. ResetFits'
    BY <1>3, <1>4, <1>7, <1>13, <2>1 DEF PubInv, ResetFits, Fits, Reliable, Published
  <2> QED BY <2>2, <2>3
<1> QED BY <1>4, <1>8, <1>10, <1>11, <1>12, <1>14 DEF PubInv

\* A thread that has the places of the old one, or some of them.
LEMMA ThreadShrinks ==
  ASSUME PublisherAssumption, PubInv, thread' \in SUBSET thread, UNCHANGED <<nextNote, head, crowded>>
  PROVE  ThreadFits'
<1>1. IsFiniteSet(thread) /\ Cardinality(thread) \in Nat /\ (Fits => Cardinality(thread) <= PageSize)
      /\ PageSize \in Nat
  BY FS_CardinalityType DEF PubInv, ThreadFits, PublisherAssumption
<1> DEFINE T == thread'
<1>2. T \in SUBSET thread
  OBVIOUS
<1> HIDE DEF T
<1>3. IsFiniteSet(T) /\ Cardinality(T) <= Cardinality(thread)
  BY <1>1, <1>2, FS_Subset
<1>4. Cardinality(T) \in Nat
  BY <1>3, FS_CardinalityType
<1>5. Fits => Cardinality(T) <= PageSize
  BY <1>1, <1>3, <1>4
<1> QED BY <1>2, <1>3, <1>5 DEF PubInv, ThreadFits, Fits, T

\* Publish resolves a discussion, or has resolved what it listed.
LEMMA ResolveDiscussionKeeps ==
  ASSUME PublisherAssumption, PubInv, ResolveDiscussion
  PROVE  PubInv'
<1>1. /\ UNCHANGED <<nextNote, crowded, head, callAt, carried, reports, late>>
      /\ pubPhase = "resolve" /\ ThreadFits /\ CallersFit /\ PlanFits /\ CountersFit
      /\ lost \in 0..MaxLost
  BY DEF ResolveDiscussion, Waits, PubInv, CountersFit
<1>2. CASE plan.todo = {}
  <2>1. pubPhase' = "reset" /\ UNCHANGED <<thread, plan, lost>> /\ CostFits /\ pubPhase' \in Phases
    BY <1>1, <1>2 DEF ResolveDiscussion, CostFits, Phases
  <2>2. ThreadFits' /\ CallersFit' /\ CountersFit' /\ LimitFits' /\ Conclusions' = Conclusions
    BY <1>1, <2>1, PhaseMoves DEF CallersFit
  <2>3. PlanFits'
    BY <1>1, <2>1 DEF PlanFits
  <2>4. ConclusionsFit' /\ NotesReplaced' /\ ResolvedFits'
    BY <1>1, <1>2, <2>1, <2>2
       DEF PubInv, ConclusionsFit, NotesReplaced, ResolvedFits, OldThread, Fits, Reliable
  <2>5. SelectionFits' /\ ResetFits'
    BY <2>1 DEF SelectionFits, ResetFits, Published
  <2> QED BY <2>2, <2>3, <2>4, <2>5 DEF PubInv
<1>3. CASE plan.todo # {}
  <2>1. PICK id \in plan.todo, ok \in BOOLEAN :
          /\ Answered(ok)
          /\ thread' = IF ok THEN {[n EXCEPT !.resolved = @ \/ n.id = id] : n \in thread} ELSE thread
          /\ plan' = [plan EXCEPT !.todo = @ \ {id}] /\ UNCHANGED pubPhase
    BY <1>3 DEF ResolveDiscussion
  <2> DEFINE After(n) == IF ok THEN [n EXCEPT !.resolved = @ \/ n.id = id] ELSE n
  <2>2. thread' = {After(n) : n \in thread}
    BY <2>1
  <2>3. CostFits /\ (~ok => lost' = lost + 1) /\ lost \in Nat
    BY <1>1, <2>1, AnsweredFits
  <2>4. \A n \in thread : /\ After(n) \in NoteRecord /\ After(n).id = n.id /\ After(n).kind = n.kind
                          /\ After(n).head = n.head /\ After(n).spot = n.spot
                          /\ (After(n).threaded <=> n.threaded) /\ (n.resolved => After(n).resolved)
    <3>1. ASSUME NEW n \in thread
          PROVE  /\ After(n) \in NoteRecord /\ After(n).id = n.id /\ After(n).kind = n.kind
                 /\ After(n).head = n.head /\ After(n).spot = n.spot
                 /\ (After(n).threaded <=> n.threaded) /\ (n.resolved => After(n).resolved)
      <4>1. n \in NoteRecord
        BY <1>1 DEF ThreadFits
      <4>2. CASE ok
        <5> DEFINE b == n.resolved \/ n.id = id
        <5>1. b \in BOOLEAN /\ (n.resolved => b)
          OBVIOUS
        <5>2. After(n) = [n EXCEPT !.resolved = b]
          BY <4>2
        <5> HIDE DEF b
        <5> QED BY <4>1, <5>1, <5>2 DEF NoteRecord
      <4>3. CASE ~ok
        BY <4>1, <4>3
      <4> QED BY <4>2, <4>3
    <3> HIDE DEF After
    <3> QED BY <3>1
  <2>5. \A n \in thread : n.id # id => After(n) = n
    <3>1. ASSUME NEW n \in thread, n.id # id PROVE After(n) = n
      <4>1. n \in NoteRecord
        BY <1>1 DEF ThreadFits
      <4>2. (n.resolved \/ n.id = id) <=> n.resolved
        BY <3>1
      <4>3. (n.resolved \/ n.id = id) = n.resolved
        BY <3>1, <4>1 DEF NoteRecord
      <4>4. [n EXCEPT !.resolved = n.resolved] = n
        BY <4>1 DEF NoteRecord
      <4> QED BY <4>3, <4>4
    <3> HIDE DEF After
    <3> QED BY <3>1
  <2>6. ok => \A n \in thread : n.id = id => After(n).resolved
    <3>1. ASSUME ok, NEW n \in thread, n.id = id PROVE After(n).resolved
      <4>1. n \in NoteRecord
        BY <1>1 DEF ThreadFits
      <4>2. After(n) = [n EXCEPT !.resolved = TRUE]
        BY <3>1
      <4> QED BY <4>1, <4>2 DEF NoteRecord
    <3> HIDE DEF After
    <3> QED BY <3>1
  <2> HIDE DEF After
  <2>7. /\ plan' \in PlanRecord /\ plan'.selected = plan.selected /\ plan'.omitted = plan.omitted
        /\ plan'.paths = plan.paths /\ plan'.todo = plan.todo \ {id}
        /\ (plan'.verdict <=> plan.verdict)
    BY <1>1, <2>1 DEF PlanFits, PlanRecord
  <2>8. ThreadFits'
    <3> DEFINE T == thread'
               g == [n \in thread |-> After(n)]
    <3>1. g \in Surjection(thread, T)
      BY <2>2 DEF Surjection
    <3>2. IsFiniteSet(thread) /\ Cardinality(thread) \in Nat /\ PageSize \in Nat
      BY <1>1, FS_CardinalityType DEF ThreadFits, PublisherAssumption
    <3> HIDE DEF T, g
    <3>3. IsFiniteSet(T) /\ Cardinality(T) <= Cardinality(thread)
      BY <3>1, <3>2, FS_Surjection
    <3>4. Cardinality(T) \in Nat
      BY <3>3, FS_CardinalityType
    <3>5. Fits => Cardinality(T) <= PageSize
      BY <1>1, <3>2, <3>3, <3>4 DEF ThreadFits
    <3>6. T \in SUBSET NoteRecord /\ (\A n \in T : n.id < nextNote /\ n.head <= head)
      BY <1>1, <2>2, <2>4 DEF T, ThreadFits
    <3>7. \A n, m \in T : n.id = m.id => n = m
      BY <1>1, <2>2, <2>4 DEF T, ThreadFits
    <3> QED BY <1>1, <3>3, <3>5, <3>6, <3>7 DEF ThreadFits, Fits, T
  <2>9. /\ CallersFit' /\ CountersFit' /\ lost' >= lost /\ lost' \in Nat
        /\ (lost' = 0 => ok /\ lost = 0)
    BY <1>1, <2>1, <2>3 DEF CallersFit, CountersFit, CostFits
  <2>10. \A n \in thread : n.id = id => n.kind = "finding" /\ n.head # head
    BY <1>1, <2>1 DEF PlanFits
  <2>11. \A n : n \in Current' <=> n \in Current
    BY <1>1, <2>2, <2>4, <2>5, <2>10 DEF Current, CurrentFinding
  <2>12. \A n : n \in Conclusions' <=> n \in Conclusions
    BY <1>1, <2>2, <2>4, <2>5, <2>10 DEF Conclusions
  <2>13. Current' = Current /\ Conclusions' = Conclusions /\ Counted' = Counted
    BY <1>1, <2>11, <2>12 DEF Current, Conclusions, Counted
  <2>14. /\ Cardinality(Current) \in Nat /\ Cardinality(Counted) \in Nat
         /\ Cardinality(Conclusions) \in Nat /\ Cardinality(Callbacks) \in Nat /\ MaxPublished \in Nat
    BY <1>1, CountsAreNumbers DEF PublisherAssumption
  <2>15. LimitFits'
    BY <1>1, <2>3, <2>9, <2>13, <2>14 DEF PubInv, LimitFits, Fits
  <2>16. PlanFits'
    <3>1. \A i \in plan'.todo : i \in Nat /\ i < nextNote
      BY <1>1, <2>7 DEF PlanFits
    <3>2. \A n \in thread' : n.id \in plan'.todo => n.kind = "finding" /\ n.head # head
      BY <1>1, <2>2, <2>4, <2>7 DEF PlanFits
    <3> QED BY <1>1, <2>1, <2>7, <3>1, <3>2 DEF PlanFits
  <2>17. ConclusionsFit' /\ NotesReplaced'
    BY <1>1, <2>1, <2>3, <2>9, <2>13, <2>14 DEF PubInv, ConclusionsFit, NotesReplaced, Fits
  <2>18. ResolvedFits'
    <3>1. SUFFICES ASSUME plan.verdict, lost' = 0, NEW m \in thread', OldThread(m)', ~m.resolved
                   PROVE  m.id \in plan'.todo
      BY <1>1, <2>1, <2>7 DEF ResolvedFits, Reliable
    <3>2. PICK n \in thread : m = After(n)
      BY <2>2
    <3>3. n.id # id
      BY <2>6, <2>9, <3>1, <3>2
    <3>4. m = n /\ OldThread(n)
      BY <1>1, <2>5, <2>7, <3>1, <3>2, <3>3 DEF OldThread
    <3>5. n.id \in plan.todo
      BY <1>1, <2>9, <3>1, <3>4 DEF PubInv, ResolvedFits, Reliable
    <3> QED BY <2>7, <3>3, <3>4, <3>5
  <2>19. SelectionFits' /\ ResetFits'
    BY <1>1, <2>1 DEF SelectionFits, ResetFits, Published
  <2> QED BY <2>8, <2>9, <2>15, <2>16, <2>17, <2>18, <2>19 DEF PubInv
<1> QED BY <1>2, <1>3

\* Publish has dropped what it listed.
LEMMA DropEndsKeeps ==
  ASSUME PublisherAssumption, PubInv, Drop, plan.todo = {}
  PROVE  PubInv'
<1>1. /\ UNCHANGED <<thread, nextNote, crowded, head, callAt, carried, reports, late, lost>>
      /\ pubPhase \in {"drop_threads", "drop_notes", "drop_last"}
      /\ ThreadFits /\ CallersFit /\ PlanFits /\ lost \in 0..MaxLost
      /\ pubPhase' = CASE pubPhase = "drop_threads" -> "reread"
                       [] pubPhase = "drop_notes" -> "publish"
                       [] OTHER -> "post"
      /\ plan' = [plan EXCEPT !.todo = IF pubPhase = "drop_notes" THEN plan.selected ELSE {}]
  BY DEF Drop, Waits, PubInv, CountersFit
<1>2. /\ pubPhase = "drop_threads" => pubPhase' = "reread"
      /\ pubPhase = "drop_notes" => pubPhase' = "publish"
      /\ pubPhase = "drop_last" => pubPhase' = "post"
  BY <1>1
<1>3. CostFits /\ pubPhase' \in Phases
  BY <1>1, <1>2 DEF CostFits, Phases
<1>4. /\ ThreadFits' /\ CallersFit' /\ CountersFit' /\ LimitFits' /\ Conclusions' = Conclusions
      /\ Current' = Current /\ FindingNotes' = FindingNotes
      /\ \A spot : Shown(spot)' <=> Shown(spot)
  BY <1>1, <1>2, <1>3, PhaseMoves DEF CallersFit
<1>5. /\ plan' \in PlanRecord /\ plan'.selected = plan.selected /\ plan'.omitted = plan.omitted
      /\ plan'.paths = plan.paths /\ (plan'.verdict <=> plan.verdict)
      /\ pubPhase = "drop_notes" => plan'.todo = plan.selected
  <2> DEFINE some == IF pubPhase = "drop_notes" THEN plan.selected ELSE {}
  <2>1. plan' = [plan EXCEPT !.todo = some] /\ some \in SUBSET (Nat \union Spots)
    BY <1>1 DEF PlanFits, PlanRecord
  <2> HIDE DEF some
  <2>2. /\ plan' \in PlanRecord /\ plan'.selected = plan.selected /\ plan'.omitted = plan.omitted
        /\ plan'.paths = plan.paths /\ (plan'.verdict <=> plan.verdict) /\ plan'.todo = some
    BY <1>1, <2>1 DEF PlanFits, PlanRecord
  <2> QED BY <2>2 DEF some
<1>6. PlanFits'
  BY <1>1, <1>2, <1>5 DEF PlanFits
<1>7. pubPhase = "drop_last" => Staying = Conclusions
  BY DEF Staying
<1>8. ConclusionsFit' /\ NotesReplaced'
  <2>1. ConclusionsFit'
    BY <1>1, <1>2, <1>4, <1>7 DEF PubInv, ConclusionsFit, Fits
  <2>2. NotesReplaced'
    BY <1>1, <1>2, <1>4, <1>7 DEF PubInv, NotesReplaced, Fits, Reliable
  <2> QED BY <2>1, <2>2
<1>9. ResolvedFits'
  BY <1>1, <1>2, <1>5 DEF PubInv, ResolvedFits, OldThread, Reliable
<1>10. /\ callAt[Publishing] = "idle" /\ callAt'[Publishing] = "idle"
       /\ \A spot : ~Waiting(spot)
       /\ pubPhase = "drop_notes" => \A spot \in plan.selected : Waiting(spot)'
       /\ pubPhase = "drop_last" => \A spot : ~Waiting(spot)'
  BY <1>1, <1>2, <1>5 DEF CallersFit, Waiting
<1>11. SelectionFits'
  <2>1. CASE pubPhase = "drop_threads"
    BY <1>2, <2>1 DEF SelectionFits, Published
  <2>2. CASE pubPhase = "drop_notes"
    BY <1>5, <1>10, <2>2 DEF SelectionFits
  <2>3. CASE pubPhase = "drop_last"
    BY <1>1, <1>4, <1>5, <1>10, <2>3 DEF PubInv, SelectionFits, Fits, Reliable, Published
  <2> QED BY <1>1, <2>1, <2>2, <2>3
<1>12. ResetFits'
  <2>1. CASE pubPhase = "drop_threads"
    BY <1>1, <1>2, <1>4, <1>5, <2>1 DEF PubInv, ResetFits, Fits, Reliable, Published
  <2>2. CASE pubPhase = "drop_notes"
    BY <1>1, <1>2, <1>4, <1>5, <1>10, <2>2 DEF PubInv, ResetFits, Fits, Reliable, Published
  <2>3. CASE pubPhase = "drop_last"
    BY <1>1, <1>2, <1>4, <1>5, <1>10, <2>3 DEF PubInv, ResetFits, Fits, Reliable, Published
  <2> QED BY <1>1, <2>1, <2>2, <2>3
<1> QED BY <1>4, <1>6, <1>8, <1>9, <1>11, <1>12 DEF PubInv

\* Publish drops a note, finds it gone, or has no answer.
LEMMA DropOneKeeps ==
  ASSUME PublisherAssumption, PubInv, Drop, plan.todo # {}
  PROVE  PubInv'
<1>1. /\ UNCHANGED <<nextNote, crowded, head, callAt, carried, reports, late>>
      /\ pubPhase \in {"drop_threads", "drop_notes", "drop_last"}
      /\ ThreadFits /\ CallersFit /\ PlanFits /\ CountersFit /\ lost \in 0..MaxLost
  BY DEF Drop, Waits, PubInv, CountersFit
<1>2. PICK id \in plan.todo, ok \in BOOLEAN :
        /\ Deletes(id, ok)
        /\ plan' = [plan EXCEPT !.todo = @ \ {id}, !.failed = @ \/ (~ok /\ pubPhase # "drop_last")]
        /\ UNCHANGED pubPhase
  BY DEF Drop
<1>3. /\ plan' \in PlanRecord /\ plan'.selected = plan.selected /\ plan'.omitted = plan.omitted
      /\ plan'.paths = plan.paths /\ plan'.todo = plan.todo \ {id}
      /\ (plan'.verdict <=> plan.verdict)
  <2> DEFINE rest == plan.todo \ {id}
             bad == plan.failed \/ (~ok /\ pubPhase # "drop_last")
  <2>1. /\ plan' = [plan EXCEPT !.todo = rest, !.failed = bad]
        /\ bad \in BOOLEAN /\ rest \in SUBSET (Nat \union Spots)
    BY <1>1, <1>2 DEF PlanFits, PlanRecord
  <2> HIDE DEF rest, bad
  <2>2. /\ plan' \in PlanRecord /\ plan'.selected = plan.selected /\ plan'.omitted = plan.omitted
        /\ plan'.paths = plan.paths /\ plan'.todo = rest
        /\ (plan'.verdict <=> plan.verdict)
    BY <1>1, <2>1 DEF PlanFits, PlanRecord
  <2> QED BY <2>2 DEF rest
<1>4. /\ lost' = lost \/ (lost' = lost + 1 /\ lost < MaxLost)
      /\ thread' = {n \in thread : n.id # id} \/ thread' = thread
      /\ lost' = lost /\ thread' = thread => \A n \in thread : n.id # id
  <2>1. lost' = lost \/ (lost' = lost + 1 /\ lost < MaxLost)
    BY <1>2 DEF Deletes, Answered
  <2>2. thread' = {n \in thread : n.id # id} \/ (~ok /\ thread' = thread)
    BY <1>2 DEF Deletes
  <2>3. ~ok /\ lost' = lost => id \notin {n.id : n \in thread}
    BY <1>1, <1>2 DEF Deletes, Answered
  <2>4. lost' = lost /\ thread' = thread => \A n \in thread : n.id # id
    BY <2>2, <2>3
  <2> QED BY <2>1, <2>2, <2>4
<1>5. /\ CostFits /\ lost \in Nat /\ lost' \in Nat /\ lost' >= lost
      /\ (lost' = 0 => lost = 0 /\ lost' = lost)
  BY <1>1, <1>4 DEF CostFits, PublisherAssumption
<1>6. thread' \in SUBSET thread /\ \A n \in thread : n \in thread' \/ n.id = id
  BY <1>4
<1>7. ThreadFits' /\ CallersFit' /\ CountersFit'
  <2>1. ThreadFits'
    BY <1>1, <1>6, ThreadShrinks
  <2> QED BY <1>1, <1>2, <1>5, <2>1 DEF CallersFit, CountersFit, CostFits
<1>8. /\ IsFiniteSet(Current) /\ Cardinality(Current) \in Nat /\ Cardinality(Counted) \in Nat
      /\ IsFiniteSet(Conclusions) /\ Cardinality(Conclusions) \in Nat /\ IsFiniteSet(Staying)
      /\ Cardinality(Staying) \in Nat /\ Cardinality(Callbacks) \in Nat /\ MaxPublished \in Nat
  BY <1>1, CountsAreNumbers DEF PublisherAssumption
<1>9. LimitFits'
  <2> DEFINE C == Current'
  <2>1. C \in SUBSET Current /\ Counted' = Counted
    BY <1>1, <1>6 DEF Current, CurrentFinding, Counted
  <2> HIDE DEF C
  <2>2. IsFiniteSet(C) /\ Cardinality(C) <= Cardinality(Current)
    BY <1>8, <2>1, FS_Subset
  <2>3. Cardinality(C) \in Nat
    BY <2>2, FS_CardinalityType
  <2>4. Fits => Cardinality(Current) + Cardinality(Counted)
                  < MaxPublished + Cardinality(Callbacks) + lost
    BY DEF PubInv, LimitFits
  <2>5. Fits => Cardinality(C) + Cardinality(Counted) < MaxPublished + Cardinality(Callbacks) + lost'
    BY <1>5, <1>8, <2>2, <2>3, <2>4
  <2> QED BY <1>1, <2>1, <2>5 DEF LimitFits, Fits, C
<1>10. PlanFits'
  <2>1. \A i \in plan'.todo : i \in Nat /\ i < nextNote
    BY <1>1, <1>3 DEF PlanFits
  <2>2. /\ pubPhase # "drop_last" => \A n \in thread' : n.id \in plan'.todo => n.kind = "finding"
        /\ pubPhase = "drop_last" => \A n \in thread' : n.id \in plan'.todo => Concluded(n)
    BY <1>1, <1>3, <1>6 DEF PlanFits
  <2> QED BY <1>1, <1>2, <1>3, <2>1, <2>2 DEF PlanFits, Concluded
<1>11. ConclusionsFit'
  <2> DEFINE C == Conclusions'
             S == Staying'
  <2>1. C \in SUBSET Conclusions
    BY <1>6 DEF Conclusions
  <2>2. \/ S \in SUBSET Staying
        \/ lost' = lost + 1 /\ \E n \in thread : S \in SUBSET (Staying \union {n})
    <3>1. CASE thread' = {n \in thread : n.id # id}
      BY <1>3, <3>1 DEF Staying, Conclusions
    <3>2. CASE thread' = thread /\ \A n \in thread : n.id # id
      BY <1>3, <3>2 DEF Staying, Conclusions
    <3>3. CASE thread' = thread /\ lost' # lost /\ \E n \in thread : n.id = id
      <4>1. PICK n \in thread : n.id = id
        BY <3>3
      <4>2. \A m \in thread : m.id = id => m = n
        BY <1>1, <4>1 DEF ThreadFits
      <4>3. S \in SUBSET (Staying \union {n})
        BY <1>3, <3>3, <4>2 DEF Staying, Conclusions
      <4> QED BY <1>4, <3>3, <4>3
    <3> QED BY <1>4, <3>1, <3>2, <3>3
  <2> HIDE DEF C, S
  <2>3. IsFiniteSet(C) /\ Cardinality(C) <= Cardinality(Conclusions)
    BY <1>8, <2>1, FS_Subset
  <2>4. Cardinality(C) \in Nat
    BY <2>3, FS_CardinalityType
  <2>5. IsFiniteSet(S) /\ Cardinality(S) <= Cardinality(Staying) + (lost' - lost)
    <3>1. CASE S \in SUBSET Staying
      <4>1. IsFiniteSet(S) /\ Cardinality(S) <= Cardinality(Staying)
        BY <1>8, <3>1, FS_Subset
      <4>2. Cardinality(S) \in Nat
        BY <4>1, FS_CardinalityType
      <4> QED BY <1>5, <1>8, <4>1, <4>2
    <3>2. CASE lost' = lost + 1 /\ \E n \in thread : S \in SUBSET (Staying \union {n})
      <4>1. PICK n \in thread : S \in SUBSET (Staying \union {n})
        BY <3>2
      <4>2. /\ IsFiniteSet(Staying \union {n})
            /\ Cardinality(Staying \union {n}) \in {Cardinality(Staying), Cardinality(Staying) + 1}
        BY <1>8, FS_AddElement
      <4>3. IsFiniteSet(S) /\ Cardinality(S) <= Cardinality(Staying \union {n})
        BY <4>1, <4>2, FS_Subset
      <4>4. Cardinality(S) \in Nat
        BY <4>3, FS_CardinalityType
      <4> QED BY <1>5, <1>8, <3>2, <4>2, <4>3, <4>4
    <3> QED BY <2>2, <3>1, <3>2
  <2>6. Cardinality(S) \in Nat
    BY <2>5, FS_CardinalityType
  <2>7. Fits => /\ Cardinality(Conclusions) <= 1 + lost
                /\ pubPhase = "drop_last" => Cardinality(Staying) <= lost
    BY DEF PubInv, ConclusionsFit
  <2>8. Fits => Cardinality(C) <= 1 + lost'
    BY <1>5, <1>8, <2>3, <2>4, <2>7
  <2>9. Fits /\ pubPhase = "drop_last" => Cardinality(S) <= lost'
    BY <1>5, <1>8, <2>5, <2>6, <2>7
  <2> QED BY <1>1, <1>2, <2>8, <2>9 DEF ConclusionsFit, Fits, C, S
<1>12. lost' = 0 => thread' = {n \in thread : n.id # id}
  <2>1. ASSUME \A n \in thread : n.id # id PROVE thread = {n \in thread : n.id # id}
    BY <2>1
  <2> QED BY <1>4, <1>5, <2>1
<1>13. NotesReplaced'
  <2>1. SUFFICES ASSUME lost' = 0, Fits, pubPhase = "drop_last"
                 PROVE  /\ Staying' = {}
                        /\ \A n \in thread' : n.kind = "progress" => n.id \in plan'.todo \/ late
    BY <1>1, <1>2 DEF NotesReplaced, Reliable, Fits
  <2>2. Staying = {} /\ \A n \in thread : n.kind = "progress" => n.id \in plan.todo \/ late
    BY <1>5, <2>1 DEF PubInv, NotesReplaced, Reliable
  <2> QED BY <1>3, <1>12, <2>1, <2>2 DEF Staying, Conclusions
<1>14. ResolvedFits'
  BY <1>1, <1>2, <1>3, <1>5, <1>6 DEF PubInv, ResolvedFits, OldThread, Reliable
<1>15. callAt[Publishing] = "idle" /\ \A spot : ~Waiting(spot) /\ ~Waiting(spot)'
  BY <1>1, <1>2 DEF CallersFit, Waiting
<1>16. pubPhase = "drop_last" => FindingNotes' = FindingNotes /\ Current' = Current
  <2>1. ASSUME pubPhase = "drop_last", NEW n \in thread, n.kind = "finding" PROVE n \in thread'
    <3>1. n.id # id
      BY <1>1, <1>2, <2>1 DEF PlanFits, Concluded
    <3> QED BY <1>6, <3>1
  <2> QED BY <1>1, <1>6, <2>1 DEF FindingNotes, Current, CurrentFinding
<1>17. SelectionFits'
  <2>1. pubPhase = "drop_last" => \A spot : Shown(spot) => Shown(spot)'
    BY <1>16 DEF Shown
  <2> QED BY <1>1, <1>2, <1>3, <1>5, <1>15, <1>16, <2>1
          DEF PubInv, SelectionFits, Fits, Reliable, Published
<1>18. ResetFits'
  <2>1. CASE pubPhase = "drop_threads"
    <3>1. SUFFICES ASSUME plan.verdict, lost' = 0, Fits, plan.omitted # {}, NEW n \in FindingNotes'
                   PROVE  n.id \in plan'.todo
      BY <1>1, <1>2, <1>3, <2>1 DEF ResetFits, Reliable, Fits, Published
    <3>2. n \in FindingNotes /\ n.id # id
      BY <1>12, <3>1 DEF FindingNotes
    <3>3. n.id \in plan.todo
      BY <1>5, <2>1, <3>1, <3>2 DEF PubInv, ResetFits, Reliable
    <3> QED BY <1>3, <3>2, <3>3
  <2>2. CASE pubPhase = "drop_notes"
    <3>1. FindingNotes' \subseteq FindingNotes
      BY <1>6 DEF FindingNotes
    <3> QED BY <1>1, <1>2, <1>3, <1>5, <2>2, <3>1 DEF PubInv, ResetFits, Reliable, Fits, Published
  <2>3. CASE pubPhase = "drop_last"
    <3>1. \A spot : Shown(spot) => Shown(spot)'
      BY <1>16, <2>3 DEF Shown
    <3> QED BY <1>1, <1>2, <1>3, <1>5, <1>15, <1>16, <2>3, <3>1
            DEF PubInv, ResetFits, Reliable, Fits, Published
  <2> QED BY <1>1, <2>1, <2>2, <2>3
<1> QED BY <1>7, <1>9, <1>10, <1>11, <1>13, <1>14, <1>17, <1>18 DEF PubInv

-----------------------------------------------------------------------------
(* Around the review.                                                      *)

\* The next revision has no findings yet.
LEMMA NextReviewKeeps ==
  ASSUME PublisherAssumption, PubInv, NextReview
  PROVE  PubInv'
<1>1. /\ UNCHANGED <<thread, nextNote, crowded, callAt, carried, reports, lost>>
      /\ head < LastHead /\ head' = head + 1 /\ pubPhase' = "reviewing" /\ plan' = NoPlan
      /\ late' = FALSE /\ (\A c \in Callers : callAt[c] = "idle")
      /\ ThreadFits /\ CallersFit /\ CountersFit
  BY DEF NextReview, NoNote, PubInv
<1>2. head \in Nat /\ head' \in 1..LastHead
        /\ \A n \in thread : n.head \in Nat /\ n.head <= head /\ n.head <= head' /\ n.head # head'
  BY <1>1 DEF ThreadFits, NoteRecord, PublisherAssumption
<1>3. ThreadFits'
  <2>1. \A n \in thread' : n.id < nextNote' /\ n.head <= head'
    BY <1>1, <1>2 DEF ThreadFits
  <2> QED BY <1>1, <1>2, <2>1 DEF ThreadFits, Fits
<1>4. CallersFit' /\ CountersFit'
  <2>1. CallersFit'
    BY <1>1 DEF CallersFit, Callers, InChain
  <2>2. CountersFit'
    BY <1>1 DEF CountersFit, Phases
  <2> QED BY <2>1, <2>2
<1>5. Current' = {} /\ Counted' = {} /\ Conclusions' = Conclusions
  BY <1>1, <1>2 DEF Current, CurrentFinding, Counted, Conclusions
<1>6. LimitFits'
  <2>1. /\ Cardinality({}) = 0 /\ Cardinality(Callbacks) \in Nat \ {0} /\ MaxPublished \in Nat
        /\ lost' \in Nat
    BY <1>1, FS_EmptySet, CountsAreNumbers DEF PublisherAssumption, CountersFit
  <2>2. Cardinality({}) + Cardinality({}) < MaxPublished + Cardinality(Callbacks) + lost'
    BY <2>1
  <2> QED BY <1>5, <2>2 DEF LimitFits
<1>7. ConclusionsFit' /\ NotesReplaced'
  BY <1>1, <1>5 DEF PubInv, ConclusionsFit, NotesReplaced, Fits
<1> QED BY <1>1, <1>3, <1>4, <1>6, <1>7, NoPlanFits DEF PubInv

\* A kill leaves the notes, and costs a failure.
LEMMA KillReviewKeeps ==
  ASSUME PublisherAssumption, PubInv, KillReview
  PROVE  PubInv'
<1>1. /\ UNCHANGED <<thread, nextNote, crowded, head, reports, late>>
      /\ lost < MaxLost /\ lost' = lost + 1 /\ pubPhase' = "reviewing" /\ plan' = NoPlan
      /\ callAt' = [c \in Callers |-> "idle"] /\ carried' = [c \in Callers |-> NoSpot]
      /\ ThreadFits /\ CountersFit
  BY DEF KillReview, NoNote, PubInv
<1>2. CostFits /\ lost \in Nat /\ lost' \in Nat /\ lost' >= lost
  BY <1>1 DEF CostFits, CountersFit, PublisherAssumption
<1>3. ThreadFits' /\ CountersFit' /\ CallersFit'
  <2>1. ThreadFits'
    BY <1>1 DEF ThreadFits, Fits
  <2>2. CountersFit'
    BY <1>1, <1>2 DEF CountersFit, CostFits, Phases
  <2>3. CallersFit'
    BY <1>1 DEF CallersFit, Callers, CallPlaces, InChain
  <2> QED BY <2>1, <2>2, <2>3
<1>4. Counted' = {} /\ Conclusions' = Conclusions
  BY <1>1 DEF Counted, Conclusions
<1>5. LimitFits'
  BY <1>1, <1>2, <1>4, NobodyJoins
<1>6. ConclusionsFit' /\ NotesReplaced'
  <2>1. Cardinality(Conclusions) \in Nat
    BY <1>1, CountsAreNumbers
  <2> QED BY <1>1, <1>2, <1>4, <2>1 DEF PubInv, ConclusionsFit, NotesReplaced, Fits
<1> QED BY <1>1, <1>3, <1>5, <1>6, NoPlanFits DEF PubInv

-----------------------------------------------------------------------------
(* Every step keeps it.                                                    *)

\* Each action of the callers, of Publish and around them.
LEMMA PubStepKeeps ==
  ASSUME PublisherAssumption, PubInv, [PubNext]_pubVars
  PROVE  PubInv'
<1>1. CASE UNCHANGED pubVars
  BY <1>1 DEF pubVars, PubInv, ThreadFits, CallersFit, CountersFit, PlanFits, LimitFits,
              ConclusionsFit, NotesReplaced, ResolvedFits, SelectionFits, ResetFits, Fits, Reliable,
              Current, CurrentFinding, Counted, Conclusions, Staying, FindingNotes, OldThread,
              Waiting, Shown
<1>2. ASSUME NEW c \in Callbacks, PublishProgress(c) PROVE PubInv'
  BY <1>2, PublishProgressKeeps
<1>3. ASSUME NEW c \in Callbacks, NEW f \in Findings, LiveFinding(c, f) PROVE PubInv'
  BY <1>3, LiveFindingKeeps
<1>4. ASSUME NEW c \in Callers, ChainStep(c) PROVE PubInv'
  BY <1>4, NoteExistsKeeps, CountFindingsKeeps, GetDiffVersionKeeps, CreateDiffDiscussionKeeps,
     PublishOrdinaryKeeps, UpsertNoteKeeps DEF ChainStep
<1>5. CASE Drop
  BY <1>5, DropEndsKeeps, DropOneKeeps
<1>6. CASE PublishStep
  BY <1>5, <1>6, StartPublishKeeps, StartFailureKeeps, ListOldFindingsKeeps, ResolveDiscussionKeeps,
     ListForResetKeeps, PublishNextKeeps, ListConclusionsKeeps, CreateConclusionKeeps DEF PublishStep
<1> QED BY <1>1, <1>2, <1>3, <1>4, <1>6, NextReviewKeeps, KillReviewKeeps DEF PubNext

\* The invariant the theorems below are read from.
THEOREM PubInvariant == PubSpec => []PubInv
<1>1. PubInit => PubInv
  BY PubInvInit, PublisherAssumption
<1>2. PubInv /\ [PubNext]_pubVars => PubInv'
  BY PubStepKeeps, PublisherAssumption
<1> QED BY <1>1, <1>2, PTL DEF PubSpec

-----------------------------------------------------------------------------
(* What it says.                                                           *)

\* One note for each selected place: as many as were selected.
LEMMA OneNoteEach ==
  ASSUME PublisherAssumption, PubInv, pubPhase = "ended", plan.verdict, plan.omitted # {}, Reliable, Fits
  PROVE  /\ {n.spot : n \in FindingNotes} = plan.selected
         /\ Cardinality(FindingNotes) = Cardinality(plan.selected)
<1>1. /\ \A n \in FindingNotes : n.head = head /\ n.spot \in plan.selected
      /\ \A n, m \in FindingNotes : n.spot = m.spot => n = m
      /\ \A spot \in plan.selected : Shown(spot)
  BY DEF PubInv, ResetFits, Published, Waiting
<1>2. \A spot \in plan.selected : \E n \in FindingNotes : n.spot = spot
  BY <1>1 DEF Shown, Current, CurrentFinding, FindingNotes
<1> DEFINE g == [n \in FindingNotes |-> n.spot]
<1>3. g \in Bijection(FindingNotes, plan.selected)
  <2>1. g \in [FindingNotes -> plan.selected]
    BY <1>1
  <2>2. \A n, m \in FindingNotes : g[n] = g[m] => n = m
    BY <1>1
  <2>3. \A spot \in plan.selected : \E n \in FindingNotes : g[n] = spot
    BY <1>2
  <2> HIDE DEF g
  <2> QED BY <2>1, <2>2, <2>3 DEF Bijection, Injection, Surjection, IsInjective
<1>4. IsFiniteSet(FindingNotes)
  <2>1. FindingNotes \in SUBSET thread
    BY DEF FindingNotes
  <2> QED BY <2>1, FS_Subset DEF PubInv, ThreadFits
<1>5. Cardinality(FindingNotes) = Cardinality(plan.selected)
  <2>1. ExistsBijection(FindingNotes, plan.selected)
    BY <1>3 DEF ExistsBijection
  <2> QED BY <1>4, <2>1, FS_Bijection
<1>6. {n.spot : n \in FindingNotes} = plan.selected
  BY <1>1, <1>2
<1> QED BY <1>5, <1>6

\* What is published is the selection, within the limit, which is passed by
\* races and lost answers only (PublishLiveFinding, resetBotFindingComments).
THEOREM PublishedStaysSelected == PubSpec => []PublishedIsSelected
<1>1. PubInv => PublishedIsSelected
  <2>1. SUFFICES ASSUME PubInv PROVE PublishedIsSelected
    OBVIOUS
  <2>2. PubTypeOK
    BY <2>1 DEF PubInv, ThreadFits, CountersFit, PubTypeOK, NoteRecord
  <2>3. LimitPassedByRaceOnly
    <3>1. /\ Cardinality(Current) \in Nat /\ Cardinality(Counted) \in Nat
          /\ Cardinality(Callbacks) \in Nat /\ MaxPublished \in Nat /\ lost \in Nat
      BY <2>1, CountsAreNumbers, PublisherAssumption DEF PubInv, CountersFit, PublisherAssumption
    <3>2. Fits => Cardinality(Current) + Cardinality(Counted)
                    < MaxPublished + Cardinality(Callbacks) + lost
      BY <2>1 DEF PubInv, LimitFits
    <3>3. Fits => Cardinality(Current) < MaxPublished + Cardinality(Callbacks) + lost
      BY <3>1, <3>2
    <3> QED BY <3>3 DEF LimitPassedByRaceOnly, Current
  <2>4. OnlySelectedRemain
    BY <2>1, OneNoteEach, PublisherAssumption DEF OnlySelectedRemain, FindingNotes
  <2>5. SelectedUnlessFull
    <3>1. SUFFICES ASSUME pubPhase = "ended", plan.verdict, Reliable, Fits
                   PROVE  \/ plan.selected \subseteq {n.spot : n \in Current}
                          \/ Cardinality(Current) >= MaxPublished
      BY DEF SelectedUnlessFull, Current
    <3>2. (\A spot \in plan.selected : Shown(spot)) \/ Cardinality(Current) >= MaxPublished
      BY <2>1, <3>1 DEF PubInv, SelectionFits, Published, Waiting
    <3> QED BY <3>2 DEF Shown
  <2> QED BY <2>2, <2>3, <2>4, <2>5 DEF PublishedIsSelected
<1> QED BY <1>1, PubInvariant, PTL

\* A publication leaves its own conclusion; failures leave one more each, and
\* no progress note stays but one written behind its back (publishConclusion).
THEOREM OneConclusionStays == PubSpec => []OneConclusion
<1>1. PubInv => OneConclusion
  <2>1. SUFFICES ASSUME PubInv, pubPhase = "ended", Fits
                 PROVE  /\ Cardinality(Conclusions) <= 1 + lost
                        /\ Reliable => /\ {n.head : n \in Conclusions} = {head}
                                       /\ (\E n \in thread : n.kind = "progress") => late
    BY DEF OneConclusion, Conclusions
  <2>2. Cardinality(Conclusions) <= 1 + lost
    BY <2>1 DEF PubInv, ConclusionsFit
  <2>3. ASSUME Reliable
        PROVE  /\ Conclusions # {} /\ \A n \in Conclusions : n.head = head
               /\ \A n \in thread : n.kind = "progress" => late
    BY <2>1, <2>3 DEF PubInv, NotesReplaced
  <2>4. Reliable => {n.head : n \in Conclusions} = {head}
    BY <2>3
  <2> QED BY <2>2, <2>3, <2>4
<1> QED BY <1>1, PubInvariant, PTL

\* What an earlier revision said of a file that was reviewed again does not
\* stay open (resolveSupersededFindings).
THEOREM ReconsideredStaysResolved == PubSpec => []ReconsideredIsResolved
<1>1. PubInv => ReconsideredIsResolved
  BY DEF PubInv, ResolvedFits, OldThread, ReconsideredIsResolved
<1> QED BY <1>1, PubInvariant, PTL

=============================================================================
