--------------------------- MODULE AgentRunProofs ---------------------------
(***************************************************************************)
(* Theorems about the attempts of a review job, for any files, concurrency *)
(* and number of findings and attempts: they implement Coverage, account   *)
(* for every finding, and keep manifest, checkpoints and result agreeing.  *)
(* And about the sessions they write: each report agrees with its lines.   *)
(***************************************************************************)
EXTENDS AgentRun, SessionReport, FiniteSetTheorems, WellFoundedInduction, TLAPS

-----------------------------------------------------------------------------
(* Where each file's goroutine is, and what became of the file.            *)

\* The places between the start of a file's goroutine and its end.
Inside == {"review", "drain", "filter", "verdict"}

\* A file is undecided exactly while its goroutine has not ended and it is
\* not reused; goroutines run only while files are dispatched, and no file is
\* undecided once they have been collected.
PlacesFit ==
  /\ phase \in Phases
  /\ pc \in [Files -> Places]
  /\ outcome \in [Files -> {"selected", "failed"} \union Covered]
  /\ \A f \in Files :
       /\ pc[f] \in Inside => outcome[f] = "selected"
       /\ pc[f] = "over" => outcome[f] # "selected"
       /\ outcome[f] = "reused" => pc[f] = "waiting"
       /\ phase \in {"analysis", "finalize"} => outcome[f] # "selected"
       /\ phase \in {"load", "resume"} => pc[f] = "waiting"
       /\ phase = "load" => outcome[f] = "selected"
       /\ phase = "resume" => outcome[f] \in {"selected", "reused"}
       /\ phase # "dispatch" => pc[f] \notin Inside
  /\ phase = "idle" =>
       \/ \A f \in Files : outcome[f] = "selected"
       \/ \A f \in Files : outcome[f] # "selected"

\* Nothing is decided and no goroutine runs before the first attempt.
LEMMA PlacesInit == Init => PlacesFit
BY DEF Init, PlacesFit, Phases, Places, Covered, Inside

\* What moves one file's goroutine within the dispatch keeps the places fit.
LEMMA MovesFit ==
  ASSUME PlacesFit, NEW f \in Files, phase = "dispatch", UNCHANGED phase,
         NEW place \in Places, place # "waiting",
         pc[f] # "waiting" \/ outcome[f] = "selected",
         pc' = [pc EXCEPT ![f] = place],
         \/ place \in Inside /\ outcome[f] = "selected" /\ UNCHANGED outcome
         \/ /\ place = "over"
            /\ \E o \in {"failed", "completed"} : outcome' = [outcome EXCEPT ![f] = o]
  PROVE  PlacesFit'
<1>1. /\ pc' \in [Files -> Places]
      /\ outcome' \in [Files -> {"selected", "failed"} \union Covered]
  BY DEF PlacesFit, Covered
<1>2. ASSUME NEW g \in Files, g # f
      PROVE  pc'[g] = pc[g] /\ outcome'[g] = outcome[g]
  BY <1>2 DEF PlacesFit
<1>3. /\ pc'[f] = place
      /\ outcome'[f] \in {"selected", "failed", "completed"}
      /\ place \in Inside => outcome'[f] = "selected"
      /\ place = "over" => outcome'[f] # "selected"
  BY DEF PlacesFit, Inside
<1>4. ASSUME NEW g \in Files
      PROVE  /\ pc'[g] \in Inside => outcome'[g] = "selected"
             /\ pc'[g] = "over" => outcome'[g] # "selected"
             /\ outcome'[g] = "reused" => pc'[g] = "waiting"
  <2>1. CASE g = f
    BY <2>1, <1>3
  <2>2. CASE g # f
    BY <2>2, <1>2 DEF PlacesFit
  <2> QED BY <2>1, <2>2
<1> QED BY <1>1, <1>4 DEF PlacesFit

\* A file's step keeps the places fit.
LEMMA FileStepFits ==
  ASSUME PlacesFit, NEW f \in Files, FileStep(f)
  PROVE  PlacesFit'
<1>1. CASE Reuse(f)
  BY <1>1 DEF Reuse, PlacesFit, Phases, Places, Covered, Inside
<1>2. CASE Submit(f)
  BY <1>2 DEF Submit, PlacesFit
<1>3. CASE StartFile(f)
  BY <1>3, MovesFit DEF StartFile, Places, Inside
<1>4. CASE MainLoopEnds(f) \/ AwaitKey(f) \/ FilterAnswers(f)
  <2>1. pc[f] \in Inside /\ UNCHANGED <<phase, outcome>>
    BY <1>4 DEF MainLoopEnds, AwaitKey, AfterDrain, FilterAnswers, Inside
  <2>2. \E place \in {"drain", "filter", "verdict"} : pc' = [pc EXCEPT ![f] = place]
    BY <1>4 DEF MainLoopEnds, AwaitKey, AfterDrain, FilterAnswers
  <2>3. phase = "dispatch" /\ outcome[f] = "selected" /\ pc[f] # "waiting"
    BY <2>1 DEF PlacesFit, Inside
  <2> QED BY <2>1, <2>2, <2>3, MovesFit DEF Places, Inside
<1>5. CASE PromptTooLarge(f) \/ ReviewFails(f) \/ ReviewPanics(f) \/ Verdict(f)
  <2>1. pc[f] \in Inside /\ UNCHANGED phase
    BY <1>5 DEF PromptTooLarge, ReviewFails, ReviewPanics, Verdict, Complete,
       StopShort, FailItem, Inside
  <2>2. /\ pc' = [pc EXCEPT ![f] = "over"]
        /\ \E o \in {"failed", "completed"} : outcome' = [outcome EXCEPT ![f] = o]
    BY <1>5 DEF PromptTooLarge, ReviewFails, ReviewPanics, Verdict, Complete,
       StopShort, FailItem
  <2>3. phase = "dispatch" /\ pc[f] # "waiting"
    BY <2>1 DEF PlacesFit, Inside
  <2> QED BY <2>1, <2>2, <2>3, MovesFit DEF Places, Inside
<1> QED BY <1>1, <1>2, <1>3, <1>4, <1>5 DEF FileStep

\* The pool does not touch the goroutines' places.
LEMMA UnitStepIdles ==
  ASSUME NEW u \in units, UnitStep(u)
  PROVE  UNCHANGED <<phase, pc, outcome, resume>>
BY DEF UnitStep, UnitStarts, UnitAdds, UnitPanics

\* A new attempt and a kill start over.
LEMMA StartingFits ==
  ASSUME Unstarted, phase' \in {"load", "idle"}
  PROVE  PlacesFit'
BY DEF Unstarted, PlacesFit, Phases, Places, Covered, Inside

\* Every step keeps the places fit.
LEMMA PlacesStep == PlacesFit /\ [Next]_vars => PlacesFit'
<1> SUFFICES ASSUME PlacesFit, [Next]_vars PROVE PlacesFit'
  OBVIOUS
<1>1. CASE UNCHANGED vars
  BY <1>1 DEF vars, runVars, jobVars, PlacesFit
<1>2. CASE OpenSession \/ Kill
  BY <1>2, StartingFits DEF OpenSession, Kill
<1>3. CASE CtxEnds \/ Analyse
  BY <1>3 DEF CtxEnds, Analyse, PlacesFit, Phases
<1>4. CASE LoadFails
  BY <1>4 DEF LoadFails, PlacesFit, Phases
<1>5. CASE Select
  BY <1>5 DEF Select, runVars, PlacesFit, Phases
<1>6. CASE Dispatch
  BY <1>6 DEF Dispatch, runVars, PlacesFit, Phases
<1>7. CASE Collect
  BY <1>7 DEF Collect, PlacesFit, Phases, Inside
<1>8. CASE FinalizeManifest
  BY <1>8 DEF FinalizeManifest, runVars, PlacesFit, Phases
<1>9. ASSUME NEW f \in Files, FileStep(f) PROVE PlacesFit'
  BY <1>9, FileStepFits
<1>10. ASSUME NEW u \in units, UnitStep(u) PROVE PlacesFit'
  BY <1>10, UnitStepIdles DEF PlacesFit
<1> QED BY <1>1, <1>2, <1>3, <1>4, <1>5, <1>6, <1>7, <1>8, <1>9, <1>10
     DEF Next, RunStep

\* The places fit in every state the attempts reach.
LEMMA PlacesAlwaysFit == Spec => []PlacesFit
BY PlacesInit, PlacesStep, PTL DEF Spec

-----------------------------------------------------------------------------
(* The refinement.                                                         *)

ItemsOf == [f \in Files |-> IF Unregistered THEN "none" ELSE outcome[f]]

StageOf == IF Unregistered THEN "open"
           ELSE IF phase = "idle" THEN "frozen" ELSE "sealed"

\* A step that leaves phase and outcomes alone leaves the manifest alone.
LEMMA QuietSteps ==
  ASSUME UNCHANGED <<phase, outcome>>
  PROVE  UNCHANGED <<ItemsOf, StageOf>>
BY DEF ItemsOf, StageOf, Unregistered

\* A step that decides one undecided file of a run that has its files.
LEMMA DecidingSteps ==
  ASSUME PlacesFit, NEW f \in Files, phase \notin {"idle", "load"},
         UNCHANGED phase, outcome[f] = "selected",
         \E o \in {"failed", "completed", "reused"} :
           outcome' = [outcome EXCEPT ![f] = o]
  PROVE  Attempt!Decide(f)
<1>1. ~Unregistered /\ ~Unregistered'
  BY DEF Unregistered
<1>2. ItemsOf = outcome /\ StageOf = "sealed"
  BY <1>1 DEF ItemsOf, StageOf, PlacesFit
<1>3. ItemsOf' = outcome' /\ StageOf' = "sealed"
  BY <1>1 DEF ItemsOf, StageOf, PlacesFit
<1> QED BY <1>2, <1>3 DEF Attempt!Decide, Attempt!Outcomes, ItemsOf, StageOf

\* A run whose files are not registered has a new manifest.
LEMMA NewManifest ==
  ASSUME Unregistered'
  PROVE  Attempt!NewRun
BY DEF Attempt!NewRun, Attempt!Blank, Unregistered

\* Every step of the attempts is a step of their manifest, or none.
LEMMA AttemptSteps ==
  PlacesFit /\ [Next]_vars => [Attempt!CovNext]_(Attempt!covVars)
<1> SUFFICES ASSUME PlacesFit, [Next]_vars
             PROVE  Attempt!CovNext \/ UNCHANGED <<ItemsOf, StageOf>>
  BY DEF Attempt!covVars, ItemsOf, StageOf
<1>1. CASE UNCHANGED vars
  BY <1>1, QuietSteps DEF vars, runVars
<1>2. CASE OpenSession
  BY <1>2, NewManifest DEF OpenSession, Unregistered, Attempt!CovNext
<1>3. CASE Kill
  BY <1>3, NewManifest DEF Kill, Unstarted, Unregistered, Attempt!CovNext
<1>4. CASE LoadFails
  BY <1>4, NewManifest DEF LoadFails, PlacesFit, Unregistered, Attempt!CovNext
<1>5. CASE Select
  <2>1. Unregistered /\ ~Unregistered'
    BY <1>5 DEF Select, Unregistered
  <2>2. ItemsOf' = [f \in Files |-> "selected"] /\ StageOf' = "sealed"
    BY <1>5, <2>1 DEF Select, runVars, ItemsOf, StageOf, PlacesFit
  <2>3. ItemsOf = [f \in Files |-> "none"] /\ StageOf = "open"
    BY <2>1 DEF ItemsOf, StageOf
  <2>4. Attempt!Seal(Files)
    BY <2>2, <2>3 DEF Attempt!Seal, Attempt!Registered, ItemsOf, StageOf
  <2> QED BY <2>4 DEF Attempt!CovNext
<1>6. CASE Dispatch \/ Collect \/ Analyse \/ CtxEnds
  BY <1>6 DEF Dispatch, Collect, Analyse, CtxEnds, runVars, ItemsOf, StageOf,
     Unregistered
<1>7. CASE FinalizeManifest
  <2>1. CASE Files = {}
    BY <1>7, <2>1, NewManifest DEF FinalizeManifest, Unregistered, Attempt!CovNext
  <2>2. CASE Files # {}
    <3>1. ~Unregistered /\ ~Unregistered'
      BY <1>7, <2>2 DEF FinalizeManifest, runVars, PlacesFit, Unregistered
    <3>2. ItemsOf = outcome /\ ItemsOf' = outcome /\ StageOf = "sealed" /\ StageOf' = "frozen"
      BY <1>7, <3>1 DEF FinalizeManifest, runVars, ItemsOf, StageOf, PlacesFit
    <3>3. outcome = [f \in Files |-> IF outcome[f] = "selected" THEN "failed" ELSE outcome[f]]
      BY <1>7 DEF FinalizeManifest, PlacesFit
    <3>4. Attempt!Freeze
      BY <3>2, <3>3 DEF Attempt!Freeze, ItemsOf, StageOf
    <3> QED BY <3>4 DEF Attempt!CovNext
  <2> QED BY <2>1, <2>2
<1>8. ASSUME NEW f \in Files, FileStep(f)
      PROVE  Attempt!CovNext \/ UNCHANGED <<ItemsOf, StageOf>>
  <2>1. CASE UNCHANGED <<phase, outcome>>
    BY <2>1, QuietSteps
  <2>2. CASE ~UNCHANGED <<phase, outcome>>
    <3>1. /\ outcome[f] = "selected" /\ phase \notin {"idle", "load"} /\ UNCHANGED phase
          /\ \E o \in {"failed", "completed", "reused"} :
               outcome' = [outcome EXCEPT ![f] = o]
      BY <1>8, <2>2 DEF FileStep, Reuse, StartFile, Submit, MainLoopEnds, AwaitKey,
         AfterDrain, FilterAnswers, PromptTooLarge, ReviewFails, ReviewPanics,
         Verdict, Complete, StopShort, FailItem, PlacesFit, Inside
    <3>2. Attempt!Decide(f)
      BY <3>1, DecidingSteps
    <3> QED BY <3>2 DEF Attempt!CovNext
  <2> QED BY <2>1, <2>2
<1>9. ASSUME NEW u \in units, UnitStep(u)
      PROVE  UNCHANGED <<ItemsOf, StageOf>>
  BY <1>9, UnitStepIdles, QuietSteps
<1> QED BY <1>1, <1>2, <1>3, <1>4, <1>5, <1>6, <1>7, <1>8, <1>9
     DEF Next, RunStep

\* The agent's goroutines keep the promise of module Coverage, for any files
\* and any concurrency: a file that was registered gets one outcome, however
\* its review ends, and Finalize finds none without one.
THEOREM AttemptsKeepPromise == Spec => CoverageRefined
<1>1. Init => Attempt!CovInit
  BY DEF Init, Attempt!CovInit, Attempt!Blank, Unregistered
<1>2. PlacesFit /\ [Next]_vars => [Attempt!CovNext]_(Attempt!covVars)
  BY AttemptSteps
<1> QED BY <1>1, <1>2, PlacesAlwaysFit, PTL DEF Spec, CoverageRefined, Attempt!CovSpec

-----------------------------------------------------------------------------
(* Positions, ranks and subsequences.                                      *)

\* A set of numbers that is not empty has a least one.
LEMMA LeastNumber ==
  ASSUME NEW S \in SUBSET Nat, S # {}
  PROVE  \E n \in S : \A m \in S : n <= m
<1> DEFINE Less == {ij \in Nat \X Nat : ij[1] < ij[2]}
<1>1. IsWellFoundedOn(Less, Nat)
  BY NatLessThanWellFounded DEF OpToRel
<1>2. PICK n \in S : \A m \in S : ~(<<m, n>> \in Less)
  <2> HIDE DEF Less
  <2> QED BY <1>1, WFMin
<1>3. \A m \in S : ~(m < n) /\ m \in Nat /\ n \in Nat
  BY <1>2
<1> QED BY <1>3

\* The ranks of a set of positions number them in their order.
LEMMA RanksFit ==
  ASSUME NEW n \in Nat, NEW S \in SUBSET (1..n)
  PROVE  /\ IsFiniteSet(S) /\ Cardinality(S) \in Nat
         /\ \A i \in S : Rank(S, i) \in 1..Cardinality(S)
         /\ \A i, j \in S : i < j => Rank(S, i) < Rank(S, j)
         /\ \A k \in 1..Cardinality(S) : \E i \in S : Rank(S, i) = k
<1> DEFINE Upto(i) == {j \in S : j <= i}
<1>1. IsFiniteSet(S) /\ Cardinality(S) \in Nat
  <2>1. IsFiniteSet(1..n)
    BY FS_Interval
  <2> QED BY <2>1, FS_Subset, FS_CardinalityType
<1>2. ASSUME NEW i \in S
      PROVE  IsFiniteSet(Upto(i)) /\ Cardinality(Upto(i)) \in 1..Cardinality(S)
  <2>1. Upto(i) \in SUBSET S /\ i \in Upto(i)
    OBVIOUS
  <2> HIDE DEF Upto
  <2>2. /\ IsFiniteSet(Upto(i)) /\ Cardinality(Upto(i)) \in Nat
        /\ Cardinality(Upto(i)) <= Cardinality(S)
    BY <1>1, <2>1, FS_Subset, FS_CardinalityType
  <2>3. Cardinality(Upto(i)) # 0
    BY <2>1, <2>2, FS_EmptySet
  <2> QED BY <1>1, <2>2, <2>3
<1>3. ASSUME NEW i \in S, NEW j \in S, i < j
      PROVE  Cardinality(Upto(i)) < Cardinality(Upto(j))
  <2>1. Upto(i) \in SUBSET Upto(j) /\ j \in Upto(j) /\ j \notin Upto(i)
    <3>1. i \in Int /\ j \in Int
      OBVIOUS
    <3>2. ASSUME NEW x \in Upto(i) PROVE x \in Upto(j)
      <4>1. x \in S /\ x \in Int /\ x <= i
        OBVIOUS
      <4> QED BY <1>3, <3>1, <4>1
    <3>3. j \in Upto(j) /\ j \notin Upto(i)
      BY <1>3, <3>1
    <3> HIDE DEF Upto
    <3> QED BY <3>2, <3>3
  <2>2. /\ Cardinality(Upto(i)) \in Nat /\ Cardinality(Upto(j)) \in Nat
        /\ IsFiniteSet(Upto(j))
    BY <1>2
  <2> HIDE DEF Upto
  <2>3. /\ Cardinality(Upto(i)) <= Cardinality(Upto(j))
        /\ Cardinality(Upto(j)) = Cardinality(Upto(i)) => Upto(j) = Upto(i)
    BY <2>1, <2>2, FS_Subset
  <2> QED BY <2>1, <2>2, <2>3
<1>4. ASSUME NEW k \in 1..Cardinality(S) PROVE \E i \in S : Cardinality(Upto(i)) = k
  <2> DEFINE rank == [i \in S |-> Cardinality(Upto(i))]
             all == 1..Cardinality(S)
  <2>1. rank \in [S -> all]
    BY <1>2
  <2>2. \A i, j \in S : rank[i] = rank[j] => i = j
    <3>1. SUFFICES ASSUME NEW i \in S, NEW j \in S, rank[i] = rank[j], i # j
                   PROVE  FALSE
      OBVIOUS
    <3>2. i < j \/ j < i
      BY <3>1
    <3>3. Cardinality(Upto(i)) \in Nat /\ Cardinality(Upto(j)) \in Nat
      BY <1>2
    <3> HIDE DEF Upto
    <3> QED BY <1>3, <3>1, <3>2, <3>3
  <2>3. IsFiniteSet(all) /\ Cardinality(all) = Cardinality(S)
    BY <1>1, FS_Interval
  <2>4. k \in all
    OBVIOUS
  <2> HIDE DEF all, rank
  <2>5. rank \in Injection(S, all)
    BY <2>1, <2>2 DEF Injection, IsInjective
  <2>6. rank \in Surjection(S, all)
    BY <2>3, <2>5, FS_Injection
  <2>7. PICK i \in S : rank[i] = k
    BY <2>4, <2>6 DEF Surjection
  <2> QED BY <2>7 DEF rank
<1>5. \A i \in S : Rank(S, i) = Cardinality(Upto(i))
  BY DEF Rank
<1> HIDE DEF Upto
<1> QED BY <1>1, <1>2, <1>3, <1>4, <1>5

\* A subsequence has each of its elements at the rank of its position.
LEMMA ElementAtRank ==
  ASSUME NEW n \in Nat, NEW S \in SUBSET (1..n), NEW s
  PROVE  /\ DOMAIN Subsequence(s, S) = 1..Cardinality(S)
         /\ \A i \in S : Subsequence(s, S)[Rank(S, i)] = s[i]
<1>1. DOMAIN Subsequence(s, S) = 1..Cardinality(S)
  BY DEF Subsequence
<1>2. ASSUME NEW i \in S PROVE Subsequence(s, S)[Rank(S, i)] = s[i]
  <2> DEFINE k == Rank(S, i)
             j == CHOOSE j \in S : Rank(S, j) = k
  <2>1. k \in 1..Cardinality(S)
    BY RanksFit
  <2>2. Subsequence(s, S)[k] = s[j]
    BY <2>1 DEF Subsequence
  <2>3. j \in S /\ Rank(S, j) = k
    OBVIOUS
  <2> HIDE DEF j
  <2>4. Rank(S, j) \in Nat /\ i \in Nat /\ j \in Nat
    BY <2>1, <2>3
  <2>5. j = i
    <3>1. \A x, y \in S : x < y => Rank(S, x) < Rank(S, y)
      BY RanksFit
    <3> HIDE DEF k
    <3>2. Rank(S, i) = Rank(S, j) /\ Rank(S, i) \in Nat
      BY <2>3, <2>4 DEF k
    <3>3. ~(i < j) /\ ~(j < i)
      BY <2>3, <3>1, <3>2
    <3> QED BY <2>4, <3>3
  <2> QED BY <2>2, <2>5
<1> QED BY <1>1, <1>2

\* It is a sequence of what stands at its positions.
LEMMA SubsequenceElements ==
  ASSUME NEW n \in Nat, NEW S \in SUBSET (1..n), NEW s
  PROVE  /\ ToSet(Subsequence(s, S)) = {s[i] : i \in S}
         /\ \A T : (\A i \in S : s[i] \in T) => Subsequence(s, S) \in Seq(T)
<1> DEFINE q == Subsequence(s, S)
<1>1. DOMAIN q = 1..Cardinality(S) /\ Cardinality(S) \in Nat
  BY ElementAtRank, RanksFit
<1>2. ASSUME NEW k \in DOMAIN q PROVE \E i \in S : q[k] = s[i] /\ Rank(S, i) = k
  <2>1. PICK i \in S : Rank(S, i) = k
    BY <1>1, RanksFit
  <2>2. q[Rank(S, i)] = s[i]
    BY ElementAtRank
  <2> QED BY <2>1, <2>2
<1>3. \A i \in S : Rank(S, i) \in DOMAIN q /\ q[Rank(S, i)] = s[i]
  BY <1>1, ElementAtRank, RanksFit
<1>4. q = [k \in 1..Cardinality(S) |-> q[k]]
  BY DEF Subsequence
<1> HIDE DEF q
<1>5. ToSet(q) = {s[i] : i \in S}
  BY <1>2, <1>3 DEF ToSet
<1>6. ASSUME NEW T, \A i \in S : s[i] \in T PROVE q \in Seq(T)
  <2>1. \A k \in 1..Cardinality(S) : q[k] \in T
    BY <1>1, <1>2, <1>6
  <2> QED BY <1>1, <1>4, <2>1
<1> QED BY <1>5, <1>6 DEF q

\* Positions of some sequence.
Positions(S) == \E n \in Nat : S \in SUBSET (1..n)

\* h keeps the order of the positions in S, and what stands there.
OrderKept(h, S) == \A i, j \in S : i < j => h[i] < h[j]
SameAt(s, t, h, S) == \A i \in S : s[i] = t[h[i]]

\* Subsequences of which the positions correspond in their order, and hold the
\* same, are the same.
LEMMA SameSubsequence ==
  ASSUME NEW S, NEW T, Positions(S), Positions(T), NEW s, NEW t, NEW h,
         h \in Bijection(S, T), OrderKept(h, S), SameAt(s, t, h, S)
  PROVE  Subsequence(s, S) = Subsequence(t, T)
<1> USE DEF OrderKept, SameAt
<1>0. PICK n \in Nat, m \in Nat : S \in SUBSET (1..n) /\ T \in SUBSET (1..m)
  BY DEF Positions
<1>1. /\ h \in [S -> T] /\ \A y \in T : \E x \in S : h[x] = y
      /\ \A i, j \in S : h[i] = h[j] => i = j
  BY DEF Bijection, Injection, IsInjective, Surjection
<1>2. Cardinality(S) = Cardinality(T) /\ Cardinality(S) \in Nat
  BY <1>0, RanksFit, FS_Bijection DEF ExistsBijection
<1>3. ASSUME NEW i \in S PROVE Rank(T, h[i]) = Rank(S, i)
  <2> DEFINE A == {x \in S : x <= i}
             B == {y \in T : y <= h[i]}
             g == [x \in A |-> h[x]]
  <2>1. \A x \in S : x <= i <=> h[x] <= h[i]
    <3>1. SUFFICES ASSUME NEW x \in S PROVE x <= i <=> h[x] <= h[i]
      OBVIOUS
    <3>2. ASSUME NEW z \in S PROVE z \in Int /\ h[z] \in Int
      <4>1. PICK y \in T : h[z] = y
        BY <1>1
      <4> QED BY <1>0, <4>1
    <3>3. (x < i => h[x] < h[i]) /\ (i < x => h[i] < h[x])
      OBVIOUS
    <3>4. x \in Int /\ i \in Int /\ h[x] \in Int /\ h[i] \in Int
      BY <3>2
    <3> QED BY <3>3, <3>4
  <2>2. g \in [A -> B]
    BY <1>1, <2>1
  <2>3. \A y \in B : \E x \in A : g[x] = y
    BY <1>1, <2>1
  <2>4. \A x, y \in A : g[x] = g[y] => x = y
    BY <1>1
  <2>5. IsFiniteSet(A)
    BY <1>0, RanksFit, FS_Subset
  <2> HIDE DEF A, B, g
  <2>6. g \in Bijection(A, B)
    BY <2>2, <2>3, <2>4 DEF Bijection, Injection, IsInjective, Surjection
  <2>7. Cardinality(B) = Cardinality(A)
    BY <2>5, <2>6, FS_Bijection DEF ExistsBijection
  <2> QED BY <2>7 DEF A, B, Rank
<1>4. ASSUME NEW k \in 1..Cardinality(S)
      PROVE  Subsequence(s, S)[k] = Subsequence(t, T)[k]
  <2>1. PICK i \in S : Rank(S, i) = k
    BY <1>0, RanksFit
  <2>2. Subsequence(s, S)[Rank(S, i)] = s[i]
    BY ONLY n \in Nat, <1>0, <2>1, ElementAtRank
  <2>3. h[i] \in T /\ Rank(T, h[i]) = k
    BY <1>1, <1>3, <2>1
  <2>4. Subsequence(t, T)[Rank(T, h[i])] = t[h[i]]
    BY ONLY m \in Nat, <1>0, <2>3, ElementAtRank
  <2> QED BY <2>1, <2>2, <2>3, <2>4
<1> QED BY <1>2, <1>4 DEF Subsequence

-----------------------------------------------------------------------------
(* The collector.                                                          *)

PathsOf(c, f) == {i \in DOMAIN c : c[i].path = f}
Kept(c, f, indices) ==
  {i \in DOMAIN c : ~(c[i].path = f /\ PathIndex(c, i) \in indices)}

\* No comment on a path of D is in c twice.
DistinctOn(c, D) ==
  \A i, j \in DOMAIN c : c[i] = c[j] /\ c[i].path \in D => i = j

\* CommentsForPath answers the comments of the path and no others.
LEMMA CommentsOfPath ==
  ASSUME NEW c \in Seq(Finding), NEW f \in Files
  PROVE  /\ CommentsForPath(c, f) \in Seq([path : {f}, id : Nat])
         /\ CommentsForPath(c, f) \in Seq(Finding)
         /\ ToSet(CommentsForPath(c, f)) = {x \in ToSet(c) : x.path = f}
<1>1. PathsOf(c, f) \in SUBSET (1..Len(c)) /\ Len(c) \in Nat
  BY DEF PathsOf
<1>2. CommentsForPath(c, f) = Subsequence(c, PathsOf(c, f))
  BY DEF CommentsForPath, PathsOf
<1>3. ASSUME NEW i \in PathsOf(c, f)
      PROVE  c[i] \in Finding /\ c[i] \in [path : {f}, id : Nat]
  <2>1. c[i] \in Finding /\ c[i].path = f
    BY DEF PathsOf
  <2> QED BY <2>1 DEF Finding
<1>4. ToSet(CommentsForPath(c, f)) = {c[i] : i \in PathsOf(c, f)}
  BY <1>1, <1>2, SubsequenceElements
<1>5. {c[i] : i \in PathsOf(c, f)} = {x \in ToSet(c) : x.path = f}
  BY DEF PathsOf, ToSet
<1>6. ASSUME NEW T, \A i \in PathsOf(c, f) : c[i] \in T
      PROVE  CommentsForPath(c, f) \in Seq(T)
  BY <1>1, <1>2, <1>6, SubsequenceElements
<1>7. CommentsForPath(c, f) \in Seq(Finding) /\ CommentsForPath(c, f) \in Seq([path : {f}, id : Nat])
  BY <1>3, <1>6
<1> QED BY <1>4, <1>5, <1>7

\* A comment on one path changes nothing for another.
LEMMA AddedForOthers ==
  ASSUME NEW c \in Seq(Finding), NEW x \in Finding, NEW f \in Files, x.path # f
  PROVE  CommentsForPath(Append(c, x), f) = CommentsForPath(c, f)
<1> DEFINE d == Append(c, x)
           S == PathsOf(c, f)
           h == [i \in S |-> i]
<1>1. /\ Len(c) \in Nat /\ Len(d) = Len(c) + 1 /\ DOMAIN d = 1..(Len(c) + 1)
      /\ d[Len(c) + 1] = x /\ \A i \in 1..Len(c) : d[i] = c[i]
  OBVIOUS
<1> HIDE DEF d
<1>2. PathsOf(d, f) = S /\ S \in SUBSET (1..Len(c)) /\ \A i \in S : d[i] = c[i]
  BY <1>1 DEF PathsOf
<1> HIDE DEF S
<1>3. h \in Bijection(S, S)
  BY DEF Bijection, Injection, IsInjective, Surjection
<1>4. OrderKept(h, S) /\ SameAt(d, c, h, S)
  BY <1>2 DEF OrderKept, SameAt
<1> HIDE DEF h
<1>5. Subsequence(d, S) = Subsequence(c, S)
  BY <1>1, <1>2, <1>3, <1>4, SameSubsequence DEF Positions
<1> QED BY <1>2, <1>5 DEF CommentsForPath, PathsOf, d, S

\* Nor does the removal of comments on one path.
LEMMA RemovedForOthers ==
  ASSUME NEW c \in Seq(Finding), NEW f \in Files, NEW g \in Files, f # g, NEW indices
  PROVE  CommentsForPath(RemoveByPathAndIndices(c, g, indices), f) = CommentsForPath(c, f)
<1> DEFINE n == Len(c)
           K == Kept(c, g, indices)
           q == Subsequence(c, K)
           S == PathsOf(c, f)
           T == PathsOf(q, f)
           h == [i \in S |-> Rank(K, i)]
<1>1. n \in Nat /\ K \in SUBSET (1..n) /\ S \in SUBSET (1..n) /\ S \subseteq K
  BY DEF Kept, PathsOf
<1>2. RemoveByPathAndIndices(c, g, indices) = q
  BY DEF RemoveByPathAndIndices, Kept
<1>3. \A i \in S : c[i].path = f
  BY DEF PathsOf
<1>4. \A i \in K : c[i].path = f => i \in S
  BY DEF Kept, PathsOf
<1>5. Subsequence(c, S) = CommentsForPath(c, f) /\ Subsequence(q, T) = CommentsForPath(q, f)
  BY DEF CommentsForPath, PathsOf
<1> HIDE DEF n, K, S
<1>6. /\ DOMAIN q = 1..Cardinality(K) /\ Cardinality(K) \in Nat
      /\ \A i \in K : Rank(K, i) \in 1..Cardinality(K) /\ q[Rank(K, i)] = c[i]
      /\ \A i, j \in K : i < j => Rank(K, i) < Rank(K, j)
      /\ \A k \in 1..Cardinality(K) : \E i \in K : Rank(K, i) = k
  BY <1>1, RanksFit, ElementAtRank
<1> HIDE DEF q
<1>7. T \in SUBSET (1..Cardinality(K)) /\ \A k \in T : q[k].path = f
  BY <1>6 DEF PathsOf
<1>8. \A i \in S : Rank(K, i) \in T /\ q[Rank(K, i)] = c[i]
  BY <1>1, <1>3, <1>6 DEF PathsOf
<1>9. ASSUME NEW k \in T PROVE \E i \in S : Rank(K, i) = k
  <2>1. PICK i \in K : Rank(K, i) = k
    BY <1>6, <1>7
  <2>2. q[k] = c[i] /\ q[k].path = f
    BY <1>6, <1>7, <2>1
  <2> QED BY <1>4, <2>1, <2>2
<1> HIDE DEF T
<1>10. OrderKept(h, S)
  BY <1>1, <1>6 DEF OrderKept
<1>11. \A i, j \in S : h[i] = h[j] => i = j
  <2>1. SUFFICES ASSUME NEW i \in S, NEW j \in S, h[i] = h[j], i # j PROVE FALSE
    OBVIOUS
  <2>2. i \in Int /\ j \in Int
    BY <1>1
  <2>3. Rank(K, i) \in Int /\ Rank(K, j) \in Int /\ Rank(K, i) = Rank(K, j)
    BY <1>1, <1>6, <2>1
  <2>4. ~(i < j) /\ ~(j < i)
    BY <1>1, <1>6, <2>3
  <2> QED BY <2>1, <2>2, <2>4
<1>12. h \in [S -> T] /\ \A k \in T : \E i \in S : h[i] = k
  BY <1>8, <1>9
<1>13. SameAt(c, q, h, S)
  BY <1>8 DEF SameAt
<1> HIDE DEF h
<1>14. h \in Bijection(S, T)
  BY <1>11, <1>12 DEF Bijection, Injection, IsInjective, Surjection
<1>15. Subsequence(c, S) = Subsequence(q, T)
  <2>1. Positions(S) /\ Positions(T)
    BY <1>1, <1>6, <1>7 DEF Positions
  <2> QED BY <2>1, <1>10, <1>13, <1>14, SameSubsequence
<1> QED BY <1>2, <1>5, <1>15 DEF S, T

\* The index of a comment among those of its path is the rank of its position.
LEMMA IndexIsRank ==
  ASSUME NEW c \in Seq(Finding), NEW i \in DOMAIN c
  PROVE  PathIndex(c, i) = Rank(PathsOf(c, c[i].path), i)
<1>1. {j \in 1..i : c[j].path = c[i].path} = {j \in PathsOf(c, c[i].path) : j <= i}
  BY DEF PathsOf
<1> QED BY <1>1 DEF PathIndex, Rank

\* Where no comment on the path is twice, what is removed is what the indices
\* name among the comments that CommentsForPath showed.
LEMMA RemovedIsNamed ==
  ASSUME NEW c \in Seq(Finding), NEW f \in Files,
         NEW indices \in SUBSET DOMAIN CommentsForPath(c, f),
         DistinctOn(c, {f})
  PROVE  ToSet(RemoveByPathAndIndices(c, f, indices))
           = ToSet(c) \ {CommentsForPath(c, f)[k] : k \in indices}
<1> DEFINE n == Len(c)
           S == PathsOf(c, f)
           K == Kept(c, f, indices)
           shown == CommentsForPath(c, f)
<1>1. n \in Nat /\ S \in SUBSET (1..n) /\ K \in SUBSET (1..n)
  BY DEF PathsOf, Kept
<1>2. ToSet(RemoveByPathAndIndices(c, f, indices)) = {c[i] : i \in K}
  <2>1. RemoveByPathAndIndices(c, f, indices) = Subsequence(c, K)
    BY DEF RemoveByPathAndIndices, Kept
  <2> HIDE DEF n, K
  <2> QED BY <1>1, <2>1, SubsequenceElements
<1>3. shown = Subsequence(c, S)
  BY DEF CommentsForPath, PathsOf
<1>4. /\ DOMAIN shown = 1..Cardinality(S)
      /\ \A i \in S : shown[Rank(S, i)] = c[i]
      /\ \A k \in 1..Cardinality(S) : \E i \in S : Rank(S, i) = k
  <2> HIDE DEF n, S, shown
  <2>1. /\ DOMAIN shown = 1..Cardinality(S)
        /\ \A i \in S : shown[Rank(S, i)] = c[i]
    BY <1>1, <1>3, ElementAtRank
  <2> QED BY <1>1, <2>1, RanksFit
<1>5. \A i \in S : PathIndex(c, i) = Rank(S, i)
  BY <1>1, IndexIsRank DEF PathsOf
<1>6. \A i \in DOMAIN c : i \in K <=> ~(i \in S /\ Rank(S, i) \in indices)
  BY <1>5 DEF Kept, PathsOf
<1>7. \A i, j \in DOMAIN c : j \in S /\ c[i] = c[j] => i = j
  BY DEF DistinctOn, PathsOf
<1>8. S \subseteq DOMAIN c /\ K \subseteq DOMAIN c
  BY DEF PathsOf, Kept
<1> HIDE DEF S, K, shown
<1>9. ASSUME NEW i \in K PROVE c[i] \notin {shown[k] : k \in indices}
  <2>1. SUFFICES ASSUME NEW k \in indices, c[i] = shown[k] PROVE FALSE
    OBVIOUS
  <2>2. PICK j \in S : Rank(S, j) = k
    BY <1>4 DEF shown
  <2>3. c[i] = c[j]
    BY <1>4, <2>1, <2>2
  <2>4. i = j
    BY <1>7, <1>8, <2>3
  <2> QED BY <1>6, <1>8, <2>2, <2>4
<1>10. ASSUME NEW i \in DOMAIN c, i \notin K PROVE c[i] \in {shown[k] : k \in indices}
  BY <1>4, <1>6, <1>10
<1>11. {c[i] : i \in K} = {c[i] : i \in DOMAIN c} \ {shown[k] : k \in indices}
  BY <1>8, <1>9, <1>10
<1> QED BY <1>2, <1>11 DEF ToSet, shown

\* Removing leaves a sequence of findings, in which nothing is more often.
LEMMA RemovedStaysDistinct ==
  ASSUME NEW c \in Seq(Finding), NEW f \in Files, NEW indices, NEW D, DistinctOn(c, D)
  PROVE  /\ RemoveByPathAndIndices(c, f, indices) \in Seq(Finding)
         /\ DistinctOn(RemoveByPathAndIndices(c, f, indices), D)
<1> DEFINE K == Kept(c, f, indices)
           q == Subsequence(c, K)
<1>1. Len(c) \in Nat /\ K \in SUBSET (1..Len(c)) /\ \A i \in K : c[i] \in Finding
  BY DEF Kept
<1>2. RemoveByPathAndIndices(c, f, indices) = q
  BY DEF RemoveByPathAndIndices, Kept
<1> HIDE DEF K
<1>3. q \in Seq(Finding)
  BY <1>1, SubsequenceElements
<1>4. /\ DOMAIN q = 1..Cardinality(K)
      /\ \A i \in K : q[Rank(K, i)] = c[i]
      /\ \A k \in 1..Cardinality(K) : \E i \in K : Rank(K, i) = k
  BY <1>1, RanksFit, ElementAtRank
<1> HIDE DEF q
<1>5. ASSUME NEW k \in DOMAIN q, NEW l \in DOMAIN q, q[k] = q[l], q[k].path \in D
      PROVE  k = l
  <2>1. PICK i \in K : Rank(K, i) = k
    BY <1>4
  <2>2. PICK j \in K : Rank(K, j) = l
    BY <1>4
  <2>3. c[i] = c[j] /\ c[i].path \in D /\ i \in DOMAIN c /\ j \in DOMAIN c
    BY <1>1, <1>4, <1>5, <2>1, <2>2
  <2> QED BY <2>1, <2>2, <2>3 DEF DistinctOn
<1> QED BY <1>2, <1>3, <1>5 DEF DistinctOn

-----------------------------------------------------------------------------
(* The checkpoints a session's file holds.                                 *)

\* What the k-th line makes of the checkpoint before it.
Reads(lines, f, k, before) ==
  IF lines[k].path # f THEN before ELSE Applied(before, lines[k])

\* g has the checkpoint of f after each of the first n lines.
Unfolds(g, lines, f, n) ==
  /\ g = [k \in 0..n |-> g[k]]
  /\ g[0] = NoItem
  /\ \A k \in 1..n : g[k] = Reads(lines, f, k, g[k - 1])

\* There is only one.
LEMMA UnfoldsOnce ==
  ASSUME NEW lines, NEW f, NEW n \in Nat, NEW g, NEW h,
         Unfolds(g, lines, f, n), Unfolds(h, lines, f, n)
  PROVE  g = h
<1> DEFINE Differ == {k \in 0..n : g[k] # h[k]}
<1>1. CASE Differ = {}
  BY <1>1 DEF Unfolds
<1>2. CASE Differ # {}
  <2>1. Differ \in SUBSET Nat
    OBVIOUS
  <2>2. PICK k \in Differ : \A j \in Differ : k <= j
    <3> HIDE DEF Differ
    <3> QED BY <1>2, <2>1, LeastNumber
  <2>3. k \in 1..n /\ k - 1 \in 0..n
    BY <2>2 DEF Unfolds
  <2>4. g[k - 1] = h[k - 1]
    <3>1. k - 1 \notin Differ
      BY <2>1, <2>2, <2>3
    <3> QED BY <2>3, <3>1
  <2>5. g[k] = h[k]
    BY <2>3, <2>4 DEF Unfolds
  <2> QED BY <2>2, <2>5
<1> QED BY <1>1, <1>2

\* The first n lines are the same.
Continues(more, lines, n) == \A k \in 1..n : more[k] = lines[k]

\* A further line is read after the others.
LEMMA UnfoldsNext ==
  ASSUME NEW lines, NEW more, NEW f, NEW n \in Nat, NEW g, Unfolds(g, lines, f, n),
         Continues(more, lines, n)
  PROVE  \E h : Unfolds(h, more, f, n + 1) /\ h[n + 1] = Reads(more, f, n + 1, g[n])
<1> DEFINE h == [k \in 0..(n + 1) |-> IF k <= n THEN g[k]
                                      ELSE Reads(more, f, n + 1, g[n])]
<1>1. h[n + 1] = Reads(more, f, n + 1, g[n]) /\ h[0] = NoItem
  BY DEF Unfolds
<1>2. ASSUME NEW k \in 1..(n + 1) PROVE h[k] = Reads(more, f, k, h[k - 1])
  <2>1. k - 1 \in 0..n /\ h[k - 1] = g[k - 1]
    OBVIOUS
  <2>2. CASE k = n + 1
    BY <1>1, <2>1, <2>2
  <2>3. CASE k # n + 1
    <3>1. k \in 1..n /\ h[k] = g[k]
      BY <2>3
    <3> HIDE DEF h
    <3>2. g[k] = Reads(lines, f, k, g[k - 1]) /\ more[k] = lines[k]
      BY <3>1 DEF Unfolds, Continues
    <3> QED BY <2>1, <3>1, <3>2 DEF Reads
  <2> QED BY <2>2, <2>3
<1>3. h = [k \in 0..(n + 1) |-> h[k]]
  OBVIOUS
<1> HIDE DEF h
<1>4. Unfolds(h, more, f, n + 1)
  BY <1>1, <1>2, <1>3 DEF Unfolds
<1> QED BY <1>1, <1>4

\* There is one for any number of lines.
LEMMA UnfoldsExists ==
  ASSUME NEW lines, NEW f, NEW n \in Nat
  PROVE  \E g : Unfolds(g, lines, f, n)
<1> DEFINE Lacks == {m \in Nat : ~ \E g : Unfolds(g, lines, f, m)}
<1>1. SUFFICES ASSUME Lacks # {} PROVE FALSE
  OBVIOUS
<1>2. PICK m \in Lacks : \A j \in Lacks : m <= j
  <2>1. Lacks \in SUBSET Nat
    OBVIOUS
  <2> HIDE DEF Lacks
  <2> QED BY <1>1, <2>1, LeastNumber
<1>3. CASE m = 0
  <2> DEFINE g == [k \in 0..0 |-> NoItem]
  <2>1. g[0] = NoItem /\ g = [k \in 0..0 |-> g[k]] /\ 1..0 = {}
    OBVIOUS
  <2> HIDE DEF g
  <2>2. Unfolds(g, lines, f, 0)
    BY <2>1 DEF Unfolds
  <2> QED BY <1>2, <1>3, <2>2
<1>4. CASE m # 0
  <2>1. m - 1 \in Nat /\ m - 1 \notin Lacks
    BY <1>2, <1>4
  <2>2. PICK g : Unfolds(g, lines, f, m - 1)
    BY <2>1
  <2>3. \E h : Unfolds(h, lines, f, (m - 1) + 1)
    BY <2>1, <2>2, UnfoldsNext DEF Continues
  <2>4. (m - 1) + 1 = m
    BY <2>1
  <2> QED BY <1>2, <2>3, <2>4
<1> QED BY <1>3, <1>4

\* Checkpoint is what is there after the last line.
LEMMA CheckpointUnfolds ==
  ASSUME NEW lines, NEW f, Len(lines) \in Nat, NEW g, Unfolds(g, lines, f, Len(lines))
  PROVE  Checkpoint(lines, f) = g[Len(lines)]
<1> DEFINE n == Len(lines)
           Body(h) == [k \in 0..n |->
                         IF k = 0 THEN NoItem
                         ELSE IF lines[k].path # f THEN h[k - 1]
                         ELSE Applied(h[k - 1], lines[k])]
           after == CHOOSE h : h = Body(h)
<1>1. Checkpoint(lines, f) = after[n]
  BY DEF Checkpoint
<1>2. ASSUME NEW h, h = Body(h) PROVE Unfolds(h, lines, f, n)
  <2>1. DOMAIN h = 0..n /\ \A k \in 0..n : h[k] = Body(h)[k]
    BY <1>2
  <2>2. h = [k \in 0..n |-> h[k]]
    BY <1>2
  <2> QED BY <2>1, <2>2 DEF Unfolds, Reads
<1>3. g = Body(g)
  <2>1. ASSUME NEW k \in 0..n PROVE g[k] = Body(g)[k]
    <3>1. Body(g)[k] = IF k = 0 THEN NoItem ELSE Reads(lines, f, k, g[k - 1])
      BY DEF Reads
    <3> HIDE DEF Body
    <3>2. k = 0 \/ k \in 1..n
      OBVIOUS
    <3> QED BY <3>1, <3>2 DEF Unfolds
  <2>2. g = [k \in 0..n |-> g[k]]
    BY DEF Unfolds
  <2>3. Body(g) = [k \in 0..n |-> Body(g)[k]]
    OBVIOUS
  <2> HIDE DEF Body
  <2> QED BY <2>1, <2>2, <2>3
<1>4. after = Body(after)
  <2> HIDE DEF Body
  <2> QED BY <1>3
<1> HIDE DEF after, Body
<1>5. Unfolds(after, lines, f, n)
  BY <1>2, <1>4
<1>6. after = g
  BY <1>5, UnfoldsOnce
<1> QED BY <1>1, <1>6

\* A session without lines has no checkpoint.
LEMMA CheckpointOfNone ==
  ASSUME NEW f PROVE Checkpoint(<<>>, f) = NoItem
<1>1. PICK g : Unfolds(g, <<>>, f, 0)
  BY UnfoldsExists
<1>2. Len(<<>>) = 0
  OBVIOUS
<1> QED BY <1>1, <1>2, CheckpointUnfolds DEF Unfolds

\* A line changes the checkpoint of its file only.
LEMMA CheckpointAfter ==
  ASSUME NEW lines \in Seq(Line), NEW line \in Line, NEW f
  PROVE  Checkpoint(Append(lines, line), f)
           = IF line.path # f THEN Checkpoint(lines, f)
             ELSE Applied(Checkpoint(lines, f), line)
<1> DEFINE n == Len(lines)
           more == Append(lines, line)
<1>1. /\ n \in Nat /\ Len(more) = n + 1 /\ more[n + 1] = line
      /\ \A k \in 1..n : more[k] = lines[k]
  OBVIOUS
<1>2. PICK g : Unfolds(g, lines, f, n)
  BY <1>1, UnfoldsExists
<1> HIDE DEF more
<1>3. PICK h : Unfolds(h, more, f, n + 1) /\ h[n + 1] = Reads(more, f, n + 1, g[n])
  <2>1. n \in Nat /\ Continues(more, lines, n)
    BY <1>1 DEF Continues
  <2> HIDE DEF n
  <2> QED BY <1>2, <2>1, UnfoldsNext
<1>4. Checkpoint(lines, f) = g[n]
  BY <1>1, <1>2, CheckpointUnfolds
<1>5. Checkpoint(more, f) = h[n + 1]
  <2>1. Unfolds(h, more, f, Len(more)) /\ Len(more) \in Nat
    BY <1>1, <1>3
  <2> QED BY <1>1, <2>1, CheckpointUnfolds
<1>6. Checkpoint(more, f) = Reads(more, f, n + 1, Checkpoint(lines, f))
  BY <1>3, <1>4, <1>5
<1> QED BY <1>1, <1>6 DEF Reads, more

-----------------------------------------------------------------------------
(* The types, and whose findings checkpoints hold.                         *)

\* What a checkpoint of f may be.
Items(f) == {NoItem} \union Seq([path : {f}, id : Nat])

ItemsFit ==
  \A f \in Files : /\ past[f] \in Items(f) /\ resume[f] \in Items(f)
                   /\ Checkpoint(own.lines, f) \in Items(f)

TypesFit == AgentTypeOK /\ ItemsFit

\* A checkpoint's comments are findings.
LEMMA ItemsAreFindings ==
  ASSUME NEW f \in Files, NEW s \in Items(f)
  PROVE  s \in {NoItem} \union Seq(Finding)
<1>1. CASE s = NoItem
  BY <1>1
<1>2. CASE s \in Seq([path : {f}, id : Nat])
  <2> DEFINE T == [path : {f}, id : Nat]
  <2>1. /\ Len(s) \in Nat /\ s = [i \in 1..Len(s) |-> s[i]]
        /\ \A i \in 1..Len(s) : s[i] \in T
    <3>1. s \in Seq(T)
      BY <1>2
    <3> HIDE DEF T
    <3> QED BY <3>1
  <2>2. \A i \in 1..Len(s) : s[i] \in Finding
    BY <2>1 DEF Finding
  <2> QED BY <2>1, <2>2
<1> QED BY <1>1, <1>2 DEF Items

\* What does not write a line leaves the lines and the tear alone.
LEMMA SessionSteps ==
  ASSUME own \in Session
  PROVE  /\ Buffered(own) \in Session /\ Flushed(own) \in Session
         /\ Opened(own) \in Session
         /\ Buffered(own).lines = own.lines /\ Buffered(own).torn = own.torn
         /\ Flushed(own).lines = own.lines /\ Flushed(own).torn = own.torn
         /\ Opened(own).lines = own.lines /\ Opened(own).torn = own.torn
         /\ \A s \in Killed(own) : s \in Session /\ s.lines = own.lines
BY DEF Buffered, Flushed, Opened, Killed, Session

\* In session s, f's checkpoint is item, and no other differs from own's.
Records(s, f, item) ==
  /\ s \in Session /\ s.torn = own.torn
  /\ Checkpoint(s.lines, f) = item
  /\ \A g \in Files : g # f => Checkpoint(s.lines, g) = Checkpoint(own.lines, g)

\* What a review_item line makes of its file's checkpoint.
AfterLine(type, item, comments) ==
  CASE type = "done" -> comments
    [] type = "failed" -> NoItem
    [] OTHER -> IF comments = <<>> /\ item # NoItem THEN item ELSE comments

\* Applied does that.
LEMMA AppliedLine ==
  ASSUME NEW f, NEW comments \in Seq(Finding), NEW item,
         NEW type \in {"done", "reused", "failed"}
  PROVE  Applied(item, [type |-> type, path |-> f, comments |-> comments])
           = AfterLine(type, item, comments)
BY DEF Applied, AfterLine

\* A review_item line is appended, and changes the checkpoint of its file.
LEMMA RecordedLine ==
  ASSUME own \in Session, NEW type \in {"done", "reused", "failed"}, NEW f \in Files,
         NEW comments \in Seq(Finding)
  PROVE  Records(Recorded(own, type, f, comments), f,
                 AfterLine(type, Checkpoint(own.lines, f), comments))
<1> DEFINE s == Recorded(own, type, f, comments)
           line == [type |-> type, path |-> f, comments |-> comments]
<1>1. line \in Line /\ line.path = f
  BY DEF Line
<1>2. own.lines \in Seq(Line)
  BY DEF Session
<1>3. s \in Session /\ s.torn = own.torn /\ s.lines = Append(own.lines, line)
  <2>1. /\ Flushed(own) \in Session /\ Flushed(own).lines = own.lines
        /\ Flushed(own).torn = own.torn /\ s = [Flushed(own) EXCEPT !.lines = Append(@, line)]
    BY SessionSteps DEF Recorded
  <2> HIDE DEF s, line
  <2>2. Append(own.lines, line) \in Seq(Line)
    BY <1>1, <1>2
  <2>3. s.lines = Append(own.lines, line) /\ s.torn = own.torn
    BY <2>1 DEF Session
  <2> QED BY <2>1, <2>2, <2>3 DEF Session
<1>4. Applied(Checkpoint(own.lines, f), line)
        = AfterLine(type, Checkpoint(own.lines, f), comments)
  BY AppliedLine
<1> HIDE DEF line, s
<1>5. \A g : Checkpoint(s.lines, g) = IF f # g THEN Checkpoint(own.lines, g)
                                      ELSE Applied(Checkpoint(own.lines, g), line)
  BY <1>1, <1>2, <1>3, CheckpointAfter
<1>6. Records(s, f, AfterLine(type, Checkpoint(own.lines, f), comments))
  BY <1>3, <1>4, <1>5 DEF Records
<1> QED BY <1>6 DEF s

\* It holds at the start.
LEMMA TypesInit == SessionAssumption /\ AgentAssumption /\ Init => TypesFit
<1> SUFFICES ASSUME SessionAssumption, AgentAssumption, Init PROVE TypesFit
  OBVIOUS
<1>1. own \in Session /\ own.lines = <<>>
  BY DEF Init, NewSession, Session
<1>2. past \in [Files -> {NoItem} \union Seq(Finding)]
  BY DEF Init, AgentAssumption
<1>3. \A f \in Files : past[f] \in Items(f)
  BY DEF Init, AgentAssumption, Items
<1>4. \A f \in Files : Checkpoint(own.lines, f) = NoItem
  BY <1>1, CheckpointOfNone
<1>5. AgentTypeOK
  <2>1. collector = <<>> /\ seen = [f \in Files |-> <<>>] /\ <<>> \in Seq(Finding)
    BY DEF Init
  <2>2. collector \in Seq(Finding) /\ seen \in [Files -> Seq(Finding)]
    BY <2>1
  <2>3. /\ resume \in [Files -> {NoItem} \union Seq(Finding)]
        /\ pc \in [Files -> Places]
        /\ outcome \in [Files -> {"selected", "failed"} \union Covered]
    BY DEF Init, NoCheckpoints, Places, Covered
  <2>4. /\ finished = {} /\ hard = {} /\ said = {} /\ units = {} /\ dropped = {}
        /\ made = 0 /\ attempt = 0 /\ phase \in Phases /\ concurrency \in Concurrencies
        /\ ctx \in {"live", "done"} /\ appending \in BOOLEAN /\ failed \in BOOLEAN
    BY DEF Init, Phases
  <2> QED BY <1>1, <1>2, <2>2, <2>3, <2>4 DEF AgentTypeOK, AgentAssumption
<1> QED BY <1>3, <1>4, <1>5 DEF TypesFit, ItemsFit, Items, Init, NoCheckpoints

\* No line is written.
LinesKept == own' \in Session /\ own'.lines = own.lines

\* What a file's step says in the session's file.
LEMMA FileRecords ==
  ASSUME SessionAssumption, TypesFit, NEW f \in Files, FileStep(f)
  PROVE  /\ UNCHANGED <<resume, phase, past, concurrency, attempt, ctx, appending, failed>>
         /\ \/ LinesKept /\ own'.torn = own.torn /\ UNCHANGED outcome /\ finished \subseteq finished'
            \/ /\ outcome' = [outcome EXCEPT ![f] = "failed"] /\ UNCHANGED finished
               /\ pc[f] \in {"review", "filter", "verdict"} /\ Records(own', f, NoItem)
            \/ /\ outcome' = [outcome EXCEPT ![f] = "completed"] /\ UNCHANGED finished
               /\ pc[f] = "verdict" /\ f \in finished
               /\ Records(own', f, CommentsForPath(collector, f))
            \/ /\ Reuse(f) /\ UNCHANGED finished
               /\ \E item \in Items(f) \ {NoItem} : Records(own', f, item)
<1> USE DEF TypesFit, AgentTypeOK
<1>1. CASE Reuse(f)
  <2> DEFINE comments == ReusedComments(appending, resume[f])
  <2>1. /\ UNCHANGED <<resume, phase, past, concurrency, attempt, ctx, appending, failed, finished>>
        /\ own' = Recorded(own, "reused", f, comments)
    BY <1>1 DEF Reuse, jobVars
  <2>2. resume[f] \in Items(f) /\ resume[f] # NoItem /\ <<>> \in Items(f)
    BY <1>1 DEF Reuse, ItemsFit, Items
  <2>3. comments \in Items(f) /\ comments \in Seq(Finding)
    <3>1. resume[f] \in Seq(Finding) /\ <<>> \in Seq(Finding)
      BY <2>2, ItemsAreFindings
    <3> QED BY <2>2, <3>1 DEF ReusedComments
  <2> HIDE DEF comments
  <2>4. Records(own', f, AfterLine("reused", Checkpoint(own.lines, f), comments))
    BY <2>1, <2>3, RecordedLine
  <2>5. AfterLine("reused", Checkpoint(own.lines, f), comments) \in Items(f) \ {NoItem}
    BY <2>3, SessionAssumption DEF ItemsFit, AfterLine
  <2> QED BY <1>1, <2>1, <2>4, <2>5
<1>2. CASE PromptTooLarge(f) \/ ReviewFails(f) \/ ReviewPanics(f) \/ (Verdict(f) /\ f \notin finished)
  <2>1. FailItem(f, TRUE) \/ FailItem(f, FALSE)
    BY <1>2 DEF PromptTooLarge, ReviewFails, ReviewPanics, Verdict, StopShort
  <2>2. /\ UNCHANGED <<resume, phase, past, concurrency, attempt, ctx, appending, failed, finished>>
        /\ own' = Recorded(own, "failed", f, <<>>)
        /\ outcome' = [outcome EXCEPT ![f] = "failed"]
    BY <2>1 DEF FailItem, jobVars
  <2>3. pc[f] \in {"review", "filter", "verdict"}
    BY <1>2 DEF PromptTooLarge, ReviewFails, ReviewPanics, Verdict
  <2>4. Records(own', f, NoItem)
    <3>1. <<>> \in Seq(Finding)
      OBVIOUS
    <3>2. Records(own', f, AfterLine("failed", Checkpoint(own.lines, f), <<>>))
      BY <2>2, <3>1, RecordedLine
    <3> QED BY <3>2 DEF AfterLine
  <2> QED BY <2>2, <2>3, <2>4
<1>3. CASE Verdict(f) /\ f \in finished
  <2>1. /\ UNCHANGED <<resume, phase, past, concurrency, attempt, ctx, appending, failed, finished>>
        /\ own' = Recorded(own, "done", f, CommentsForPath(collector, f))
        /\ outcome' = [outcome EXCEPT ![f] = "completed"]
    BY <1>3 DEF Verdict, Complete, jobVars
  <2>2. pc[f] = "verdict"
    BY <1>3 DEF Verdict
  <2>3. CommentsForPath(collector, f) \in Seq(Finding)
    BY CommentsOfPath
  <2>4. Records(own', f, CommentsForPath(collector, f))
    <3>1. Records(own', f, AfterLine("done", Checkpoint(own.lines, f), CommentsForPath(collector, f)))
      BY <2>1, <2>3, RecordedLine
    <3> QED BY <3>1 DEF AfterLine
  <2> QED BY <1>3, <2>1, <2>2, <2>4
<1>4. CASE StartFile(f) \/ Submit(f) \/ MainLoopEnds(f) \/ AwaitKey(f) \/ FilterAnswers(f)
  <2>1. own' = own \/ own' = Buffered(own)
    BY <1>4 DEF StartFile, Submit, MainLoopEnds, AwaitKey, AfterDrain, FilterAnswers
  <2>2. LinesKept /\ own'.torn = own.torn
    BY <2>1, SessionSteps DEF LinesKept
  <2>3. /\ UNCHANGED <<resume, phase, past, concurrency, attempt, ctx, appending, failed, outcome>>
        /\ finished \subseteq finished'
    BY <1>4 DEF StartFile, Submit, MainLoopEnds, AwaitKey, AfterDrain, FilterAnswers, jobVars
  <2> QED BY <2>2, <2>3
<1> QED BY <1>1, <1>2, <1>3, <1>4 DEF FileStep, Verdict

\* What is not a file's step writes no line; only a kill tears the file.
LEMMA OtherRecords ==
  ASSUME TypesFit, [Next]_vars, ~ \E f \in Files : FileStep(f)
  PROVE  LinesKept /\ (Kill \/ own'.torn = own.torn)
<1>1. CASE own' \in {own, Buffered(own), Flushed(own), Opened(own)}
  BY <1>1, SessionSteps DEF LinesKept, TypesFit, AgentTypeOK
<1>2. CASE Kill
  BY <1>2, SessionSteps DEF Kill, LinesKept, TypesFit, AgentTypeOK
<1>3. CASE UNCHANGED vars \/ Select \/ Dispatch \/ Collect \/ CtxEnds
  BY <1>1, <1>3 DEF vars, Select, Dispatch, Collect, CtxEnds
<1>4. CASE OpenSession \/ LoadFails \/ FinalizeManifest \/ Analyse
  BY <1>1, <1>4 DEF OpenSession, LoadFails, FinalizeManifest, Analyse
<1>5. ASSUME NEW u \in units, UnitStep(u) PROVE LinesKept /\ (Kill \/ own'.torn = own.torn)
  BY <1>1, <1>5 DEF UnitStep, UnitStarts, UnitAdds, UnitPanics
<1> QED BY <1>2, <1>3, <1>4, <1>5 DEF Next, RunStep

\* Checkpoints stay findings of their file.
LEMMA ItemsStep ==
  ASSUME SessionAssumption, TypesFit, [Next]_vars
  PROVE  ItemsFit' /\ own' \in Session
<1>1. /\ own' \in Session
      /\ \A g \in Files : Checkpoint(own'.lines, g) \in Items(g)
  <2>1. CASE LinesKept
    BY <2>1 DEF LinesKept, TypesFit, ItemsFit
  <2>2. CASE \E f \in Files : FileStep(f)
    <3>1. PICK f \in Files : FileStep(f)
      BY <2>2
    <3>2. LinesKept \/ \E item \in Items(f) : Records(own', f, item)
      <4>1. CommentsForPath(collector, f) \in Items(f) /\ NoItem \in Items(f)
        BY CommentsOfPath DEF TypesFit, AgentTypeOK, Items
      <4> QED BY <3>1, <4>1, FileRecords
    <3> QED BY <2>1, <3>2 DEF Records, TypesFit, ItemsFit
  <2> QED BY <2>1, <2>2, OtherRecords
<1>2. UNCHANGED past /\ \/ UNCHANGED resume
                        \/ resume' = NoCheckpoints
                        \/ resume' = MergeResumeStates(LoadResumeState(own), past)
  <2>1. CASE UNCHANGED vars
    BY <2>1 DEF vars, runVars, jobVars
  <2>2. CASE OpenSession \/ Kill
    BY <2>2 DEF OpenSession, Kill, jobVars
  <2>3. CASE LoadFails \/ Select \/ Dispatch \/ Collect \/ Analyse \/ FinalizeManifest \/ CtxEnds
    BY <2>3 DEF LoadFails, Select, Dispatch, Collect, Analyse, FinalizeManifest, CtxEnds,
       jobVars, runVars
  <2>4. ASSUME NEW f \in Files, FileStep(f) PROVE UNCHANGED <<past, resume>>
    BY <2>4, FileRecords
  <2>5. ASSUME NEW u \in units, UnitStep(u) PROVE UNCHANGED <<past, resume>>
    BY <2>5 DEF UnitStep, UnitStarts, UnitAdds, UnitPanics, jobVars
  <2> QED BY <2>1, <2>2, <2>3, <2>4, <2>5 DEF Next, RunStep
<1>3. \A g \in Files : past'[g] \in Items(g) /\ resume'[g] \in Items(g)
  BY <1>2 DEF TypesFit, ItemsFit, Items, MergeResumeStates, LoadResumeState, NoCheckpoints
<1> QED BY <1>1, <1>3 DEF ItemsFit

\* The checkpoints that an attempt merges are comments or none.
LEMMA MergedIsTyped ==
  ASSUME TypesFit
  PROVE  MergeResumeStates(LoadResumeState(own), past) \in [Files -> {NoItem} \union Seq(Finding)]
<1> DEFINE T == {NoItem} \union Seq(Finding)
<1>1. \A f \in Files : Checkpoint(own.lines, f) \in T /\ past[f] \in T /\ NoItem \in T
  BY ItemsAreFindings DEF TypesFit, ItemsFit
<1> HIDE DEF T
<1>2. LoadResumeState(own) \in [Files -> T]
  BY <1>1 DEF LoadResumeState, NoCheckpoints
<1> QED BY <1>1, <1>2 DEF MergeResumeStates, T

\* A file's step keeps the types.
LEMMA FileStepTypes ==
  ASSUME SessionAssumption, AgentAssumption, TypesFit, NEW f \in Files, FileStep(f),
         own' \in Session
  PROVE  AgentTypeOK'
<1> USE DEF TypesFit, AgentTypeOK
<1>1. CASE Reuse(f)
  <2>1. resume[f] \in Seq(Finding)
    BY <1>1 DEF Reuse
  <2>2. collector' \in Seq(Finding) /\ outcome' \in [Files -> {"selected", "failed"} \union Covered]
    BY <1>1, <2>1 DEF Reuse, Covered
  <2> QED BY <1>1, <2>2 DEF Reuse, jobVars
<1>2. CASE StartFile(f)
  BY <1>2 DEF StartFile, jobVars, Places
<1>3. CASE PromptTooLarge(f) \/ ReviewFails(f) \/ ReviewPanics(f) \/ (Verdict(f) /\ f \notin finished)
  <2>1. FailItem(f, TRUE) \/ FailItem(f, FALSE)
    BY <1>3 DEF PromptTooLarge, ReviewFails, ReviewPanics, Verdict, StopShort
  <2>2. /\ pc' \in [Files -> Places] /\ hard' \subseteq Files
        /\ outcome' \in [Files -> {"selected", "failed"} \union Covered]
    BY <2>1 DEF FailItem, Places
  <2> QED BY <2>1, <2>2 DEF FailItem, jobVars
<1>4. CASE Verdict(f) /\ f \in finished
  <2>1. pc' \in [Files -> Places] /\ outcome' \in [Files -> {"selected", "failed"} \union Covered]
    BY <1>4 DEF Verdict, Complete, Places, Covered
  <2> QED BY <1>4, <2>1 DEF Verdict, Complete, jobVars
<1>5. CASE Submit(f)
  <2>1. made' \in 0..MaxFindings
    BY <1>5 DEF Submit, AgentAssumption
  <2> DEFINE finding == [path |-> f, id |-> made']
  <2>2. finding \in Finding
    BY <2>1 DEF Finding
  <2>3. said' = said \union {finding} /\ units' = units \union {[finding |-> finding, at |-> "queued"]}
    BY <1>5 DEF Submit
  <2> HIDE DEF finding
  <2>4. said' \subseteq Finding /\ units' \subseteq [finding : Finding, at : {"queued", "running"}]
    BY <2>2, <2>3
  <2> QED BY <1>5, <2>1, <2>4 DEF Submit
<1>6. CASE MainLoopEnds(f)
  <2>1. pc' \in [Files -> Places] /\ finished' \subseteq Files
    BY <1>6 DEF MainLoopEnds, Places
  <2> QED BY <1>6, <2>1 DEF MainLoopEnds, jobVars
<1>7. CASE AwaitKey(f)
  <2>1. CommentsForPath(collector, f) \in Seq(Finding) /\ <<>> \in Seq(Finding)
    <3>1. collector \in Seq(Finding) /\ <<>> \in Seq(Finding)
      OBVIOUS
    <3> QED BY ONLY <3>1, f \in Files, CommentsOfPath
  <2>2. pc' \in [Files -> Places] /\ seen' \in [Files -> Seq(Finding)]
    BY <1>7, <2>1 DEF AwaitKey, AfterDrain, Places
  <2> QED BY <1>7, <2>2 DEF AwaitKey, AfterDrain, jobVars
<1>8. CASE FilterAnswers(f)
  <2>1. PICK indices \in SUBSET DOMAIN seen[f] :
          /\ collector' = RemoveByPathAndIndices(collector, f, indices)
          /\ dropped' = dropped \union {seen[f][i] : i \in indices}
    BY <1>8 DEF FilterAnswers
  <2>2. collector' \in Seq(Finding)
    <3>1. DistinctOn(collector, {})
      BY DEF DistinctOn
    <3> QED BY <2>1, <3>1, RemovedStaysDistinct
  <2>3. dropped' \subseteq Finding
    <3>1. seen[f] \in Seq(Finding)
      OBVIOUS
    <3>2. \A i \in indices : seen[f][i] \in Finding
      BY <3>1
    <3> QED BY <2>1, <3>2
  <2>4. pc' \in [Files -> Places] /\ seen' \in [Files -> Seq(Finding)]
    <3>1. <<>> \in Seq(Finding)
      OBVIOUS
    <3> QED BY <1>8, <3>1 DEF FilterAnswers, Places
  <2>5. UNCHANGED <<jobVars, phase, ctx, resume, appending, finished, said, units, outcome, hard, failed>>
    BY <1>8 DEF FilterAnswers
  <2> QED BY <2>2, <2>3, <2>4, <2>5 DEF jobVars
<1> QED BY <1>1, <1>2, <1>3, <1>4, <1>5, <1>6, <1>7, <1>8 DEF FileStep, Verdict

\* So does a step of the pool.
LEMMA UnitStepTypes ==
  ASSUME TypesFit, NEW u \in units, UnitStep(u), own' \in Session
  PROVE  AgentTypeOK'
<1> USE DEF TypesFit, AgentTypeOK
<1> DEFINE U == [finding : Finding, at : {"queued", "running"}]
<1>1. u \in U /\ u.finding \in Finding
  OBVIOUS
<1>2. CASE UnitStarts(u)
  <2>1. [u EXCEPT !.at = "running"] \in U
    BY <1>1
  <2>2. units' \subseteq U
    BY <1>2, <2>1 DEF UnitStarts
  <2> QED BY <1>2, <2>2 DEF UnitStarts, jobVars
<1>3. CASE UnitAdds(u)
  <2>1. collector' \in Seq(Finding)
    BY <1>1, <1>3 DEF UnitAdds
  <2> QED BY <1>3, <2>1 DEF UnitAdds, jobVars
<1>4. CASE UnitPanics(u)
  BY <1>1, <1>4 DEF UnitPanics, jobVars
<1> QED BY <1>2, <1>3, <1>4 DEF UnitStep

\* A new attempt and a kill start with the types.
LEMMA StartingTypes ==
  ASSUME Unstarted
  PROVE  /\ ctx' \in {"live", "done"} /\ collector' \in Seq(Finding)
         /\ pc' \in [Files -> Places] /\ finished' \subseteq Files /\ hard' \subseteq Files
         /\ said' \subseteq Finding
         /\ units' \subseteq [finding : Finding, at : {"queued", "running"}]
         /\ seen' \in [Files -> Seq(Finding)]
         /\ outcome' \in [Files -> {"selected", "failed"} \union Covered]
         /\ failed' \in BOOLEAN /\ dropped' \subseteq Finding
<1>1. <<>> \in Seq(Finding)
  OBVIOUS
<1> QED BY <1>1 DEF Unstarted, Places

\* Every step keeps the types.
LEMMA TypesStep ==
  ASSUME SessionAssumption, AgentAssumption, TypesFit, [Next]_vars
  PROVE  TypesFit'
<1>0. own' \in Session /\ ItemsFit'
  BY ItemsStep
<1> USE DEF AgentTypeOK
<1>1. CASE UNCHANGED vars
  BY <1>0, <1>1 DEF TypesFit, vars, runVars, jobVars
<1>2. CASE OpenSession
  <2>1. /\ concurrency' \in Concurrencies /\ past' \in [Files -> {NoItem} \union Seq(Finding)]
        /\ phase' \in Phases /\ made' \in 0..MaxFindings
    BY <1>2 DEF TypesFit, OpenSession, Phases
  <2>2. attempt' \in 0..MaxAttempts
    BY <1>2 DEF TypesFit, OpenSession, AgentAssumption
  <2>3. resume' \in [Files -> {NoItem} \union Seq(Finding)]
    BY <1>2, MergedIsTyped DEF OpenSession
  <2>4. appending' \in BOOLEAN
    BY <1>2 DEF TypesFit, OpenSession, Session
  <2>5. Unstarted
    BY <1>2 DEF OpenSession
  <2> QED BY <1>0, <2>1, <2>2, <2>3, <2>4, <2>5, StartingTypes DEF TypesFit
<1>3. CASE Kill
  <2>1. /\ concurrency' \in Concurrencies /\ past' \in [Files -> {NoItem} \union Seq(Finding)]
        /\ phase' \in Phases /\ made' \in 0..MaxFindings /\ attempt' \in 0..MaxAttempts
        /\ appending' \in BOOLEAN
    BY <1>3 DEF TypesFit, Kill, jobVars, Phases
  <2>2. resume' \in [Files -> {NoItem} \union Seq(Finding)]
    BY <1>3 DEF Kill, NoCheckpoints
  <2>3. Unstarted
    BY <1>3 DEF Kill
  <2> QED BY <1>0, <2>1, <2>2, <2>3, StartingTypes DEF TypesFit
<1>4. CASE LoadFails \/ Select \/ Dispatch \/ Collect \/ Analyse \/ FinalizeManifest \/ CtxEnds
  <2>1. phase' \in Phases /\ failed' \in BOOLEAN /\ ctx' \in {"live", "done"}
    BY <1>4 DEF TypesFit, LoadFails, Select, Dispatch, Collect, Analyse, FinalizeManifest,
       CtxEnds, Phases, runVars
  <2>2. UNCHANGED <<jobVars, resume, appending, collector, pc, finished, said, units, seen,
                    outcome, hard, dropped>>
    BY <1>4 DEF LoadFails, Select, Dispatch, Collect, Analyse, FinalizeManifest, CtxEnds, runVars
  <2> QED BY <1>0, <2>1, <2>2 DEF TypesFit, jobVars
<1>5. ASSUME NEW f \in Files, FileStep(f) PROVE TypesFit'
  BY <1>0, <1>5, FileStepTypes DEF TypesFit
<1>6. ASSUME NEW u \in units, UnitStep(u) PROVE TypesFit'
  BY <1>0, <1>6, UnitStepTypes DEF TypesFit
<1> QED BY <1>1, <1>2, <1>3, <1>4, <1>5, <1>6 DEF Next, RunStep

-----------------------------------------------------------------------------
(* What the session's file says of each file.                              *)

\* While a run has its checkpoints, a file with one is reused before files
\* are dispatched; what a run covers has a checkpoint and what failed has
\* none; a checkpoint in a file that can be read is the run's or new.
RecordFits(f) ==
  /\ phase \in {"dispatch", "analysis", "finalize"} /\ resume[f] # NoItem =>
       outcome[f] = "reused"
  /\ outcome[f] = "reused" => resume[f] # NoItem
  /\ outcome[f] \in Covered => Checkpoint(own.lines, f) # NoItem
  /\ outcome[f] = "failed" => Checkpoint(own.lines, f) = NoItem
  /\ phase # "idle" /\ ~own.torn /\ Checkpoint(own.lines, f) # NoItem =>
       resume[f] # NoItem \/ outcome[f] = "completed"
  /\ outcome[f] = "completed" => f \in finished

RecordsFit == \A f \in Files : RecordFits(f)

\* A step of g's goroutine keeps f's record fit, and f's checkpoint.
LEMMA RecordsFileStep ==
  ASSUME SessionAssumption, TypesFit, PlacesFit, RecordsFit,
         NEW g \in Files, FileStep(g), NEW f \in Files
  PROVE  /\ RecordFits(f)'
         /\ own'.torn = own.torn
         /\ ~own.torn /\ Checkpoint(own.lines, f) # NoItem =>
              Checkpoint(own'.lines, f) # NoItem
<1>1. RecordFits(f) /\ RecordFits(g)
  BY DEF RecordsFit
<1>2. UNCHANGED <<resume, phase>>
  BY FileRecords
<1>3. outcome \in [Files -> {"selected", "failed"} \union Covered]
  BY DEF TypesFit, AgentTypeOK
<1>4. CASE LinesKept /\ own'.torn = own.torn /\ UNCHANGED outcome /\ finished \subseteq finished'
  BY <1>1, <1>2, <1>4 DEF LinesKept, RecordFits
<1>5. ASSUME NEW o \in {"failed", "completed", "reused"}, NEW item,
             outcome' = [outcome EXCEPT ![g] = o], UNCHANGED finished,
             Records(own', g, item), f # g
      PROVE  /\ RecordFits(f)' /\ own'.torn = own.torn
             /\ Checkpoint(own'.lines, f) = Checkpoint(own.lines, f)
  <2>1. outcome'[f] = outcome[f]
    BY <1>3, <1>5
  <2>2. own'.torn = own.torn /\ Checkpoint(own'.lines, f) = Checkpoint(own.lines, f)
    BY <1>5 DEF Records
  <2> QED BY <1>1, <1>2, <1>5, <2>1, <2>2 DEF RecordFits
<1>6. CASE /\ outcome' = [outcome EXCEPT ![g] = "failed"] /\ UNCHANGED finished
           /\ pc[g] \in {"review", "filter", "verdict"} /\ Records(own', g, NoItem)
  <2>1. phase = "dispatch" /\ outcome[g] = "selected"
    BY <1>6 DEF PlacesFit, Inside
  <2>2. Checkpoint(own.lines, g) = NoItem \/ own.torn
    BY <1>1, <2>1 DEF RecordFits
  <2>3. outcome'[g] = "failed" /\ own'.torn = own.torn /\ Checkpoint(own'.lines, g) = NoItem
    BY <1>3, <1>6 DEF Records
  <2>4. f = g => RecordFits(f)'
    BY <1>1, <1>2, <2>1, <2>3 DEF RecordFits, Covered
  <2> QED BY <1>5, <1>6, <2>2, <2>3, <2>4
<1>7. CASE /\ outcome' = [outcome EXCEPT ![g] = "completed"] /\ UNCHANGED finished
           /\ pc[g] = "verdict" /\ g \in finished
           /\ Records(own', g, CommentsForPath(collector, g))
  <2>1. phase = "dispatch" /\ outcome[g] = "selected"
    BY <1>7 DEF PlacesFit, Inside
  <2>2. CommentsForPath(collector, g) # NoItem
    BY CommentsOfPath, SessionAssumption DEF TypesFit, AgentTypeOK
  <2>3. outcome'[g] = "completed" /\ own'.torn = own.torn /\ Checkpoint(own'.lines, g) # NoItem
    BY <1>3, <1>7, <2>2 DEF Records
  <2>4. f = g => RecordFits(f)'
    BY <1>1, <1>2, <1>7, <2>1, <2>3 DEF RecordFits, Covered
  <2> QED BY <1>5, <1>7, <2>3, <2>4
<1>8. CASE /\ Reuse(g) /\ UNCHANGED finished
           /\ \E item \in Items(g) \ {NoItem} : Records(own', g, item)
  <2>1. /\ phase = "resume" /\ resume[g] # NoItem
        /\ outcome' = [outcome EXCEPT ![g] = "reused"]
    BY <1>8 DEF Reuse
  <2>2. PICK item \in Items(g) \ {NoItem} : Records(own', g, item)
    BY <1>8
  <2>3. outcome'[g] = "reused" /\ own'.torn = own.torn /\ Checkpoint(own'.lines, g) # NoItem
    BY <1>3, <2>1, <2>2 DEF Records
  <2>4. f = g => RecordFits(f)'
    BY <1>1, <1>2, <2>1, <2>3 DEF RecordFits, Covered
  <2> QED BY <1>5, <1>8, <2>1, <2>2, <2>3, <2>4
<1> QED BY <1>4, <1>6, <1>7, <1>8, FileRecords

\* Every step keeps the records fit, and a checkpoint in a file that can be
\* read.
LEMMA RecordsStep ==
  ASSUME SessionAssumption, TypesFit, PlacesFit, RecordsFit, [Next]_vars, NEW f \in Files
  PROVE  /\ RecordFits(f)'
         /\ ~own.torn /\ Checkpoint(own.lines, f) # NoItem =>
              Checkpoint(own'.lines, f) # NoItem
<1>1. RecordFits(f)
  BY DEF RecordsFit
<1>2. CASE \E g \in Files : FileStep(g)
  BY <1>2, RecordsFileStep
<1>3. CASE ~ \E g \in Files : FileStep(g)
  <2>1. /\ Checkpoint(own'.lines, f) = Checkpoint(own.lines, f)
        /\ Kill \/ own'.torn = own.torn
    BY <1>3, OtherRecords DEF LinesKept
  <2>2. CASE UNCHANGED vars
    BY <1>1, <2>1, <2>2 DEF vars, runVars, RecordFits
  <2>3. CASE OpenSession
    <3>1. outcome'[f] = "selected" /\ phase' = "load" /\ own'.torn = own.torn
      BY <2>1, <2>3 DEF OpenSession, Unstarted, Kill
    <3>2. ~own.torn /\ Checkpoint(own.lines, f) # NoItem => resume'[f] # NoItem
      BY <2>3 DEF OpenSession, MergeResumeStates, LoadResumeState
    <3> QED BY <2>1, <3>1, <3>2 DEF RecordFits, Covered
  <2>4. CASE Kill
    <3>1. outcome'[f] = "selected" /\ phase' = "idle"
      BY <2>4 DEF Kill, Unstarted
    <3> QED BY <2>1, <3>1 DEF RecordFits, Covered
  <2>5. CASE LoadFails \/ Select \/ Collect \/ Analyse \/ FinalizeManifest \/ CtxEnds
    <3>1. UNCHANGED <<resume, outcome, finished>> /\ own'.torn = own.torn
      BY <2>5 DEF LoadFails, Select, Collect, Analyse, FinalizeManifest, CtxEnds, runVars,
         Buffered, Flushed, TypesFit, AgentTypeOK, Session
    <3>2. /\ phase' \in {"dispatch", "analysis", "finalize"} =>
               phase \in {"dispatch", "analysis", "finalize"}
          /\ phase' # "idle" => phase # "idle"
      BY <2>5 DEF LoadFails, Select, Collect, Analyse, FinalizeManifest, CtxEnds
    <3> QED BY <1>1, <2>1, <3>1, <3>2 DEF RecordFits
  <2>6. CASE Dispatch
    <3>1. UNCHANGED <<resume, outcome, finished, own>>
      BY <2>6 DEF Dispatch, runVars
    <3>2. phase # "idle" /\ (resume[f] # NoItem => outcome[f] = "reused")
      BY <2>6 DEF Dispatch
    <3> QED BY <1>1, <3>1, <3>2 DEF RecordFits
  <2>7. ASSUME NEW u \in units, UnitStep(u) PROVE RecordFits(f)'
    <3>1. UNCHANGED <<phase, resume, outcome, finished>> /\ own'.torn = own.torn
      BY <2>1, <2>7 DEF UnitStep, UnitStarts, UnitAdds, UnitPanics, Buffered, TypesFit,
         AgentTypeOK, Session
    <3> QED BY <1>1, <2>1, <3>1 DEF RecordFits
  <2> QED BY <1>3, <2>1, <2>2, <2>3, <2>4, <2>5, <2>6, <2>7 DEF Next, RunStep
<1> QED BY <1>2, <1>3

\* The records fit at the start.
LEMMA RecordsInit == Init => RecordsFit
BY DEF Init, RecordsFit, RecordFits, Covered

-----------------------------------------------------------------------------
(* Where each finding is.                                                  *)

\* The findings whose comments the pool still has.
OnTheWay == {u.finding : u \in units}

\* CommentsAccounted, also of the attempt that ended last.
Accounted ==
  ToSet(collector) = ((said \ OnTheWay) \ dropped) \union FindingsReused

\* A finding is numbered, of a file that was started, and lost only if said.
SaidFit ==
  /\ \A x \in said : x.id <= made /\ pc[x.path] # "waiting"
  /\ dropped \subseteq said

\* A comment in the pool is neither lost nor there twice; its file has not
\* been drained.
UnitFits(u) ==
  /\ u.finding \in said /\ u.finding \notin dropped
  /\ pc[u.finding.path] \in {"review", "drain", "over"}
  /\ outcome[u.finding.path] # "completed"
  /\ \A v \in units : v.finding = u.finding => v = u

UnitsFit ==
  /\ \A u \in units : UnitFits(u)
  /\ units # {} => phase = "dispatch"

\* What the filter showed the model, and what the checkpoint of a completed
\* file says, is what the collector has for the file.
CopiesFit(f) ==
  /\ pc[f] = "filter" => seen[f] = CommentsForPath(collector, f)
  /\ outcome[f] = "completed" =>
       Checkpoint(own.lines, f) = CommentsForPath(collector, f)

FindingsFit ==
  /\ SaidFit /\ UnitsFit /\ Accounted
  /\ DistinctOn(collector, Files \ Reused)
  /\ \A f \in Files : CopiesFit(f)

\* All that the attempts keep.
AgentFit == TypesFit /\ PlacesFit /\ RecordsFit /\ FindingsFit

\* Reused findings are of reused files, said ones of others; so what the pool
\* has is not collected yet.
LEMMA FindingsApart ==
  ASSUME AgentFit
  PROVE  /\ \A x \in FindingsReused : x.path \in Reused
         /\ \A x \in said : x \in Finding /\ x.path \in Files /\ x.path \notin Reused
         /\ \A u \in units : u.finding \notin ToSet(collector)
<1>1. ASSUME NEW x \in FindingsReused PROVE x.path \in Reused
  <2>1. PICK f \in Reused : x \in ToSet(resume[f])
    BY <1>1 DEF FindingsReused
  <2>2. f \in Files /\ resume[f] \in Items(f) /\ resume[f] # NoItem
    BY <2>1 DEF Reused, AgentFit, RecordsFit, RecordFits, TypesFit, ItemsFit
  <2>3. resume[f] \in Seq([path : {f}, id : Nat])
    BY <2>2 DEF Items
  <2>4. x \in [path : {f}, id : Nat]
    <3> DEFINE T == [path : {f}, id : Nat]
    <3>1. resume[f] \in Seq(T)
      BY <2>3
    <3>2. PICK i \in DOMAIN resume[f] : x = resume[f][i]
      BY <2>1 DEF ToSet
    <3> HIDE DEF T
    <3>3. x \in T
      BY <3>1, <3>2
    <3> QED BY <3>3 DEF T
  <2> QED BY <2>1, <2>4
<1>2. ASSUME NEW x \in said PROVE x \in Finding /\ x.path \in Files /\ x.path \notin Reused
  BY DEF AgentFit, TypesFit, AgentTypeOK, Finding, PlacesFit, FindingsFit, SaidFit, Reused
<1>3. ASSUME NEW u \in units PROVE u.finding \notin ToSet(collector)
  BY <1>1, <1>2 DEF AgentFit, FindingsFit, Accounted, UnitsFit, UnitFits, OnTheWay
<1> QED BY <1>1, <1>2, <1>3

\* A step that moves f's goroutine on, and may decide f, touches no finding.
LEMMA PlaceMoves ==
  ASSUME AgentFit, NEW f \in Files, NEW place \in {"review", "drain", "filter", "verdict", "over"},
         UNCHANGED <<phase, resume, collector, said, made, units, dropped>>,
         pc' = [pc EXCEPT ![f] = place], Reused' = Reused,
         outcome' = outcome \/ \E o \in {"failed", "completed"} : outcome' = [outcome EXCEPT ![f] = o],
         UnitsOf(f) # {} => place \in {"review", "drain", "over"} /\ outcome'[f] # "completed"
  PROVE  SaidFit' /\ UnitsFit' /\ Accounted' /\ DistinctOn(collector, Files \ Reused)'
<1>0. pc \in [Files -> Places] /\ outcome \in [Files -> {"selected", "failed"} \union Covered]
  BY DEF AgentFit, PlacesFit
<1>1. pc'[f] = place /\ \A g \in Files : g # f => pc'[g] = pc[g] /\ outcome'[g] = outcome[g]
  BY <1>0
<1>2. SaidFit'
  BY <1>1, FindingsApart DEF AgentFit, FindingsFit, SaidFit
<1>3. ASSUME NEW u \in units PROVE UnitFits(u)'
  <2>1. u.finding \in said /\ u.finding.path \in Files /\ UnitFits(u)
    BY FindingsApart DEF AgentFit, FindingsFit, UnitsFit, UnitFits
  <2>2. CASE u.finding.path = f
    <3>1. UnitsOf(f) # {}
      BY <2>2 DEF UnitsOf
    <3> QED BY <1>1, <2>1, <2>2, <3>1 DEF UnitFits
  <2>3. CASE u.finding.path # f
    BY <1>1, <2>1, <2>3 DEF UnitFits
  <2> QED BY <2>2, <2>3
<1>4. UnitsFit'
  BY <1>3 DEF AgentFit, FindingsFit, UnitsFit
<1>5. FindingsReused' = FindingsReused
  BY DEF FindingsReused
<1>6. Accounted'
  BY <1>5 DEF AgentFit, FindingsFit, Accounted, OnTheWay
<1>7. DistinctOn(collector, Files \ Reused)'
  BY DEF AgentFit, FindingsFit, DistinctOn
<1> QED BY <1>2, <1>4, <1>6, <1>7

\* The copies of the files that a step does not concern.
LEMMA OtherCopies ==
  ASSUME AgentFit, NEW f \in Files, FileStep(f), ~Reuse(f), SessionAssumption
  PROVE  \A g \in Files : g # f => CopiesFit(g)'
<1>1. SUFFICES ASSUME NEW g \in Files, g # f PROVE CopiesFit(g)'
  OBVIOUS
<1>2. /\ collector \in Seq(Finding) /\ CopiesFit(g) /\ pc \in [Files -> Places]
      /\ seen \in [Files -> Seq(Finding)]
      /\ outcome \in [Files -> {"selected", "failed"} \union Covered]
  BY DEF AgentFit, TypesFit, AgentTypeOK, FindingsFit
<1>3. Checkpoint(own'.lines, g) = Checkpoint(own.lines, g)
  BY <1>1, FileRecords DEF AgentFit, LinesKept, Records
<1>4. CommentsForPath(collector', g) = CommentsForPath(collector, g)
  <2>1. CASE FilterAnswers(f)
    BY <1>1, <1>2, <2>1, RemovedForOthers DEF FilterAnswers
  <2>2. CASE ~FilterAnswers(f)
    BY <2>2 DEF FileStep, StartFile, Submit, MainLoopEnds, AwaitKey, AfterDrain,
       PromptTooLarge, ReviewFails, ReviewPanics, Verdict, Complete, StopShort, FailItem
  <2> QED BY <2>1, <2>2
<1>5. pc'[g] = pc[g] /\ seen'[g] = seen[g] /\ outcome'[g] = outcome[g]
  BY <1>1, <1>2 DEF FileStep, StartFile, Submit, MainLoopEnds, AwaitKey, AfterDrain,
     FilterAnswers, PromptTooLarge, ReviewFails, ReviewPanics, Verdict, Complete,
     StopShort, FailItem
<1> QED BY <1>2, <1>3, <1>4, <1>5 DEF CopiesFit

\* The steps of a goroutine that touch no finding.
LEMMA PlacingKeepsFindings ==
  ASSUME SessionAssumption, AgentFit, NEW f \in Files, FileStep(f),
         ~Reuse(f), ~Submit(f), ~FilterAnswers(f)
  PROVE  FindingsFit'
<1> DEFINE T == {"selected", "failed"} \union Covered
<1>1. /\ collector \in Seq(Finding) /\ CopiesFit(f) /\ pc \in [Files -> Places]
      /\ seen \in [Files -> Seq(Finding)] /\ outcome \in [Files -> T]
  BY DEF AgentFit, TypesFit, AgentTypeOK, FindingsFit
<1>2. UNCHANGED <<phase, resume, collector, said, made, units, dropped>>
  BY DEF FileStep, StartFile, MainLoopEnds, AwaitKey, AfterDrain, PromptTooLarge,
     ReviewFails, ReviewPanics, Verdict, Complete, StopShort, FailItem, jobVars
<1>3. UnitsOf(f) # {} => pc[f] \notin {"filter", "verdict"}
  BY DEF AgentFit, FindingsFit, UnitsFit, UnitFits, UnitsOf
<1>4. CASE AwaitKey(f)
  <2>1. PICK place \in {"filter", "verdict"} :
          /\ pc' = [pc EXCEPT ![f] = place] /\ UnitsOf(f) = {} /\ UNCHANGED outcome
          /\ pc[f] = "drain"
          /\ place = "filter" => seen' = [seen EXCEPT ![f] = CommentsForPath(collector, f)]
    BY <1>4 DEF AwaitKey, AfterDrain
  <2>2. Reused' = Reused
    BY <2>1 DEF Reused
  <2>3. CopiesFit(f)'
    <3>1. outcome[f] = "selected"
      BY <2>1 DEF AgentFit, PlacesFit, Inside
    <3> QED BY <1>1, <1>2, <2>1, <3>1 DEF CopiesFit
  <2>4. SaidFit' /\ UnitsFit' /\ Accounted' /\ DistinctOn(collector, Files \ Reused)'
    BY <1>2, <2>1, <2>2, PlaceMoves
  <2> QED BY <2>3, <2>4, OtherCopies DEF FindingsFit
<1>5. CASE StartFile(f) \/ MainLoopEnds(f)
  <2>1. PICK place \in {"review", "drain"} :
          /\ pc' = [pc EXCEPT ![f] = place] /\ UNCHANGED outcome /\ outcome[f] = "selected"
    BY <1>5 DEF StartFile, MainLoopEnds, AgentFit, PlacesFit, Inside
  <2>2. Reused' = Reused
    BY <2>1 DEF Reused
  <2>3. CopiesFit(f)'
    BY <1>1, <2>1 DEF CopiesFit
  <2>4. SaidFit' /\ UnitsFit' /\ Accounted' /\ DistinctOn(collector, Files \ Reused)'
    BY <1>2, <2>1, <2>2, PlaceMoves
  <2> QED BY <2>3, <2>4, OtherCopies DEF FindingsFit
<1>6. CASE PromptTooLarge(f) \/ ReviewFails(f) \/ ReviewPanics(f) \/ Verdict(f)
  <2>1. PICK o \in {"failed", "completed"} :
          /\ pc' = [pc EXCEPT ![f] = "over"] /\ outcome' = [outcome EXCEPT ![f] = o]
          /\ o = "completed" => pc[f] = "verdict"
          /\ pc[f] \in Inside
    BY <1>6 DEF PromptTooLarge, ReviewFails, ReviewPanics, Verdict, Complete, StopShort,
       FailItem, Inside
  <2>2. outcome[f] = "selected"
    BY <2>1 DEF AgentFit, PlacesFit
  <2>3. outcome'[f] = o /\ pc'[f] = "over"
    BY <1>1, <2>1
  <2>4. Reused' = Reused
    BY <1>1, <2>1, <2>2, <2>3 DEF Reused
  <2>5. UnitsOf(f) # {} => outcome'[f] # "completed"
    BY <1>3, <2>1, <2>3
  <2>6. CopiesFit(f)'
    <3>1. ASSUME o = "completed"
          PROVE  Checkpoint(own'.lines, f) = CommentsForPath(collector, f)
      <4>1. outcome'[f] = "completed" /\ outcome' # outcome
        BY <2>2, <2>3, <3>1
      <4>2. outcome' # [outcome EXCEPT ![f] = "failed"]
        BY <1>1, <4>1
      <4>3. Records(own', f, CommentsForPath(collector, f))
        BY <4>1, <4>2, FileRecords DEF AgentFit
      <4> QED BY <4>3 DEF Records
    <3> QED BY <1>2, <2>3, <3>1 DEF CopiesFit
  <2>7. SaidFit' /\ UnitsFit' /\ Accounted' /\ DistinctOn(collector, Files \ Reused)'
    BY <1>2, <2>1, <2>4, <2>5, PlaceMoves
  <2> QED BY <2>6, <2>7, OtherCopies DEF FindingsFit
<1> QED BY <1>4, <1>5, <1>6 DEF FileStep

\* A new finding is on its way.
LEMMA SubmitKeepsFindings ==
  ASSUME SessionAssumption, AgentAssumption, AgentFit, NEW f \in Files, Submit(f)
  PROVE  FindingsFit'
<1> DEFINE finding == [path |-> f, id |-> made']
           unit == [finding |-> finding, at |-> "queued"]
<1>1. /\ made \in Nat /\ made' = made + 1 /\ collector \in Seq(Finding)
      /\ \A x \in said : x.id <= made /\ x.id \in Nat
      /\ units \subseteq [finding : Finding, at : {"queued", "running"}]
  BY FindingsApart DEF Submit, AgentFit, TypesFit, AgentTypeOK, AgentAssumption, FindingsFit,
     SaidFit, Finding
<1>2. finding.id = made' /\ finding.path = f /\ unit.finding = finding /\ finding \notin said
  BY <1>1
<1>3. /\ said' = said \union {finding} /\ units' = units \union {unit}
      /\ UNCHANGED <<phase, resume, collector, pc, outcome, dropped, seen>>
      /\ pc[f] = "review"
  BY DEF Submit
<1>4. Checkpoint(own'.lines, f) = Checkpoint(own.lines, f)
  BY SessionSteps DEF Submit, AgentFit, TypesFit, AgentTypeOK
<1> HIDE DEF finding, unit
<1>5. phase = "dispatch" /\ outcome[f] = "selected"
  BY <1>3 DEF AgentFit, PlacesFit, Inside
<1>6. SaidFit'
  <2>1. \A x \in said' : x.id <= made' /\ pc[x.path] # "waiting"
    BY <1>1, <1>2, <1>3 DEF AgentFit, FindingsFit, SaidFit
  <2> QED BY <1>3, <2>1 DEF AgentFit, FindingsFit, SaidFit
<1>7. finding \notin dropped /\ finding \notin OnTheWay
  BY <1>2 DEF AgentFit, FindingsFit, SaidFit, UnitsFit, UnitFits, OnTheWay
<1>8. ASSUME NEW u \in units' PROVE UnitFits(u)'
  <2>1. CASE u = unit
    BY <1>2, <1>3, <1>5, <1>7, <2>1 DEF UnitFits, OnTheWay
  <2>2. CASE u \in units
    BY <1>2, <1>3, <1>7, <2>2 DEF UnitFits, OnTheWay, AgentFit, FindingsFit, UnitsFit
  <2> QED BY <1>3, <2>1, <2>2
<1>9. UnitsFit'
  BY <1>3, <1>5, <1>8 DEF UnitsFit
<1>10. FindingsReused' = FindingsReused /\ Reused' = Reused
  BY <1>3 DEF FindingsReused, Reused
<1>11. OnTheWay' = OnTheWay \union {finding}
  BY <1>2, <1>3 DEF OnTheWay
<1>12. Accounted'
  BY <1>2, <1>3, <1>10, <1>11 DEF AgentFit, FindingsFit, Accounted
<1>13. DistinctOn(collector, Files \ Reused)'
  BY <1>3, <1>10 DEF AgentFit, FindingsFit, DistinctOn
<1>14. \A g \in Files : CopiesFit(g)'
  BY <1>3, <1>4, <1>5, OtherCopies DEF AgentFit, FindingsFit, CopiesFit, FileStep, Reuse
<1> QED BY <1>6, <1>9, <1>12, <1>13, <1>14 DEF FindingsFit

\* The filter removes what it names, and nothing that came meanwhile.
LEMMA FilterKeepsFindings ==
  ASSUME SessionAssumption, AgentFit, NEW f \in Files, FilterAnswers(f)
  PROVE  FindingsFit'
<1>1. /\ collector \in Seq(Finding) /\ pc \in [Files -> Places]
      /\ seen[f] = CommentsForPath(collector, f)
  BY DEF FilterAnswers, AgentFit, TypesFit, AgentTypeOK, FindingsFit, CopiesFit
<1>2. phase = "dispatch" /\ outcome[f] = "selected" /\ f \notin Reused
  BY DEF FilterAnswers, AgentFit, PlacesFit, Inside, Reused
<1>3. PICK indices \in SUBSET DOMAIN CommentsForPath(collector, f) :
        /\ collector' = RemoveByPathAndIndices(collector, f, indices)
        /\ dropped' = dropped \union {CommentsForPath(collector, f)[i] : i \in indices}
  BY <1>1 DEF FilterAnswers
<1> DEFINE named == {CommentsForPath(collector, f)[i] : i \in indices}
<1>4. /\ UNCHANGED <<phase, resume, said, made, units, outcome>>
      /\ pc[f] = "filter" /\ pc' = [pc EXCEPT ![f] = "verdict"]
  BY DEF FilterAnswers, jobVars
<1>5. DistinctOn(collector, Files \ Reused) /\ DistinctOn(collector, {f})
  BY <1>2 DEF AgentFit, FindingsFit, DistinctOn
<1>6. ToSet(collector') = ToSet(collector) \ named
  BY <1>1, <1>3, <1>5, RemovedIsNamed
<1>7. \A x \in named : x \in ToSet(collector) /\ x.path = f
  <2>1. named \subseteq ToSet(CommentsForPath(collector, f))
    BY DEF ToSet
  <2>2. ToSet(CommentsForPath(collector, f)) = {x \in ToSet(collector) : x.path = f}
    BY <1>1, CommentsOfPath
  <2> HIDE DEF named
  <2> QED BY <2>1, <2>2
<1>8. dropped' = dropped \union named
  BY <1>3
<1> HIDE DEF named
<1>9. \A x \in named : x \in said /\ x \notin OnTheWay /\ x \notin FindingsReused
  BY <1>2, <1>7, FindingsApart DEF AgentFit, FindingsFit, Accounted
<1>10. \A g \in Files : pc'[g] # pc[g] => g = f /\ pc'[g] = "verdict"
  BY <1>1, <1>4
<1>11. SaidFit'
  BY <1>4, <1>8, <1>9, <1>10, FindingsApart DEF AgentFit, FindingsFit, SaidFit
<1>12. ASSUME NEW u \in units PROVE UnitFits(u)'
  <2>1. UnitFits(u) /\ u.finding.path \in Files /\ u.finding.path # f
    BY <1>4, FindingsApart DEF AgentFit, FindingsFit, UnitsFit, UnitFits
  <2>2. u.finding \notin named
    BY <1>9 DEF OnTheWay
  <2> QED BY <1>4, <1>8, <1>10, <2>1, <2>2 DEF UnitFits
<1>13. UnitsFit'
  BY <1>4, <1>12 DEF AgentFit, FindingsFit, UnitsFit
<1>14. FindingsReused' = FindingsReused /\ Reused' = Reused /\ OnTheWay' = OnTheWay
  BY <1>4 DEF FindingsReused, Reused, OnTheWay
<1>15. Accounted'
  BY <1>4, <1>6, <1>8, <1>9, <1>14 DEF AgentFit, FindingsFit, Accounted
<1>16. DistinctOn(collector, Files \ Reused)'
  <2>1. DistinctOn(collector', Files \ Reused)
    BY <1>1, <1>3, <1>5, RemovedStaysDistinct
  <2> QED BY <1>14, <2>1
<1>17. CopiesFit(f)'
  BY <1>1, <1>2, <1>4 DEF CopiesFit
<1>18. \A g \in Files : CopiesFit(g)'
  BY <1>2, <1>17, OtherCopies DEF FileStep, Reuse, FilterAnswers
<1> QED BY <1>11, <1>13, <1>15, <1>16, <1>18 DEF FindingsFit

\* A file's comments are taken over before any file is started.
LEMMA ReuseKeepsFindings ==
  ASSUME AgentFit, NEW f \in Files, Reuse(f)
  PROVE  FindingsFit'
<1> DEFINE T == [path : {f}, id : Nat]
           n == Len(collector)
<1>1. /\ collector \in Seq(Finding) /\ resume[f] \in Seq(T)
      /\ outcome \in [Files -> {"selected", "failed"} \union Covered]
  BY DEF Reuse, AgentFit, TypesFit, AgentTypeOK, ItemsFit, Items
<1>2. /\ phase = "resume" /\ UNCHANGED <<phase, resume, pc, said, made, units, seen, dropped>>
      /\ collector' = collector \o resume[f]
      /\ outcome' = [outcome EXCEPT ![f] = "reused"] /\ outcome[f] = "selected"
  BY DEF Reuse, jobVars
<1>3. /\ n \in Nat /\ DOMAIN collector = 1..n /\ Len(resume[f]) \in Nat
      /\ DOMAIN collector' = 1..(n + Len(resume[f]))
      /\ \A i \in 1..n : collector'[i] = collector[i]
      /\ \A i \in 1..Len(resume[f]) : collector'[n + i] = resume[f][i]
      /\ \A i \in 1..Len(resume[f]) : resume[f][i] \in T
  <2> HIDE DEF T
  <2> QED BY <1>1, <1>2
<1>4. \A i \in DOMAIN collector' :
        \/ i \in 1..n
        \/ i - n \in 1..Len(resume[f]) /\ collector'[i] = resume[f][i - n]
  <2>1. ASSUME NEW i \in 1..(n + Len(resume[f])), i \notin 1..n
        PROVE  i - n \in 1..Len(resume[f]) /\ i = n + (i - n)
    BY <1>3, <2>1
  <2> QED BY <1>3, <2>1
<1>5. \A x \in ToSet(resume[f]) : x.path = f
  BY <1>3 DEF ToSet
<1> HIDE DEF T, n
<1>6. ToSet(collector') = ToSet(collector) \union ToSet(resume[f])
  <2>1. \A i \in 1..n : i \in DOMAIN collector'
    BY <1>3
  <2>2. \A i \in 1..Len(resume[f]) : n + i \in DOMAIN collector'
    BY <1>3
  <2>3. \A x \in ToSet(collector') : x \in ToSet(collector) \/ x \in ToSet(resume[f])
    BY <1>1, <1>3, <1>4 DEF ToSet
  <2>4. \A x \in ToSet(collector) : x \in ToSet(collector')
    BY <1>3, <2>1 DEF ToSet
  <2>5. \A x \in ToSet(resume[f]) : x \in ToSet(collector')
    <3>1. SUFFICES ASSUME NEW x \in ToSet(resume[f]) PROVE x \in ToSet(collector')
      OBVIOUS
    <3>2. PICK i \in 1..Len(resume[f]) : x = resume[f][i]
      BY <1>1 DEF ToSet
    <3>3. collector'[n + i] = x
      BY <1>3, <3>2
    <3> QED BY <2>2, <3>2, <3>3 DEF ToSet
  <2> QED BY <2>3, <2>4, <2>5
<1>7. Reused' = Reused \union {f}
  BY <1>1, <1>2 DEF Reused
<1>8. FindingsReused' = FindingsReused \union ToSet(resume[f])
  BY <1>2, <1>7 DEF FindingsReused
<1>9. \A g \in Files : pc[g] = "waiting" /\ outcome'[g] # "completed"
  BY <1>1, <1>2 DEF AgentFit, PlacesFit
<1>10. said = {} /\ units = {} /\ dropped = {}
  BY <1>9, FindingsApart DEF AgentFit, FindingsFit, SaidFit, UnitsFit, UnitFits
<1>11. SaidFit' /\ UnitsFit'
  BY <1>2, <1>10 DEF SaidFit, UnitsFit
<1>12. Accounted'
  BY <1>2, <1>6, <1>8, <1>10 DEF AgentFit, FindingsFit, Accounted
<1>13. DistinctOn(collector', Files \ Reused')
  <2>1. SUFFICES ASSUME NEW i \in DOMAIN collector', NEW j \in DOMAIN collector',
                        collector'[i] = collector'[j],
                        collector'[i].path \in Files \ Reused'
                 PROVE  i = j
    BY DEF DistinctOn
  <2>2. collector'[i].path # f
    BY <1>7, <2>1
  <2>3. i \in 1..n /\ j \in 1..n
    BY <1>1, <1>4, <1>5, <2>1, <2>2 DEF ToSet
  <2>4. collector[i] = collector[j] /\ collector[i].path \in Files \ Reused
    BY <1>3, <1>7, <2>1, <2>3
  <2> QED BY <1>3, <2>3, <2>4 DEF AgentFit, FindingsFit, DistinctOn
<1>14. \A g \in Files : CopiesFit(g)'
  BY <1>2, <1>9 DEF CopiesFit
<1> QED BY <1>11, <1>12, <1>13, <1>14 DEF FindingsFit

\* The pool moves a finding on, adds it or loses it.
LEMMA PoolKeepsFindings ==
  ASSUME AgentFit, NEW u \in units, UnitStep(u)
  PROVE  FindingsFit'
<1>1. /\ collector \in Seq(Finding) /\ u.finding \in Finding
      /\ units \subseteq [finding : Finding, at : {"queued", "running"}]
      /\ UnitFits(u) /\ SaidFit /\ Accounted /\ DistinctOn(collector, Files \ Reused)
      /\ \A v \in units : UnitFits(v)
      /\ units # {} => phase = "dispatch"
  BY DEF AgentFit, TypesFit, AgentTypeOK, FindingsFit, UnitsFit
<1>2. UNCHANGED <<phase, resume, pc, said, made, outcome, seen>>
  BY DEF UnitStep, UnitStarts, UnitAdds, UnitPanics, jobVars
<1>3. FindingsReused' = FindingsReused /\ Reused' = Reused
  BY <1>2 DEF FindingsReused, Reused
<1>4. \A g \in Files : Checkpoint(own'.lines, g) = Checkpoint(own.lines, g)
  <2>1. own' = own \/ own' = Buffered(own)
    BY DEF UnitStep, UnitStarts, UnitAdds, UnitPanics
  <2> QED BY <2>1, SessionSteps DEF AgentFit, TypesFit, AgentTypeOK
<1>5. ASSUME UNCHANGED <<collector, dropped>>, OnTheWay' = OnTheWay, NEW v,
             units' = (units \ {u}) \union {v}, v.finding = u.finding
      PROVE  FindingsFit'
  <2>1. SaidFit' /\ Accounted' /\ DistinctOn(collector, Files \ Reused)'
    BY <1>1, <1>2, <1>3, <1>5 DEF SaidFit, Accounted
  <2>2. \A w \in units' : UnitFits(w)'
    BY <1>1, <1>2, <1>5 DEF UnitFits
  <2>3. UnitsFit'
    BY <1>1, <1>2, <2>2 DEF UnitsFit
  <2>4. \A g \in Files : CopiesFit(g)'
    BY <1>2, <1>4, <1>5 DEF AgentFit, FindingsFit, CopiesFit
  <2> QED BY <2>1, <2>3, <2>4 DEF FindingsFit
<1>6. CASE UnitStarts(u)
  <2> DEFINE v == [u EXCEPT !.at = "running"]
  <2>1. v.finding = u.finding
    BY <1>1
  <2>2. units' = (units \ {u}) \union {v} /\ UNCHANGED <<collector, dropped>>
    BY <1>6 DEF UnitStarts
  <2> HIDE DEF v
  <2>3. OnTheWay' = OnTheWay
    BY <2>1, <2>2 DEF OnTheWay
  <2> QED BY <1>5, <2>1, <2>2, <2>3
<1>7. ASSUME units' = units \ {u}
      PROVE  OnTheWay' = OnTheWay \ {u.finding}
  BY <1>1, <1>7 DEF OnTheWay, UnitFits
<1>8. CASE UnitAdds(u)
  <2>1. units' = units \ {u} /\ collector' = Append(collector, u.finding) /\ UNCHANGED dropped
    BY <1>8 DEF UnitAdds
  <2>2. u.finding \in said /\ u.finding \notin dropped /\ u.finding \notin ToSet(collector)
    BY <1>1, FindingsApart DEF UnitFits
  <2>3. ToSet(collector') = ToSet(collector) \union {u.finding}
    <3> DEFINE n == Len(collector)
    <3>1. /\ n \in Nat /\ DOMAIN collector = 1..n /\ DOMAIN collector' = 1..(n + 1)
          /\ \A i \in 1..n : collector'[i] = collector[i]
          /\ collector'[n + 1] = u.finding
      BY <1>1, <2>1
    <3> HIDE DEF n
    <3>2. 1..(n + 1) = 1..n \union {n + 1}
      BY <3>1
    <3> QED BY <3>1, <3>2 DEF ToSet
  <2>4. SaidFit' /\ \A v \in units' : UnitFits(v)'
    BY <1>1, <1>2, <2>1 DEF SaidFit, UnitFits
  <2>5. UnitsFit'
    BY <1>1, <1>2, <2>4 DEF UnitsFit
  <2>6. Accounted'
    BY <1>1, <1>2, <1>3, <1>7, <2>1, <2>2, <2>3 DEF Accounted
  <2>7. DistinctOn(collector', Files \ Reused)
    <3> DEFINE n == Len(collector)
    <3>1. /\ n \in Nat /\ DOMAIN collector = 1..n /\ DOMAIN collector' = 1..(n + 1)
          /\ \A i \in 1..n : collector'[i] = collector[i] /\ collector'[i] \in ToSet(collector)
          /\ collector'[n + 1] = u.finding
      BY <1>1, <2>1 DEF ToSet
    <3> HIDE DEF n
    <3>2. \A i \in 1..(n + 1) : i \in 1..n \/ i = n + 1
      BY <3>1
    <3> QED BY <1>1, <2>2, <3>1, <3>2 DEF DistinctOn
  <2>8. ASSUME NEW g \in Files PROVE CopiesFit(g)'
    <3>1. CopiesFit(g)
      BY DEF AgentFit, FindingsFit
    <3>2. CASE u.finding.path = g
      BY <1>1, <1>2, <3>2 DEF UnitFits, CopiesFit
    <3>3. CASE u.finding.path # g
      <4>1. CommentsForPath(collector', g) = CommentsForPath(collector, g)
        BY <1>1, <2>1, <3>3, AddedForOthers
      <4> QED BY <1>2, <1>4, <3>1, <4>1 DEF CopiesFit
    <3> QED BY <3>2, <3>3
  <2> QED BY <1>3, <2>4, <2>5, <2>6, <2>7, <2>8 DEF FindingsFit
<1>9. CASE UnitPanics(u)
  <2>1. /\ units' = units \ {u} /\ UNCHANGED collector
        /\ dropped' = dropped \union {u.finding}
    BY <1>9 DEF UnitPanics
  <2>2. SaidFit' /\ \A v \in units' : UnitFits(v)'
    BY <1>1, <1>2, <2>1 DEF SaidFit, UnitFits
  <2>3. UnitsFit'
    BY <1>1, <1>2, <2>2 DEF UnitsFit
  <2>4. Accounted'
    <3>1. u.finding \in OnTheWay
      BY DEF OnTheWay
    <3> QED BY <1>1, <1>2, <1>3, <1>7, <2>1, <3>1 DEF Accounted
  <2>5. DistinctOn(collector, Files \ Reused)'
    BY <1>1, <1>3, <2>1
  <2>6. \A g \in Files : CopiesFit(g)'
    BY <1>2, <1>4, <2>1 DEF AgentFit, FindingsFit, CopiesFit
  <2> QED BY <2>2, <2>3, <2>4, <2>5, <2>6 DEF FindingsFit
<1> QED BY <1>6, <1>8, <1>9 DEF UnitStep

\* A new attempt and a kill have no finding.
LEMMA StartingFindings ==
  ASSUME Unstarted
  PROVE  FindingsFit'
<1>1. /\ collector' = <<>> /\ said' = {} /\ units' = {} /\ dropped' = {}
      /\ \A f \in Files : pc'[f] = "waiting" /\ outcome'[f] = "selected"
  BY DEF Unstarted
<1>2. Reused' = {} /\ FindingsReused' = {} /\ ToSet(collector') = {} /\ DOMAIN collector' = {}
  BY <1>1 DEF Reused, FindingsReused, ToSet
<1> QED BY <1>1, <1>2 DEF FindingsFit, SaidFit, UnitsFit, Accounted, DistinctOn, CopiesFit

\* So has the first state.
LEMMA FindingsInit == Init => FindingsFit
<1> SUFFICES ASSUME Init PROVE FindingsFit
  OBVIOUS
<1>1. /\ collector = <<>> /\ said = {} /\ units = {} /\ dropped = {}
      /\ \A f \in Files : pc[f] = "waiting" /\ outcome[f] = "selected"
  BY DEF Init
<1>2. Reused = {} /\ FindingsReused = {} /\ ToSet(collector) = {} /\ DOMAIN collector = {}
  BY <1>1 DEF Reused, FindingsReused, ToSet
<1> QED BY <1>1, <1>2 DEF FindingsFit, SaidFit, UnitsFit, Accounted, DistinctOn, CopiesFit

\* Every step accounts for the findings.
LEMMA FindingsStep ==
  ASSUME SessionAssumption, AgentAssumption, AgentFit, [Next]_vars
  PROVE  FindingsFit'
<1>1. CASE OpenSession \/ Kill
  BY <1>1, StartingFindings DEF OpenSession, Kill
<1>2. ASSUME NEW f \in Files, FileStep(f) PROVE FindingsFit'
  BY <1>2, ReuseKeepsFindings, SubmitKeepsFindings, FilterKeepsFindings, PlacingKeepsFindings
<1>3. ASSUME NEW u \in units, UnitStep(u) PROVE FindingsFit'
  BY <1>3, PoolKeepsFindings
<1>4. CASE \/ UNCHANGED vars \/ LoadFails \/ Select \/ Dispatch \/ Collect \/ Analyse
           \/ FinalizeManifest \/ CtxEnds
  <2>1. UNCHANGED <<resume, collector, pc, said, made, units, seen, outcome, dropped>>
    BY <1>4 DEF vars, LoadFails, Select, Dispatch, Collect, Analyse, FinalizeManifest, CtxEnds,
       runVars, jobVars
  <2>2. \A f \in Files : Checkpoint(own'.lines, f) = Checkpoint(own.lines, f)
    <3>1. own' \in {own, Buffered(own), Flushed(own)}
      BY <1>4 DEF vars, LoadFails, Select, Dispatch, Collect, Analyse, FinalizeManifest, CtxEnds
    <3> QED BY <3>1, SessionSteps DEF AgentFit, TypesFit, AgentTypeOK
  <2>3. units # {} => phase' = "dispatch"
    <3>1. units # {} => phase = "dispatch"
      BY DEF AgentFit, FindingsFit, UnitsFit
    <3> QED BY <1>4, <3>1 DEF vars, LoadFails, Select, Dispatch, Collect, Analyse,
               FinalizeManifest, CtxEnds
  <2>4. UnitsFit'
    BY <2>1, <2>3 DEF AgentFit, FindingsFit, UnitsFit, UnitFits
  <2>5. Reused' = Reused /\ FindingsReused' = FindingsReused /\ OnTheWay' = OnTheWay
    BY <2>1 DEF Reused, FindingsReused, OnTheWay
  <2>6. SaidFit' /\ Accounted' /\ DistinctOn(collector, Files \ Reused)'
    BY <2>1, <2>5 DEF AgentFit, FindingsFit, SaidFit, Accounted
  <2>7. \A f \in Files : CopiesFit(f)'
    BY <2>1, <2>2 DEF AgentFit, FindingsFit, CopiesFit
  <2> QED BY <2>4, <2>6, <2>7 DEF FindingsFit
<1> QED BY <1>1, <1>2, <1>3, <1>4 DEF Next, RunStep

\* What the attempts keep, they keep in every step.
LEMMA AgentStep ==
  ASSUME SessionAssumption, AgentAssumption, AgentFit, [Next]_vars
  PROVE  AgentFit'
<1>1. TypesFit' /\ PlacesFit' /\ FindingsFit'
  BY TypesStep, PlacesStep, FindingsStep DEF AgentFit
<1>2. \A f \in Files : RecordFits(f)'
  BY RecordsStep DEF AgentFit
<1> QED BY <1>1, <1>2 DEF AgentFit, RecordsFit

\* It is so in every state the attempts reach.
LEMMA AgentAlwaysFit == Spec => []AgentFit
<1>1. Init => AgentFit
  BY SessionAssumption, AgentAssumption, TypesInit, PlacesInit, RecordsInit, FindingsInit
     DEF AgentFit
<1>2. AgentFit /\ [Next]_vars => AgentFit'
  BY SessionAssumption, AgentAssumption, AgentStep
<1> QED BY <1>1, <1>2, PTL DEF Spec

-----------------------------------------------------------------------------
(* What the attempts promise.                                              *)

\* For any files, concurrency and number of findings, the collector holds
\* what was said and is neither on its way nor lost, and what was reused: the
\* filter's indices remove what the model was shown, whatever other files'
\* comments arrive between its reading and its removing.
THEOREM CommentsAlwaysAccounted == Spec => []CommentsAccounted
<1>1. AgentFit => CommentsAccounted
  BY DEF AgentFit, FindingsFit, Accounted, CommentsAccounted, OnTheWay
<1> QED BY <1>1, AgentAlwaysFit, PTL

\* The checkpoint of a completed file says what the collector has for it, the
\* manifest and the file of a session agree on what is covered, and a review
\* that lets the merge request pass was earned on every file.
THEOREM OutcomesAlwaysAgree == Spec => []OutcomesAgree
<1>1. ASSUME AgentFit PROVE OutcomesAgree
  <2>1. AgentTypeOK /\ CompletedIsRecorded
    BY <1>1 DEF AgentFit, TypesFit, FindingsFit, CopiesFit, CompletedIsRecorded
  <2>2. outcome \in [Files -> {"selected", "failed"} \union Covered]
    BY <2>1 DEF AgentTypeOK
  <2>3. CoverageMatchesRecords
    <3>1. SUFFICES ASSUME Ended, NEW f \in Files
                   PROVE  outcome[f] \in Covered <=> Checkpoint(own.lines, f) # NoItem
      BY DEF CoverageMatchesRecords
    <3>2. RecordFits(f) /\ outcome[f] # "selected"
      BY <1>1, <3>1 DEF AgentFit, RecordsFit, Ended
    <3> QED BY <2>2, <3>2 DEF RecordFits
  <2>4. PassIsEarned
    <3>1. SUFFICES ASSUME Ended, ~IsBlocking
                   PROVE  finished \union Reused = Files /\ said \subseteq dropped
      BY DEF PassIsEarned
    <3>2. \A f \in Files : outcome[f] \in Covered
      BY <2>2, <3>1 DEF Ended, IsBlocking, CoverageIncomplete
    <3>3. \A f \in Files : f \in finished \/ f \in Reused
      BY <1>1, <3>2 DEF AgentFit, RecordsFit, RecordFits, Reused, Covered
    <3>4. finished \union Reused = Files
      BY <2>1, <3>3 DEF AgentTypeOK, Reused
    <3>5. ToSet(collector) = {} /\ OnTheWay = {}
      BY <1>1, <3>1 DEF IsBlocking, ToSet, AgentFit, FindingsFit, UnitsFit, OnTheWay, Ended
    <3>6. said \subseteq dropped
      BY <1>1, <3>5 DEF AgentFit, FindingsFit, Accounted
    <3> QED BY <3>4, <3>6
  <2> QED BY <2>1, <2>3, <2>4 DEF OutcomesAgree
<1> QED BY <1>1, AgentAlwaysFit, PTL

\* No step of an attempt takes from a file that can be read a checkpoint that
\* an earlier one wrote.
THEOREM CheckpointsAreKept == Spec => CheckpointsKept
<1>1. AgentFit /\ [Next]_vars =>
        [~own.torn => \A f \in Files :
           Checkpoint(own.lines, f) # NoItem => Checkpoint(own'.lines, f) # NoItem]_vars
  BY SessionAssumption, RecordsStep DEF AgentFit
<1> QED BY <1>1, AgentAlwaysFit, PTL DEF Spec, CheckpointsKept

-----------------------------------------------------------------------------
(* The lines of a session's file.                                          *)

\* What a session keeps of the findings of f.
FindingsOf(f) == Seq([path : {f}, id : Nat])

\* One decision of a reconciliation.
Ruling == [was : SUBSET Finding, is : SUBSET Finding,
            status : {"fixed", "unfixed", "new"}]

\* The lines of review items, of the start and end of a session, of the calls
\* of the model, of a reconciliation, and what is no line.
ItemLine(f) ==
  [type : {"done", "reused", "failed"}, path : {f}, comments : FindingsOf(f)]

ItemLines == UNION {ItemLine(f) : f \in Reviewed}

StartLines ==
  [type : {"session_start"}, path : {NoItem}, from : Jobs \union {NoJob}]

CallLines == [type : {"llm_request", "llm_error"}, path : Reviewed, task : Tasks]

ResponseLines ==
  [type : {"llm_response"}, path : Reviewed, task : Tasks, blank : BOOLEAN]

DecisionLines ==
  [type : {"finding_reconciliation"}, path : {NoItem}, decisions : Seq(Ruling)]

OtherLines == [type : {"session_end", "garbage", "fragment"}, path : {NoItem}]

\* A line of a session's file.
LogLine ==
  UNION {ItemLines, StartLines, CallLines, ResponseLines, DecisionLines, OtherLines}

\* The lines appendResumeEvent writes.
IsItem(line) == line.type \in {"done", "reused", "failed"}

\* What the type of a line says of it.
LineFits(line) ==
  /\ IsItem(line) => line.path \in Reviewed /\ line.comments \in FindingsOf(line.path)
  /\ line.type \in {"llm_request", "llm_response"} =>
       line.path \in Reviewed /\ line.task \in Tasks
  /\ line.type = "llm_response" => line.blank \in BOOLEAN
  /\ line.type = "finding_reconciliation" => line.decisions \in Seq(Ruling)
  /\ line.type = "session_start" => line.from \in Jobs \union {NoJob}
  /\ line.type # "fragment" => line # Fragment

\* Every line is of one of the types.
LEMMA LinesAreTyped ==
  ASSUME NEW line \in LogLine
  PROVE  LineFits(line)
<1>1. CASE \E f \in Reviewed : line \in ItemLine(f)
  <2>1. PICK f \in Reviewed : line \in ItemLine(f)
    BY <1>1
  <2>2. /\ line.type \in {"done", "reused", "failed"} /\ line.path = f
        /\ line.comments \in FindingsOf(f)
    BY <2>1 DEF ItemLine
  <2> QED BY <2>2 DEF LineFits, Fragment
<1>2. CASE line \in StartLines
  BY <1>2 DEF LineFits, IsItem, Fragment, StartLines
<1>3. CASE line \in CallLines
  BY <1>3 DEF LineFits, IsItem, Fragment, CallLines
<1>4. CASE line \in ResponseLines
  BY <1>4 DEF LineFits, IsItem, Fragment, ResponseLines
<1>5. CASE line \in DecisionLines
  <2>1. line.type = "finding_reconciliation" /\ line.decisions \in Seq(Ruling)
    BY <1>5 DEF DecisionLines
  <2> QED BY <2>1 DEF LineFits, IsItem, Fragment
<1>6. CASE line \in OtherLines
  BY <1>6 DEF LineFits, IsItem, Fragment, OtherLines
<1> QED BY <1>1, <1>2, <1>3, <1>4, <1>5, <1>6 DEF LogLine, ItemLines

\* The lines a review writes are of those types.
LEMMA WrittenLines ==
  /\ \A from \in Jobs \union {NoJob} : Start(from) \in LogLine
  /\ \A f \in Reviewed, t \in Tasks :
       /\ [type |-> "llm_request", path |-> f, task |-> t] \in LogLine
       /\ [type |-> "llm_error", path |-> f, task |-> t] \in LogLine
       /\ \A blank \in BOOLEAN :
            [type |-> "llm_response", path |-> f, task |-> t, blank |-> blank] \in LogLine
  /\ \A f \in Reviewed : \A type \in {"done", "reused", "failed"} :
       \A comments \in FindingsOf(f) :
       [type |-> type, path |-> f, comments |-> comments] \in LogLine
  /\ \A order \in Seq(Ruling) :
       [type |-> "finding_reconciliation", path |-> NoItem, decisions |-> order]
         \in LogLine
  /\ [type |-> "session_end", path |-> NoItem] \in LogLine
  /\ Garbage \in LogLine /\ Fragment \in LogLine
<1>1. ASSUME NEW f \in Reviewed, NEW type \in {"done", "reused", "failed"},
             NEW comments \in FindingsOf(f)
      PROVE  [type |-> type, path |-> f, comments |-> comments] \in LogLine
  <2>1. [type |-> type, path |-> f, comments |-> comments] \in ItemLine(f)
    BY DEF ItemLine
  <2> QED BY <2>1 DEF LogLine, ItemLines
<1>2. ASSUME NEW order \in Seq(Ruling)
      PROVE  [type |-> "finding_reconciliation", path |-> NoItem, decisions |-> order]
               \in LogLine
  <2>1. [type |-> "finding_reconciliation", path |-> NoItem, decisions |-> order]
          \in DecisionLines
    BY DEF DecisionLines
  <2> QED BY <2>1 DEF LogLine
<1>3. ASSUME NEW from \in Jobs \union {NoJob}
      PROVE  Start(from) \in LogLine
  <2>1. Start(from) \in StartLines
    BY DEF StartLines, Start
  <2> QED BY <2>1 DEF LogLine
<1>4. ASSUME NEW f \in Reviewed, NEW t \in Tasks
      PROVE  /\ [type |-> "llm_request", path |-> f, task |-> t] \in LogLine
             /\ [type |-> "llm_error", path |-> f, task |-> t] \in LogLine
  <2>1. /\ [type |-> "llm_request", path |-> f, task |-> t] \in CallLines
        /\ [type |-> "llm_error", path |-> f, task |-> t] \in CallLines
    BY DEF CallLines
  <2> QED BY <2>1 DEF LogLine
<1>5. ASSUME NEW f \in Reviewed, NEW t \in Tasks, NEW blank \in BOOLEAN
      PROVE  [type |-> "llm_response", path |-> f, task |-> t, blank |-> blank]
               \in LogLine
  <2>1. [type |-> "llm_response", path |-> f, task |-> t, blank |-> blank]
          \in ResponseLines
    BY DEF ResponseLines
  <2> QED BY <2>1 DEF LogLine
<1>6. /\ [type |-> "session_end", path |-> NoItem] \in LogLine
      /\ Garbage \in LogLine /\ Fragment \in LogLine
  <2>1. /\ [type |-> "session_end", path |-> NoItem] \in OtherLines
        /\ Garbage \in OtherLines /\ Fragment \in OtherLines
    BY DEF OtherLines, Garbage, Fragment
  <2> QED BY <2>1 DEF LogLine
<1> QED BY <1>1, <1>2, <1>3, <1>4, <1>5, <1>6

\* A line reused with comments is the first review of its file.
ReusedFirst(lines) ==
  \A i, n \in DOMAIN lines :
    /\ i < n /\ lines[i].type \in {"done", "reused"}
    /\ lines[n].type = "reused" /\ lines[n].comments # <<>>
    => lines[i].path # lines[n].path

\* A line of a call for file f and task t.
OfCall(line, f, t, type) == line.type = type /\ line.path = f /\ line.task = t

\* A request of f and t is among the first n lines, and no response since.
Asked(lines, f, t, n) ==
  \E l \in 1..n :
    /\ OfCall(lines[l], f, t, "llm_request")
    /\ \A i \in (l + 1)..n : ~OfCall(lines[i], f, t, "llm_response")

\* Each response has a request of its own.
Paired(lines) ==
  \A n \in DOMAIN lines :
    lines[n].type = "llm_response" => Asked(lines, lines[n].path, lines[n].task, n - 1)

\* What is true of every file, whether or not requests have overlapped.
LinesFit(lines, overlapped) ==
  /\ lines \in Seq(LogLine) /\ ReusedFirst(lines)
  /\ ~overlapped => Paired(lines)

\* less is the beginning of lines.
Begins(less, lines) ==
  Len(less) <= Len(lines) /\ \A i \in 1..Len(less) : less[i] = lines[i]

\* Fewer lines ask no less, up to where they agree.
LEMMA AskedInBoth ==
  ASSUME NEW less \in Seq(LogLine), NEW lines \in Seq(LogLine), NEW n \in Nat,
         \A i \in 1..n : less[i] = lines[i], NEW f, NEW t
  PROVE  Asked(less, f, t, n) <=> Asked(lines, f, t, n)
<1>1. ASSUME NEW l \in 1..n PROVE (l + 1)..n \subseteq 1..n
  OBVIOUS
<1>2. \A i \in 1..n, type \in {"llm_request", "llm_response"} :
        OfCall(less[i], f, t, type) <=> OfCall(lines[i], f, t, type)
  OBVIOUS
<1> QED BY <1>1, <1>2 DEF Asked

\* The beginning of a file is as good as the file.
LEMMA BeginningFits ==
  ASSUME NEW lines, NEW less \in Seq(LogLine), NEW overlapped \in BOOLEAN,
         LinesFit(lines, overlapped), Begins(less, lines)
  PROVE  LinesFit(less, overlapped)
<1>1. lines \in Seq(LogLine) /\ Len(less) \in Nat /\ Len(lines) \in Nat
  BY DEF LinesFit
<1>2. /\ DOMAIN less \subseteq DOMAIN lines /\ DOMAIN less \subseteq Nat \ {0}
      /\ \A i \in DOMAIN less : less[i] = lines[i]
      /\ \A i \in DOMAIN less : \A k \in 1..(i - 1) : less[k] = lines[k]
  BY <1>1 DEF Begins
<1>3. ReusedFirst(less)
  BY <1>2 DEF ReusedFirst, LinesFit
<1>4. ASSUME Paired(lines) PROVE Paired(less)
  <2>1. SUFFICES ASSUME NEW n \in DOMAIN less, less[n].type = "llm_response"
                 PROVE  Asked(less, less[n].path, less[n].task, n - 1)
    BY DEF Paired
  <2>2. Asked(lines, less[n].path, less[n].task, n - 1)
    BY <1>2, <1>4, <2>1 DEF Paired
  <2>3. n - 1 \in Nat /\ \A i \in 1..(n - 1) : less[i] = lines[i]
    BY <1>2
  <2> QED BY <1>1, <2>2, <2>3, AskedInBoth
<1> QED BY <1>3, <1>4 DEF LinesFit

\* What a further line must be like.
MayFollow(lines, line, overlapped) ==
  /\ line.type = "reused" /\ line.comments # <<>> =>
       \A i \in DOMAIN lines : lines[i].type \in {"done", "reused"} =>
         lines[i].path # line.path
  /\ ~overlapped /\ line.type = "llm_response" =>
       Asked(lines, line.path, line.task, Len(lines))

\* A line like that is added.
LEMMA LineAdded ==
  ASSUME NEW lines, NEW line \in LogLine, NEW overlapped \in BOOLEAN,
         LinesFit(lines, overlapped), MayFollow(lines, line, overlapped)
  PROVE  LinesFit(Append(lines, line), overlapped)
<1> DEFINE more == Append(lines, line)
<1>1. lines \in Seq(LogLine) /\ Len(lines) \in Nat
  BY DEF LinesFit
<1>2. /\ more \in Seq(LogLine) /\ Len(more) = Len(lines) + 1
      /\ more[Len(lines) + 1] = line /\ \A i \in 1..Len(lines) : more[i] = lines[i]
      /\ DOMAIN more = 1..(Len(lines) + 1) /\ DOMAIN lines = 1..Len(lines)
  BY <1>1
<1> HIDE DEF more
<1>3. ReusedFirst(more)
  <2>1. SUFFICES ASSUME NEW i \in DOMAIN more, NEW n \in DOMAIN more, i < n,
                        more[i].type \in {"done", "reused"},
                        more[n].type = "reused", more[n].comments # <<>>
                 PROVE  more[i].path # more[n].path
    BY DEF ReusedFirst
  <2>2. i \in DOMAIN lines /\ more[i] = lines[i]
    BY <1>1, <1>2, <2>1
  <2>3. CASE n = Len(lines) + 1
    BY <1>2, <2>1, <2>2, <2>3 DEF MayFollow
  <2>4. CASE n # Len(lines) + 1
    <3>1. n \in DOMAIN lines /\ more[n] = lines[n]
      BY <1>1, <1>2, <2>4
    <3> QED BY <2>1, <2>2, <3>1 DEF LinesFit, ReusedFirst
  <2> QED BY <2>3, <2>4
<1>4. ASSUME ~overlapped PROVE Paired(more)
  <2>1. SUFFICES ASSUME NEW n \in DOMAIN more, more[n].type = "llm_response"
                 PROVE  Asked(more, more[n].path, more[n].task, n - 1)
    BY DEF Paired
  <2>2. n - 1 \in Nat /\ \A i \in 1..(n - 1) : lines[i] = more[i]
    BY <1>1, <1>2
  <2>3. Asked(lines, more[n].path, more[n].task, n - 1)
    <3>1. CASE n = Len(lines) + 1
      <4>1. n - 1 = Len(lines) /\ more[n] = line
        BY <1>1, <1>2, <3>1
      <4> QED BY <1>4, <2>1, <4>1 DEF MayFollow
    <3>2. CASE n # Len(lines) + 1
      <4>1. n \in DOMAIN lines /\ more[n] = lines[n]
        BY <1>1, <1>2, <3>2
      <4> QED BY <1>4, <2>1, <4>1 DEF LinesFit, Paired
    <3> QED BY <3>1, <3>2
  <2> QED BY <1>1, <1>2, <2>2, <2>3, AskedInBoth
<1> QED BY <1>2, <1>3, <1>4 DEF LinesFit, more

\* The lines so far and what a line of no review and no call adds.
LEMMA InertAdded ==
  ASSUME NEW lines, NEW line \in LogLine, NEW overlapped \in BOOLEAN,
         LinesFit(lines, overlapped), line.type \notin {"reused", "llm_response"}
  PROVE  LinesFit(Append(lines, line), overlapped)
BY LineAdded DEF MayFollow

-----------------------------------------------------------------------------
(* What is appended to a file.                                             *)

\* The lines of a review that are not in the file yet.
Whole(buffer) == buffer \in Seq(LogLine) /\ \A i \in DOMAIN buffer : buffer[i] # Fragment

\* A sequence without its last element.
LEMMA FrontOfSeq ==
  ASSUME NEW S, NEW s \in Seq(S), s # <<>>
  PROVE  /\ Front(s) \in Seq(S) /\ Len(Front(s)) = Len(s) - 1
         /\ \A i \in 1..(Len(s) - 1) : Front(s)[i] = s[i]
         /\ Len(s) \in Nat \ {0} /\ DOMAIN s = 1..Len(s) /\ Last(s) = s[Len(s)]
<1>1. Len(s) \in Nat \ {0} /\ DOMAIN s = 1..Len(s)
  OBVIOUS
<1>2. Front(s) = [i \in 1..(Len(s) - 1) |-> s[i]]
  BY <1>1 DEF Front
<1>3. \A i \in 1..(Len(s) - 1) : s[i] \in S
  OBVIOUS
<1>4. Front(s) \in Seq(S) /\ Len(Front(s)) = Len(s) - 1
  BY <1>1, <1>2, <1>3
<1> QED BY <1>1, <1>2, <1>4 DEF Last

\* The whole lines before a fragment.
LEMMA FrontOfLines ==
  ASSUME NEW lines \in Seq(LogLine), lines # <<>>
  PROVE  Front(lines) \in Seq(LogLine) /\ Begins(Front(lines), lines)
BY FrontOfSeq DEF Begins

\* Lines are appended one after the other.
LEMMA OntoFits ==
  ASSUME NEW lines \in Seq(LogLine), NEW more \in Seq(LogLine)
  PROVE  Onto(lines, more) \in Seq(LogLine)
<1>1. CASE more # <<>> /\ Torn(lines)
  <2>1. Front(lines) \in Seq(LogLine) /\ <<Garbage>> \in Seq(LogLine)
    BY <1>1, FrontOfLines, WrittenLines DEF Torn
  <2>2. Tail(more) \in Seq(LogLine)
    BY <1>1
  <2> QED BY <1>1, <2>1, <2>2 DEF Onto
<1> QED BY <1>1 DEF Onto

\* A line that follows others in the buffer, or a file that is not torn.
LEMMA OntoAppends ==
  ASSUME NEW lines \in Seq(LogLine), NEW buffer \in Seq(LogLine), NEW line \in LogLine,
         Torn(lines) => buffer # <<>>
  PROVE  Onto(lines, Append(buffer, line)) = Append(Onto(lines, buffer), line)
<1>1. Append(buffer, line) # <<>>
  OBVIOUS
<1>2. CASE Torn(lines)
  <2> DEFINE whole == Front(lines) \o <<Garbage>>
  <2>1. Front(lines) \in Seq(LogLine) /\ Garbage \in LogLine /\ buffer # <<>>
    BY <1>2, FrontOfLines, WrittenLines DEF Torn
  <2>2. whole \in Seq(LogLine)
    BY <2>1
  <2>3. Tail(Append(buffer, line)) = Append(Tail(buffer), line)
        /\ Tail(buffer) \in Seq(LogLine)
    BY <2>1
  <2>4. /\ Onto(lines, buffer) = whole \o Tail(buffer)
        /\ Onto(lines, Append(buffer, line)) = whole \o Append(Tail(buffer), line)
    BY <1>1, <1>2, <2>1, <2>3 DEF Onto
  <2> HIDE DEF whole
  <2>5. whole \o Append(Tail(buffer), line) = Append(whole \o Tail(buffer), line)
    BY <2>2, <2>3
  <2> QED BY <2>4, <2>5
<1>3. CASE ~Torn(lines)
  <2>1. Onto(lines, buffer) = lines \o buffer
        /\ Onto(lines, Append(buffer, line)) = lines \o Append(buffer, line)
    BY <1>3 DEF Onto
  <2> QED BY <2>1
<1> QED BY <1>2, <1>3

\* The first line of the buffer is written: the rest follows it.
LEMMA OntoSpills ==
  ASSUME NEW lines \in Seq(LogLine), NEW buffer, Whole(buffer), buffer # <<>>
  PROVE  LET written == Onto(lines, <<Head(buffer)>>)
         IN  /\ written \in Seq(LogLine) /\ ~Torn(written)
             /\ Onto(written, Tail(buffer)) = Onto(lines, buffer)
             /\ Begins(written, Onto(lines, buffer))
             /\ Whole(Tail(buffer))
<1> DEFINE written == Onto(lines, <<Head(buffer)>>)
<1>1. /\ buffer \in Seq(LogLine) /\ Head(buffer) \in LogLine
      /\ Tail(buffer) \in Seq(LogLine) /\ Len(buffer) \in Nat \ {0}
      /\ Head(buffer) = buffer[1] /\ buffer[1] # Fragment
      /\ \A i \in DOMAIN Tail(buffer) : i + 1 \in DOMAIN buffer
           /\ Tail(buffer)[i] = buffer[i + 1]
  BY DEF Whole
<1>2. Whole(Tail(buffer))
  BY <1>1 DEF Whole
<1>3. PICK start \in Seq(LogLine) : \E line \in LogLine :
        /\ written = Append(start, line) /\ line # Fragment
        /\ Onto(lines, buffer) = Append(start, line) \o Tail(buffer)
  <2>1. CASE Torn(lines)
    <3>1. Front(lines) \in Seq(LogLine) /\ Garbage \in LogLine /\ Garbage # Fragment
      BY <2>1, FrontOfLines, WrittenLines DEF Torn, Garbage, Fragment
    <3>2. /\ <<Head(buffer)>> # <<>> /\ Tail(<<Head(buffer)>>) = <<>>
          /\ Front(lines) \o <<Garbage>> = Append(Front(lines), Garbage)
          /\ Append(Front(lines), Garbage) \o <<>> = Append(Front(lines), Garbage)
      BY <1>1, <3>1
    <3>3. written = Append(Front(lines), Garbage)
      BY <2>1, <3>2 DEF Onto
    <3>4. Onto(lines, buffer) = Append(Front(lines), Garbage) \o Tail(buffer)
      BY <2>1, <3>2 DEF Onto
    <3> QED BY <3>1, <3>3, <3>4
  <2>2. CASE ~Torn(lines)
    <3>1. /\ lines \o <<Head(buffer)>> = Append(lines, Head(buffer))
          /\ lines \o buffer = Append(lines, Head(buffer)) \o Tail(buffer)
      BY <1>1
    <3> QED BY <1>1, <2>2, <3>1 DEF Onto
  <2> QED BY <2>1, <2>2
<1>4. PICK line \in LogLine :
        /\ written = Append(start, line) /\ line # Fragment
        /\ Onto(lines, buffer) = Append(start, line) \o Tail(buffer)
  BY <1>3
<1> HIDE DEF written
<1>5. written \in Seq(LogLine) /\ Last(written) = line
  BY <1>4 DEF Last
<1>6. ~Torn(written)
  BY <1>4, <1>5 DEF Torn
<1>7. Onto(written, Tail(buffer)) = written \o Tail(buffer)
  BY <1>6 DEF Onto
<1>8. Begins(written, written \o Tail(buffer))
  BY <1>1, <1>5 DEF Begins
<1> QED BY <1>2, <1>4, <1>5, <1>6, <1>7, <1>8 DEF written

\* A set of positions that is not empty has a last one.
LEMMA LastPosition ==
  ASSUME NEW n \in Nat, NEW S \in SUBSET (1..n), S # {}
  PROVE  LET last == CHOOSE i \in S : \A k \in S : k <= i
         IN  last \in S /\ \A k \in S : k <= last
<1> DEFINE Beyond == {m \in Nat : \A k \in S : k <= m}
<1>1. n \in Beyond /\ Beyond \in SUBSET Nat
  OBVIOUS
<1>2. PICK m \in Beyond : \A b \in Beyond : m <= b
  <2> HIDE DEF Beyond
  <2> QED BY <1>1, LeastNumber
<1>3. m \in S
  <2>1. SUFFICES ASSUME m \notin S PROVE FALSE
    OBVIOUS
  <2>2. \A k \in S : k <= m - 1 /\ m - 1 \in Nat
    BY <1>2, <2>1
  <2>3. m - 1 \in Beyond
    BY <2>2
  <2> QED BY <1>2, <2>3
<1>4. \A k \in S : k <= m
  BY <1>2
<1> QED BY <1>3, <1>4

\* The last line that reports on f, if there is one.
LEMMA LatestFound ==
  ASSUME NEW lines \in Seq(LogLine), NEW f \in Reviewed
  PROVE  \/ /\ \A i \in DOMAIN lines : ~Reports(lines[i], f)
            /\ LatestComments(lines, f) = NoItem
         \/ \E i \in DOMAIN lines :
              /\ Reports(lines[i], f)
              /\ \A k \in DOMAIN lines : Reports(lines[k], f) => k <= i
              /\ LatestComments(lines, f) = lines[i].comments
              /\ lines[i].comments \in FindingsOf(f)
<1> DEFINE mine == {i \in DOMAIN lines : Reports(lines[i], f)}
           last == CHOOSE i \in mine : \A k \in mine : k <= i
<1>1. LatestComments(lines, f) = IF mine = {} THEN NoItem ELSE lines[last].comments
  BY DEF LatestComments
<1>2. Len(lines) \in Nat /\ DOMAIN lines = 1..Len(lines)
      /\ \A i \in DOMAIN lines : lines[i] \in LogLine
  OBVIOUS
<1>3. CASE mine = {}
  BY <1>1, <1>3
<1>4. CASE mine # {}
  <2>1. mine \in SUBSET (1..Len(lines))
    BY <1>2
  <2>2. last \in mine /\ \A k \in mine : k <= last
    <3> HIDE DEF mine
    <3> QED BY <1>2, <1>4, <2>1, LastPosition
  <2>3. last \in DOMAIN lines /\ Reports(lines[last], f)
    <3> HIDE DEF last
    <3> QED BY <2>2
  <2>4. LineFits(lines[last])
    BY <1>2, <2>3, LinesAreTyped
  <2>5. lines[last].comments \in FindingsOf(f)
    <3> HIDE DEF last
    <3> QED BY <2>3, <2>4 DEF LineFits, IsItem, Reports
  <2>6. \A k \in DOMAIN lines : Reports(lines[k], f) => k <= last
    <3> HIDE DEF last
    <3> QED BY <2>2
  <2> HIDE DEF last
  <2> QED BY <1>1, <1>4, <2>3, <2>5, <2>6
<1> QED BY <1>3, <1>4

\* What a function makes of a finite set is finite.
LEMMA ImageFinite ==
  ASSUME NEW S, IsFiniteSet(S), NEW h
  PROVE  IsFiniteSet({h[x] : x \in S})
<1> DEFINE T == {h[x] : x \in S}
           g == [x \in S |-> h[x]]
<1>1. g \in Surjection(S, T)
  BY DEF Surjection
<1> HIDE DEF g, T
<1>2. IsFiniteSet(T)
  BY <1>1, FS_Surjection
<1> QED BY <1>2 DEF T

\* The findings of a file.
LEMMA FindingsTyped ==
  ASSUME NEW f \in Reviewed, NEW comments \in FindingsOf(f)
  PROVE  /\ comments \in Seq(Finding) /\ comments # NoItem
         /\ ToSet(comments) \in SUBSET Finding /\ IsFiniteSet(ToSet(comments))
<1>1. f \in Files
  BY ReportAssumption
<1>2. [path : {f}, id : Nat] \subseteq Finding
  BY <1>1 DEF Finding
<1>3. comments \in Seq(Finding)
  <2> DEFINE mine == [path : {f}, id : Nat]
  <2>1. mine \subseteq Finding /\ comments \in Seq(mine)
    BY <1>2 DEF FindingsOf
  <2> HIDE DEF mine
  <2> QED BY <2>1
<1>4. Len(comments) \in Nat /\ DOMAIN comments = 1..Len(comments)
      /\ \A i \in 1..Len(comments) : comments[i] \in Finding
  BY <1>3
<1>5. IsFiniteSet({comments[i] : i \in 1..Len(comments)})
  <2>1. IsFiniteSet(1..Len(comments))
    BY <1>4, FS_Interval
  <2> QED BY <2>1, ImageFinite
<1> QED BY <1>3, <1>4, <1>5, SessionAssumption DEF ToSet

\* What LatestComments is.
LEMMA LatestTyped ==
  ASSUME NEW lines \in Seq(LogLine), NEW f \in Reviewed
  PROVE  LatestComments(lines, f) \in Items(f)
BY LatestFound DEF Items, FindingsOf

\* The comments a line brings are a checkpoint of its file.
LEMMA CheckpointTyped ==
  ASSUME NEW lines \in Seq(LogLine), NEW f \in Reviewed
  PROVE  Checkpoint(ItemsOnly(lines), f) \in Items(f)
<1> DEFINE items == ItemsOnly(lines)
           n == Len(lines)
<1>1. n \in Nat /\ DOMAIN lines = 1..n
  OBVIOUS
<1>2. items = [i \in 1..n |-> IF IsItem(lines[i]) THEN lines[i] ELSE Garbage]
  BY <1>1 DEF ItemsOnly, IsItem
<1>3. /\ items \in Seq(LogLine) /\ Len(items) = n
      /\ \A i \in 1..n : /\ lines[i] \in LogLine
                         /\ items[i] = IF IsItem(lines[i]) THEN lines[i] ELSE Garbage
  <2>1. \A i \in 1..n : lines[i] \in LogLine /\ Garbage \in LogLine
    BY <1>1, WrittenLines
  <2> QED BY <1>1, <1>2, <2>1
<1>4. \A i \in 1..n : items[i].path = f =>
        IsItem(items[i]) /\ items[i].comments \in FindingsOf(f)
  <2>1. TAKE i \in 1..n
  <2>2. f # NoItem
    BY ReportAssumption
  <2>3. LineFits(lines[i])
    BY <1>3, LinesAreTyped
  <2> HIDE DEF items, n
  <2> QED BY <1>3, <2>2, <2>3 DEF Garbage, LineFits
<1> HIDE DEF items, n
<1>5. PICK g : Unfolds(g, items, f, n)
  BY <1>1, UnfoldsExists
<1>6. Checkpoint(items, f) = g[n]
  BY <1>1, <1>3, <1>5, CheckpointUnfolds
<1>7. \A m \in 0..n : g[m] \in Items(f)
  <2> DEFINE Wrong == {m \in 0..n : g[m] \notin Items(f)}
  <2>1. SUFFICES ASSUME Wrong # {} PROVE FALSE
    OBVIOUS
  <2>2. PICK m \in Wrong : \A k \in Wrong : m <= k
    <3>1. Wrong \in SUBSET Nat
      OBVIOUS
    <3> HIDE DEF Wrong
    <3> QED BY <2>1, <3>1, LeastNumber
  <2>3. m # 0
    BY <1>5, <2>2 DEF Unfolds, Items
  <2>4. m \in 1..n /\ m - 1 \in 0..n /\ m - 1 \notin Wrong
    BY <1>1, <2>2, <2>3
  <2>5. g[m] = Reads(items, f, m, g[m - 1]) /\ g[m - 1] \in Items(f)
    BY <1>5, <2>4 DEF Unfolds
  <2>6. items[m].path = f => Applied(g[m - 1], items[m]) \in Items(f)
    BY <1>4, <2>4, <2>5 DEF Applied, Items, IsItem, FindingsOf
  <2>7. g[m] \in Items(f)
    BY <2>5, <2>6 DEF Reads
  <2> QED BY <2>2, <2>7
<1> QED BY <1>1, <1>6, <1>7 DEF items

\* The findings of a set of checkpoints are finitely many.
LEMMA FindingsFinite ==
  ASSUME NEW done \in SUBSET Reviewed, NEW of,
         \A f \in done : of[f] \in Items(f)
  PROVE  LET all == UNION {Of(of[f]) : f \in done}
         IN  all \in SUBSET Finding /\ IsFiniteSet(all)
<1>1. \A f \in done : Of(of[f]) \in SUBSET Finding /\ IsFiniteSet(Of(of[f]))
  <2>1. TAKE f \in done
  <2>2. CASE of[f] = NoItem
    BY <2>2, FS_EmptySet DEF Of
  <2>3. CASE of[f] # NoItem
    BY <2>3, FindingsTyped DEF Of, Items, FindingsOf
  <2> QED BY <2>2, <2>3
<1> DEFINE sets == {Of(of[f]) : f \in done}
<1>2. IsFiniteSet(done)
  BY ReportAssumption, FS_Subset
<1>3. IsFiniteSet(sets)
  <2> DEFINE h == [f \in done |-> Of(of[f])]
  <2>1. sets = {h[f] : f \in done}
    OBVIOUS
  <2>2. IsFiniteSet({h[f] : f \in done})
    <3> HIDE DEF h
    <3> QED BY <1>2, ImageFinite
  <2> QED BY <2>1, <2>2
<1>4. \A s \in sets : IsFiniteSet(s) /\ s \in SUBSET Finding
  BY <1>1
<1> HIDE DEF sets
<1>5. IsFiniteSet(UNION sets) /\ UNION sets \in SUBSET Finding
  BY <1>3, <1>4, FS_UNION
<1> QED BY <1>5 DEF sets

\* A finite set can be put in an order.
LEMMA SetInOrder ==
  ASSUME NEW S, IsFiniteSet(S), NEW T, S \subseteq T
  PROVE  SetToSeq(S) \in Seq(T)
<1>1. PICK g : ExistsBijection(1..Cardinality(S), S) /\ Cardinality(S) \in Nat
  BY FS_NatBijection, FS_CountingElements, FS_CardinalityType
<1>2. PICK h : h \in Bijection(1..Cardinality(S), S)
  BY <1>1 DEF ExistsBijection
<1>3. h \in [1..Cardinality(S) -> S] /\ IsInjective(h)
  BY <1>2 DEF Bijection, Injection, Surjection, IsInjective
<1>4. SetToSeq(S) \in [1..Cardinality(S) -> S]
  BY <1>3 DEF SetToSeq
<1> QED BY <1>1, <1>4

\* The decisions of a reconciliation, in either order.
LEMMA DecidedTyped ==
  ASSUME Historical \in SUBSET Finding, IsFiniteSet(Historical),
         Current \in SUBSET Finding, IsFiniteSet(Current),
         NEW fate \in [Historical -> {"fixed", "unfixed", "new"}], NEW link \in Links
  PROVE  /\ Decided(fate, link) \in Seq(Ruling)
         /\ Reverse(Decided(fate, link)) \in Seq(Ruling)
<1> DEFINE old == [h \in Historical |->
              Decision({h}, {p[2] : p \in {q \in link : q[1] = h}},
                       IF \E p \in link : p[1] = h THEN "unfixed" ELSE fate[h])]
           fresh == [c \in Current |-> Decision({}, {c}, "new")]
           kept == Current \ {p[2] : p \in link}
<1>1. \A p \in link : p[1] \in Historical /\ p[2] \in Current
  BY DEF Links
<1>2. ASSUME NEW h \in Historical PROVE old[h] \in Ruling
  <2>1. {p[2] : p \in {q \in link : q[1] = h}} \in SUBSET Finding
    BY <1>1
  <2>2. {h} \in SUBSET Finding
    OBVIOUS
  <2> QED BY <2>1, <2>2 DEF Decision, Ruling
<1>3. ASSUME NEW c \in Current PROVE fresh[c] \in Ruling
  BY DEF Decision, Ruling
<1>4. IsFiniteSet({old[h] : h \in Historical})
  <2> HIDE DEF old
  <2> QED BY ImageFinite
<1>5. IsFiniteSet({fresh[c] : c \in kept})
  <2>1. IsFiniteSet(kept)
    BY FS_Subset
  <2> HIDE DEF fresh, kept
  <2> QED BY <2>1, ImageFinite
<1>6. /\ SetToSeq({old[h] : h \in Historical}) \in Seq(Ruling)
      /\ SetToSeq({fresh[c] : c \in kept}) \in Seq(Ruling)
  <2>1. /\ {old[h] : h \in Historical} \subseteq Ruling
        /\ {fresh[c] : c \in kept} \subseteq Ruling
    <3> HIDE DEF old, fresh
    <3> QED BY <1>2, <1>3
  <2> HIDE DEF old, fresh, kept
  <2> QED BY <1>4, <1>5, <2>1, SetInOrder
<1>7. Decided(fate, link) = SetToSeq({old[h] : h \in Historical})
                              \o SetToSeq({fresh[c] : c \in kept})
  BY DEF Decided
<1> HIDE DEF old, fresh, kept
<1>8. Decided(fate, link) \in Seq(Ruling)
  BY <1>6, <1>7
<1>9. ASSUME NEW s \in Seq(Ruling) PROVE Reverse(s) \in Seq(Ruling)
  <2>1. Len(s) \in Nat /\ \A i \in 1..Len(s) : (Len(s) - i) + 1 \in 1..Len(s)
    OBVIOUS
  <2>2. \A i \in 1..Len(s) : s[(Len(s) - i) + 1] \in Ruling
    BY <2>1
  <2> QED BY <2>1, <2>2 DEF Reverse
<1> QED BY <1>8, <1>9

-----------------------------------------------------------------------------
(* A review and the lines it has written or buffered.                      *)

\* A call of the model under way.
Call == [path : Reviewed, task : Tasks, no : Int]

\* A review under way.
ReviewRecord ==
  [job : Jobs, buffer : Seq(LogLine), appending : BOOLEAN,
   resume : [Reviewed -> {NoItem} \union Seq(Finding)],
   latest : [Reviewed -> {NoItem} \union Seq(Finding)],
   open : SUBSET Call, settled : SUBSET Reviewed, completed : SUBSET Reviewed,
   stage : {"loading", "files", "reconciled"}]

\* Unless requests have overlapped, a file and task has one call under way,
\* and it is answered next.
OpenFits(open, lines, overlapped) ==
  ~overlapped =>
    \A c \in open : /\ \A d \in open : d.path = c.path /\ d.task = c.task => d = c
                    /\ Asked(lines, c.path, c.task, Len(lines))

\* A session that was new has no line of a file that is not settled.
FreshFits(r, lines) ==
  ~r.appending => \A i \in DOMAIN lines : lines[i].type \in {"done", "reused"} =>
                    lines[i].path \in r.settled

\* What the lines of a review say of it.
HistoryFits(r, lines, overlapped) ==
  /\ LinesFit(lines, overlapped) /\ OpenFits(r.open, lines, overlapped)
  /\ FreshFits(r, lines)

\* A review with its file: a torn file is ended by what is still buffered.
ReviewFits(r, file, overlapped) ==
  /\ r \in ReviewRecord
  /\ \A f \in Reviewed : r.resume[f] \in Items(f) /\ r.latest[f] \in Items(f)
  /\ Whole(r.buffer) /\ (Torn(file) => r.buffer # <<>>)
  /\ HistoryFits(r, Onto(file, r.buffer), overlapped)

\* The files of all sessions.
FilesFit ==
  /\ files \in [Jobs -> Seq(LogLine)] /\ created \in SUBSET Jobs
  /\ crossed \in BOOLEAN /\ left \in [reviews : Nat, requests : Nat]
  /\ \A j \in Jobs : LinesFit(files[j], crossed) /\ (j \notin created => files[j] = <<>>)

\* The invariant of the reviews: the file of the review under way fits with
\* what the review has yet to write.
WritingFits ==
  /\ FilesFit
  /\ review # NoJob =>
       review.job \in created /\ ReviewFits(review, files[review.job], crossed)

\* What was asked stays so until a response, and a request asks.
LEMMA AskedNext ==
  ASSUME NEW lines \in Seq(LogLine), NEW line \in LogLine, NEW f, NEW t,
         \/ OfCall(line, f, t, "llm_request")
         \/ Asked(lines, f, t, Len(lines)) /\ ~OfCall(line, f, t, "llm_response")
  PROVE  Asked(Append(lines, line), f, t, Len(Append(lines, line)))
<1> DEFINE n == Len(lines)
           more == Append(lines, line)
<1>1. /\ n \in Nat /\ more \in Seq(LogLine) /\ Len(more) = n + 1 /\ more[n + 1] = line
      /\ \A i \in 1..n : more[i] = lines[i]
  OBVIOUS
<1> HIDE DEF n, more
<1>2. CASE OfCall(line, f, t, "llm_request")
  <2>1. n + 1 \in 1..(n + 1) /\ ((n + 1) + 1)..(n + 1) = {}
    BY <1>1
  <2> QED BY <1>1, <1>2, <2>1 DEF Asked, more
<1>3. CASE Asked(lines, f, t, n) /\ ~OfCall(line, f, t, "llm_response")
  <2>1. PICK l \in 1..n : /\ OfCall(lines[l], f, t, "llm_request")
                          /\ \A i \in (l + 1)..n : ~OfCall(lines[i], f, t, "llm_response")
    BY <1>3 DEF Asked
  <2>2. l \in 1..(n + 1) /\ more[l] = lines[l]
    BY <1>1, <2>1
  <2>3. \A i \in (l + 1)..(n + 1) : ~OfCall(more[i], f, t, "llm_response")
    <3>1. TAKE i \in (l + 1)..(n + 1)
    <3>2. i = n + 1 \/ (i \in (l + 1)..n /\ i \in 1..n)
      BY <1>1, <2>1
    <3> QED BY <1>1, <1>3, <2>1, <3>2
  <2> QED BY <1>1, <2>1, <2>2, <2>3 DEF Asked, more
<1> QED BY <1>2, <1>3 DEF n

\* What a line may do to the open calls.
OpenFollows(open, next, line, overlapped) ==
  ~overlapped =>
    \A c \in next :
      /\ \A d \in next : d.path = c.path /\ d.task = c.task => d = c
      /\ \/ OfCall(line, c.path, c.task, "llm_request")
         \/ c \in open /\ ~OfCall(line, c.path, c.task, "llm_response")

\* A line is written.
LEMMA HistoryGrows ==
  ASSUME NEW r, NEW next, NEW lines, NEW line \in LogLine,
         NEW overlapped \in BOOLEAN, NEW crossing \in BOOLEAN, overlapped => crossing,
         HistoryFits(r, lines, overlapped), MayFollow(lines, line, overlapped),
         next.appending = r.appending, r.settled \subseteq next.settled,
         line.type \in {"done", "reused"} => line.path \in next.settled,
         OpenFollows(r.open, next.open, line, crossing)
  PROVE  HistoryFits(next, Append(lines, line), crossing)
<1>1. lines \in Seq(LogLine)
  BY DEF HistoryFits, LinesFit
<1>2. LinesFit(Append(lines, line), crossing)
  <2>1. LinesFit(Append(lines, line), overlapped)
    BY LineAdded DEF HistoryFits
  <2> QED BY <2>1 DEF LinesFit
<1>3. OpenFits(next.open, Append(lines, line), crossing)
  <2>1. SUFFICES ASSUME ~crossing, NEW c \in next.open
                 PROVE  Asked(Append(lines, line), c.path, c.task,
                              Len(Append(lines, line)))
    BY DEF OpenFits, OpenFollows
  <2>2. \/ OfCall(line, c.path, c.task, "llm_request")
        \/ c \in r.open /\ ~OfCall(line, c.path, c.task, "llm_response")
    BY <2>1 DEF OpenFollows
  <2>3. c \in r.open => Asked(lines, c.path, c.task, Len(lines))
    BY <2>1 DEF HistoryFits, OpenFits
  <2> QED BY <1>1, <2>2, <2>3, AskedNext
<1>4. FreshFits(next, Append(lines, line))
  <2>1. SUFFICES ASSUME ~next.appending, NEW i \in DOMAIN Append(lines, line),
                        Append(lines, line)[i].type \in {"done", "reused"}
                 PROVE  Append(lines, line)[i].path \in next.settled
    BY DEF FreshFits
  <2>2. \/ i \in DOMAIN lines /\ Append(lines, line)[i] = lines[i]
        \/ Append(lines, line)[i] = line
    BY <1>1, <2>1
  <2> QED BY <2>1, <2>2 DEF HistoryFits, FreshFits
<1> QED BY <1>2, <1>3, <1>4 DEF HistoryFits

\* Before the first review.
LEMMA WritingInit == ReportInit => WritingFits
<1> SUFFICES ASSUME ReportInit PROVE WritingFits
  OBVIOUS
<1>1. <<>> \in Seq(LogLine) /\ DOMAIN <<>> = {}
  OBVIOUS
<1>2. \A over \in BOOLEAN : LinesFit(<<>>, over)
  BY <1>1 DEF LinesFit, ReusedFirst, Paired
<1>3. left \in [reviews : Nat, requests : Nat]
  BY ReportAssumption DEF ReportInit
<1> QED BY <1>1, <1>2, <1>3 DEF ReportInit, WritingFits, FilesFit

\* The file of the review under way with what it has buffered.
Written == Onto(files[review.job], review.buffer)

\* What is known of a review under way.
LEMMA ReviewUnderWay ==
  ASSUME WritingFits, review # NoJob
  PROVE  /\ review.job \in Jobs /\ files[review.job] \in Seq(LogLine)
         /\ review \in ReviewRecord /\ Whole(review.buffer)
         /\ review.buffer \in Seq(LogLine)
         /\ Torn(files[review.job]) => review.buffer # <<>>
         /\ HistoryFits(review, Written, crossed) /\ Written \in Seq(LogLine)
         /\ ReviewFits(review, files[review.job], crossed)
         /\ LinesFit(files[review.job], crossed) /\ crossed \in BOOLEAN
<1>1. ReviewFits(review, files[review.job], crossed)
  BY DEF WritingFits
<1>2. review \in ReviewRecord
  BY <1>1 DEF ReviewFits
<1>3. review.job \in Jobs
  BY <1>2 DEF ReviewRecord
<1>4. /\ Whole(review.buffer) /\ (Torn(files[review.job]) => review.buffer # <<>>)
      /\ HistoryFits(review, Written, crossed)
  BY <1>1 DEF ReviewFits, Written
<1>5. Written \in Seq(LogLine)
  BY <1>4 DEF HistoryFits, LinesFit
<1>6. files[review.job] \in Seq(LogLine) /\ review.buffer \in Seq(LogLine)
  BY <1>3, <1>4 DEF WritingFits, FilesFit, Whole
<1>7. LinesFit(files[review.job], crossed) /\ crossed \in BOOLEAN
  BY <1>3 DEF WritingFits, FilesFit
<1> QED BY <1>1, <1>2, <1>3, <1>4, <1>5, <1>6, <1>7

\* A line of the traffic with the model is buffered.
LEMMA LineBuffered ==
  ASSUME WritingFits, review # NoJob, NEW line \in LogLine, NEW open \in SUBSET Call,
         line.type \notin {"done", "reused", "fragment"},
         crossed' \in BOOLEAN, crossed => crossed',
         left' \in [reviews : Nat, requests : Nat],
         review' = [review EXCEPT !.open = open, !.buffer = Append(@, line)],
         UNCHANGED <<files, created>>,
         MayFollow(Written, line, crossed),
         OpenFollows(review.open, open, line, crossed')
  PROVE  WritingFits'
<1>1. /\ review.job \in Jobs /\ files[review.job] \in Seq(LogLine)
      /\ review \in ReviewRecord /\ Whole(review.buffer)
      /\ review.buffer \in Seq(LogLine)
      /\ Torn(files[review.job]) => review.buffer # <<>>
      /\ HistoryFits(review, Written, crossed) /\ crossed \in BOOLEAN
      /\ ReviewFits(review, files[review.job], crossed)
  BY ReviewUnderWay
<1>2. line # Fragment
  BY LinesAreTyped DEF LineFits
<1>3. /\ review' \in ReviewRecord /\ review'.buffer = Append(review.buffer, line)
      /\ review'.open = open /\ review'.job = review.job
      /\ review'.appending = review.appending /\ review'.settled = review.settled
      /\ review'.resume = review.resume /\ review'.latest = review.latest
  <2> DEFINE buffer == Append(review.buffer, line)
  <2>1. buffer \in Seq(LogLine) /\ review \in ReviewRecord
    BY <1>1
  <2>2. review' = [review EXCEPT !.open = open, !.buffer = buffer]
    OBVIOUS
  <2> HIDE DEF buffer
  <2>3. /\ review' \in ReviewRecord /\ review'.buffer = buffer
        /\ review'.open = open /\ review'.job = review.job
        /\ review'.appending = review.appending /\ review'.settled = review.settled
        /\ review'.resume = review.resume /\ review'.latest = review.latest
    BY ONLY <2>1, <2>2, open \in SUBSET Call DEF ReviewRecord
  <2> QED BY <2>3 DEF buffer
<1>4. Whole(review'.buffer) /\ review'.buffer # <<>>
  <2>1. /\ Append(review.buffer, line) \in Seq(LogLine)
        /\ \A i \in DOMAIN Append(review.buffer, line) :
             \/ i \in DOMAIN review.buffer
                  /\ Append(review.buffer, line)[i] = review.buffer[i]
             \/ Append(review.buffer, line)[i] = line
        /\ Append(review.buffer, line) # <<>>
    BY <1>1
  <2> QED BY <1>1, <1>2, <1>3, <2>1 DEF Whole
<1>5. Onto(files[review.job], review'.buffer) = Append(Written, line)
  <2>1. Onto(files[review.job], Append(review.buffer, line)) =
          Append(Onto(files[review.job], review.buffer), line)
    BY ONLY <1>1, line \in LogLine, OntoAppends
  <2> QED BY ONLY <1>3, <2>1 DEF Written
<1>6. HistoryFits(review', Append(Written, line), crossed')
  <2>1. OpenFollows(review.open, review'.open, line, crossed')
    BY <1>3
  <2>2. MayFollow(Written, line, crossed) /\ line \in LogLine
    OBVIOUS
  <2>3. line.type \in {"done", "reused"} => line.path \in review'.settled
    OBVIOUS
  <2>4. crossed' \in BOOLEAN /\ (crossed => crossed')
    OBVIOUS
  <2>5. review'.appending = review.appending /\ review.settled \subseteq review'.settled
    BY <1>3
  <2>6. HistoryFits(review, Written, crossed) /\ crossed \in BOOLEAN
    BY <1>1
  <2> QED BY ONLY <2>1, <2>2, <2>3, <2>4, <2>5, <2>6, HistoryGrows
<1>7. ReviewFits(review', files[review.job], crossed')
  BY <1>1, <1>3, <1>4, <1>5, <1>6 DEF ReviewFits
<1>8. FilesFit'
  <2>1. \A j \in Jobs : LinesFit(files[j], crossed')
    BY DEF WritingFits, FilesFit, LinesFit
  <2> QED BY <2>1 DEF WritingFits, FilesFit
<1> QED BY <1>3, <1>7, <1>8 DEF WritingFits

\* A line is written with everything buffered before it.
LEMMA LineFlushed ==
  ASSUME WritingFits, review # NoJob, NEW line \in LogLine, line.type # "fragment",
         Flushes(<<line>>), UNCHANGED <<created, left, crossed>>,
         MayFollow(Written, line, crossed)
  PROVE  /\ FilesFit' /\ files'[review.job] = Append(Written, line)
         /\ Onto(files'[review.job], <<>>) = files'[review.job]
         /\ ~Torn(files'[review.job])
<1>1. /\ review.job \in Jobs /\ files[review.job] \in Seq(LogLine)
      /\ review.buffer \in Seq(LogLine)
      /\ Torn(files[review.job]) => review.buffer # <<>>
      /\ HistoryFits(review, Written, crossed) /\ crossed \in BOOLEAN
      /\ Written \in Seq(LogLine)
  BY ReviewUnderWay
<1>2. review.buffer \o <<line>> = Append(review.buffer, line)
  BY <1>1
<1>3. files' = [files EXCEPT ![review.job] = Append(Written, line)]
  <2>1. Onto(files[review.job], review.buffer \o <<line>>) = Append(Written, line)
    <3>1. Onto(files[review.job], Append(review.buffer, line))
            = Append(Onto(files[review.job], review.buffer), line)
      BY ONLY <1>1, line \in LogLine, OntoAppends
    <3> QED BY <1>2, <3>1 DEF Written
  <2> QED BY <2>1 DEF Flushes
<1>4. files \in [Jobs -> Seq(LogLine)]
  BY DEF WritingFits, FilesFit
<1>5. files'[review.job] = Append(Written, line)
      /\ \A j \in Jobs : j # review.job => files'[j] = files[j]
  BY <1>1, <1>3, <1>4
<1>6. LinesFit(Append(Written, line), crossed) /\ Append(Written, line) \in Seq(LogLine)
  BY <1>1, LineAdded DEF HistoryFits
<1>7. ~Torn(Append(Written, line))
  <2>1. line # Fragment
    BY LinesAreTyped DEF LineFits
  <2>2. Last(Append(Written, line)) = line
    BY <1>1 DEF Last
  <2> QED BY <2>1, <2>2 DEF Torn
<1>8. Onto(files'[review.job], <<>>) = files'[review.job]
  <2>1. Onto(files'[review.job], <<>>) = files'[review.job] \o <<>>
    BY DEF Onto
  <2> QED BY <1>5, <1>6, <2>1
<1>9. files' \in [Jobs -> Seq(LogLine)]
  BY <1>1, <1>3, <1>4, <1>6
<1>10. \A j \in Jobs : LinesFit(files'[j], crossed)
                         /\ (j \notin created => files'[j] = <<>>)
  <2>1. review.job \in created
    BY DEF WritingFits
  <2> QED BY <1>5, <1>6, <2>1 DEF WritingFits, FilesFit
<1>11. FilesFit'
  BY <1>9, <1>10 DEF WritingFits, FilesFit
<1> QED BY <1>5, <1>7, <1>8, <1>11

\* A line that no later one depends on may follow any.
LEMMA AnyMayFollow ==
  ASSUME NEW lines, NEW line, NEW overlapped,
         line.type \notin {"reused", "llm_response"}
  PROVE  MayFollow(lines, line, overlapped)
BY DEF MayFollow

\* A request, a response and an error.
LEMMA RequestWrites ==
  ASSUME WritingFits, NEW f \in Reviewed, NEW task \in Tasks, Request(f, task)
  PROVE  WritingFits'
<1> DEFINE call == [path |-> f, task |-> task, no |-> left'.requests]
           beside == {c \in review.open : c.path = f /\ c.task = task}
           line == [type |-> "llm_request", path |-> f, task |-> task]
           open == review.open \union {call}
<1>1. /\ review # NoJob /\ left.requests > 0
      /\ left' = [left EXCEPT !.requests = @ - 1]
      /\ crossed' = (crossed \/ beside # {})
      /\ review' = [review EXCEPT !.open = open, !.buffer = Append(@, line)]
      /\ UNCHANGED <<files, created>>
  BY DEF Request, In
<1>2. left \in [reviews : Nat, requests : Nat] /\ crossed \in BOOLEAN
  BY DEF WritingFits, FilesFit
<1>3. /\ left' \in [reviews : Nat, requests : Nat] /\ left'.requests \in Int
      /\ crossed' \in BOOLEAN /\ (crossed => crossed')
  BY <1>1, <1>2
<1>4. /\ line \in LogLine /\ line.type = "llm_request"
      /\ line.path = f /\ line.task = task
  BY WrittenLines
<1>5. review.open \in SUBSET Call
  BY <1>1, ReviewUnderWay DEF ReviewRecord
<1>6. call \in Call /\ call.path = f /\ call.task = task
  BY <1>3 DEF Call
<1>7. OpenFollows(review.open, open, line, crossed')
  <2>1. SUFFICES ASSUME ~crossed', NEW c \in open
                 PROVE  /\ \A d \in open : d.path = c.path /\ d.task = c.task => d = c
                        /\ \/ OfCall(line, c.path, c.task, "llm_request")
                           \/ /\ c \in review.open
                              /\ ~OfCall(line, c.path, c.task, "llm_response")
    BY DEF OpenFollows
  <2>2. beside = {} /\ ~crossed
    BY <1>1, <2>1
  <2>3. \A d \in review.open : ~(d.path = f /\ d.task = task)
    BY <2>2
  <2>4. OpenFits(review.open, Written, crossed)
    BY <1>1, ReviewUnderWay DEF HistoryFits
  <2>5. \A b, d \in review.open : d.path = b.path /\ d.task = b.task => d = b
    BY <2>2, <2>4 DEF OpenFits
  <2> HIDE DEF call, line
  <2> QED BY <1>4, <1>6, <2>1, <2>3, <2>5 DEF OfCall
<1>8. MayFollow(Written, line, crossed)
  BY <1>4, AnyMayFollow
<1>9. open \in SUBSET Call
  BY <1>5, <1>6
<1> HIDE DEF open, line
<1> QED BY <1>1, <1>3, <1>4, <1>7, <1>8, <1>9, LineBuffered

\* An answer is to a call that is open.
LEMMA AnswerWrites ==
  ASSUME WritingFits, review # NoJob, NEW call \in review.open,
         Respond(call) \/ CallFails(call)
  PROVE  WritingFits'
<1> DEFINE open == review.open \ {call}
<1>1. PICK line \in LogLine :
        /\ line.type \in {"llm_response", "llm_error"}
        /\ line.path = call.path /\ line.task = call.task
        /\ review' = [review EXCEPT !.open = open, !.buffer = Append(@, line)]
        /\ UNCHANGED <<files, created, left, crossed>>
  <2>1. call \in Call
    BY ReviewUnderWay DEF ReviewRecord
  <2>2. call.path \in Reviewed /\ call.task \in Tasks
    BY <2>1 DEF Call
  <2>3. CASE Respond(call)
    <3>1. PICK blank \in {call.task = "main_task", FALSE} :
            review' = [review EXCEPT
              !.open = open,
              !.buffer = Append(@, [type |-> "llm_response", path |-> call.path,
                                    task |-> call.task, blank |-> blank])]
      BY <2>3 DEF Respond
    <3>2. blank \in BOOLEAN
      OBVIOUS
    <3>3. [type |-> "llm_response", path |-> call.path, task |-> call.task,
           blank |-> blank] \in LogLine
      BY <2>2, <3>2, WrittenLines
    <3> QED BY <2>3, <3>1, <3>3 DEF Respond
  <2>4. CASE CallFails(call)
    <3>1. [type |-> "llm_error", path |-> call.path, task |-> call.task] \in LogLine
      BY <2>2, WrittenLines
    <3> QED BY <2>4, <3>1 DEF CallFails
  <2> QED BY <2>3, <2>4
<1>2. /\ OpenFits(review.open, Written, crossed) /\ review.open \in SUBSET Call
      /\ crossed \in BOOLEAN /\ left \in [reviews : Nat, requests : Nat]
  BY ReviewUnderWay DEF HistoryFits, ReviewRecord, WritingFits, FilesFit
<1>3. OpenFollows(review.open, open, line, crossed)
  <2>1. SUFFICES ASSUME ~crossed, NEW c \in open
                 PROVE  /\ \A d \in open : d.path = c.path /\ d.task = c.task => d = c
                        /\ c \in review.open
                        /\ ~OfCall(line, c.path, c.task, "llm_response")
    BY DEF OpenFollows
  <2>2. \A b, d \in review.open : d.path = b.path /\ d.task = b.task => d = b
    BY <1>2, <2>1 DEF OpenFits
  <2> QED BY <1>1, <2>1, <2>2 DEF OfCall
<1>4. MayFollow(Written, line, crossed)
  <2>1. ~crossed => Asked(Written, line.path, line.task, Len(Written))
    BY <1>1, <1>2 DEF OpenFits
  <2> QED BY <1>1, <2>1 DEF MayFollow
<1>5. open \in SUBSET Call
  BY <1>2
<1> HIDE DEF open
<1> QED BY <1>1, <1>2, <1>3, <1>4, <1>5, LineBuffered

\* A review goes on after the lines it flushed.
LEMMA ReviewFlushed ==
  ASSUME WritingFits, review # NoJob, NEW line \in LogLine, line.type # "fragment",
         Flushes(<<line>>), UNCHANGED <<created, left, crossed>>,
         MayFollow(Written, line, crossed), line.type # "llm_response",
         review' \in ReviewRecord, review'.job = review.job, review'.buffer = <<>>,
         review'.open = review.open, review'.appending = review.appending,
         review'.resume = review.resume, review'.latest = review.latest,
         review.settled \subseteq review'.settled,
         line.type \in {"done", "reused"} => line.path \in review'.settled
  PROVE  WritingFits'
<1>1. /\ HistoryFits(review, Written, crossed) /\ crossed \in BOOLEAN
      /\ ReviewFits(review, files[review.job], crossed)
  BY ReviewUnderWay
<1>2. /\ FilesFit' /\ files'[review.job] = Append(Written, line)
      /\ Onto(files'[review.job], <<>>) = files'[review.job]
      /\ ~Torn(files'[review.job])
  BY LineFlushed
<1>3. OpenFollows(review.open, review'.open, line, crossed)
  BY <1>1 DEF OpenFollows, HistoryFits, OpenFits, OfCall
<1>4. HistoryFits(review', Append(Written, line), crossed)
  <2>1. review'.appending = review.appending /\ review.settled \subseteq review'.settled
    OBVIOUS
  <2>2. line \in LogLine /\ MayFollow(Written, line, crossed)
        /\ (line.type \in {"done", "reused"} => line.path \in review'.settled)
    OBVIOUS
  <2> QED BY ONLY <1>1, <1>3, <2>1, <2>2, HistoryGrows
<1>5. Whole(<<>>)
  <2>1. <<>> \in Seq(LogLine) /\ DOMAIN <<>> = {}
    OBVIOUS
  <2> QED BY <2>1 DEF Whole
<1>6. ReviewFits(review', files'[review.job], crossed)
  <2>1. \A f \in Reviewed :
          review'.resume[f] \in Items(f) /\ review'.latest[f] \in Items(f)
    BY <1>1 DEF ReviewFits
  <2>2. HistoryFits(review', Onto(files'[review.job], review'.buffer), crossed)
    BY <1>2, <1>4
  <2> QED BY <1>2, <1>5, <2>1, <2>2 DEF ReviewFits
<1>7. review'.job \in created'
  BY DEF WritingFits
<1> QED BY <1>2, <1>6, <1>7 DEF WritingFits

\* A file is settled by its item.
LEMMA SettlesWrites ==
  ASSUME WritingFits, review # NoJob, NEW f \in Reviewed,
         NEW type \in {"done", "reused", "failed"}, NEW comments \in FindingsOf(f),
         Settles(f, type, comments),
         type = "reused" /\ comments # <<>> =>
           ~review.appending /\ f \notin review.settled
  PROVE  WritingFits'
<1> DEFINE line == [type |-> type, path |-> f, comments |-> comments]
           settled == review.settled \union {f}
           completed == IF type = "done" THEN review.completed \union {f}
                                         ELSE review.completed
<1>1. /\ review \in ReviewRecord /\ HistoryFits(review, Written, crossed)
      /\ crossed \in BOOLEAN
  BY ReviewUnderWay
<1>2. /\ line \in LogLine /\ line.type = type /\ line.path = f
      /\ line.comments = comments
  BY WrittenLines
<1>3. settled \in SUBSET Reviewed /\ completed \in SUBSET Reviewed
      /\ <<>> \in Seq(LogLine)
  <2>1. review.settled \in SUBSET Reviewed /\ review.completed \in SUBSET Reviewed
    BY <1>1 DEF ReviewRecord
  <2> QED BY <2>1
<1>4. review' = [review EXCEPT !.buffer = <<>>, !.settled = settled,
                               !.completed = completed]
  BY DEF Settles
<1>5. Flushes(<<line>>) /\ UNCHANGED <<created, left, crossed>>
  BY DEF Settles
<1>6. f \in settled /\ review.settled \subseteq settled
  OBVIOUS
<1> HIDE DEF line, settled, completed
<1>7. /\ review' \in ReviewRecord /\ review'.job = review.job
      /\ review'.buffer = <<>> /\ review'.settled = settled
      /\ review'.open = review.open /\ review'.appending = review.appending
      /\ review'.resume = review.resume /\ review'.latest = review.latest
  BY ONLY <1>1, <1>3, <1>4 DEF ReviewRecord
<1>8. MayFollow(Written, line, crossed)
  <2>1. SUFFICES ASSUME type = "reused", comments # <<>>, NEW i \in DOMAIN Written,
                        Written[i].type \in {"done", "reused"}
                 PROVE  Written[i].path # f
    BY <1>2 DEF MayFollow
  <2>2. Written[i].path \in review.settled
    BY <1>1, <2>1 DEF HistoryFits, FreshFits
  <2> QED BY <2>1, <2>2
<1>9. line.type # "fragment" /\ line.type # "llm_response"
  BY <1>2
<1>10. line.type \in {"done", "reused"} => line.path \in review'.settled
  BY <1>2, <1>6, <1>7
<1>11. review.settled \subseteq review'.settled
  BY <1>6, <1>7
<1> QED BY <1>2, <1>5, <1>7, <1>8, <1>9, <1>10, <1>11, ReviewFlushed

\* A file that is reused, reviewed or failed.
LEMMA FileWrites ==
  ASSUME WritingFits, NEW f \in Reviewed, ReuseItem(f) \/ DoneItem(f) \/ FailItemOf(f)
  PROVE  WritingFits'
<1>1. review # NoJob /\ f \notin review.settled
  BY DEF ReuseItem, DoneItem, FailItemOf, In, MainEnded
<1>2. <<>> \in FindingsOf(f)
  BY DEF FindingsOf
<1>3. CASE ReuseItem(f)
  <2> DEFINE comments == ReusedComments(review.appending, review.resume[f])
  <2>1. review.resume[f] \in Items(f) /\ review.resume[f] # NoItem
    BY <1>1, <1>3, ReviewUnderWay DEF ReviewFits, ReuseItem
  <2>2. comments \in FindingsOf(f) /\ (comments # <<>> => ~review.appending)
    BY <1>2, <2>1 DEF ReusedComments, Items, FindingsOf
  <2>3. Settles(f, "reused", comments)
    BY <1>3 DEF ReuseItem
  <2> HIDE DEF comments
  <2> QED BY <1>1, <2>2, <2>3, SettlesWrites
<1>4. CASE DoneItem(f)
  <2>1. PICK ids \in Answers :
          Settles(f, "done", [i \in DOMAIN ids |-> [path |-> f, id |-> ids[i]]])
    BY <1>4 DEF DoneItem
  <2> DEFINE comments == [i \in DOMAIN ids |-> [path |-> f, id |-> ids[i]]]
  <2>2. ids \in Seq(Nat)
    BY ReportAssumption
  <2>3. comments \in FindingsOf(f)
    <3>1. /\ Len(ids) \in Nat /\ DOMAIN ids = 1..Len(ids)
          /\ \A i \in DOMAIN ids : ids[i] \in Nat
      BY <2>2
    <3> DEFINE mine == [path : {f}, id : Nat]
    <3>2. \A i \in 1..Len(ids) : [path |-> f, id |-> ids[i]] \in mine
      BY <3>1
    <3>3. comments = [i \in 1..Len(ids) |-> [path |-> f, id |-> ids[i]]]
      BY <3>1
    <3> HIDE DEF mine, comments
    <3>4. comments \in Seq(mine)
      BY <3>1, <3>2, <3>3
    <3> QED BY <3>4 DEF mine, FindingsOf
  <2> HIDE DEF comments
  <2>4. Settles(f, "done", comments)
    BY <2>1 DEF comments
  <2> QED BY <1>1, <2>3, <2>4, SettlesWrites
<1>5. CASE FailItemOf(f)
  <2>1. Settles(f, "failed", <<>>)
    BY <1>5 DEF FailItemOf
  <2> QED BY <1>1, <1>2, <2>1, SettlesWrites
<1> QED BY <1>3, <1>4, <1>5

\* The findings are reconciled.
LEMMA ReconcileWrites ==
  ASSUME WritingFits, Reconcile
  PROVE  WritingFits'
<1>1. review # NoJob
  BY DEF Reconcile, AllEnded, In
<1>2. /\ review \in ReviewRecord /\ review.job \in Jobs
      /\ files[review.job] \in Seq(LogLine)
      /\ ReviewFits(review, files[review.job], crossed)
  BY <1>1, ReviewUnderWay
<1>3. review.completed \in SUBSET Reviewed
  BY <1>2 DEF ReviewRecord
<1>4. Historical \in SUBSET Finding /\ IsFiniteSet(Historical)
  <2>1. \A f \in review.completed : review.latest[f] \in Items(f)
    BY <1>2, <1>3 DEF ReviewFits
  <2> QED BY <1>3, <2>1, FindingsFinite DEF Historical
<1>5. Current \in SUBSET Finding /\ IsFiniteSet(Current)
  <2> DEFINE of == [f \in Reviewed |-> LatestComments(files[review.job], f)]
  <2>1. \A f \in review.completed : of[f] \in Items(f)
                                    /\ of[f] = LatestComments(files[review.job], f)
    BY <1>2, <1>3, LatestTyped
  <2>2. Current = UNION {Of(of[f]) : f \in review.completed}
    BY <2>1 DEF Current
  <2> HIDE DEF of
  <2> QED BY <1>3, <2>1, <2>2, FindingsFinite
<1>6. PICK order \in Seq(Ruling) :
        Flushes(<<[type |-> "finding_reconciliation", path |-> NoItem,
                   decisions |-> order]>>)
  <2>1. PICK fate \in [Historical -> {"fixed", "unfixed", "new"}], link \in Links :
          \E order \in {Decided(fate, link), Reverse(Decided(fate, link))} :
            Flushes(<<[type |-> "finding_reconciliation", path |-> NoItem,
                       decisions |-> order]>>)
    BY DEF Reconcile
  <2>2. /\ Decided(fate, link) \in Seq(Ruling)
        /\ Reverse(Decided(fate, link)) \in Seq(Ruling)
    BY <1>4, <1>5, DecidedTyped
  <2> QED BY <2>1, <2>2
<1> DEFINE line == [type |-> "finding_reconciliation", path |-> NoItem,
                    decisions |-> order]
<1>7. line \in LogLine /\ line.type = "finding_reconciliation"
  BY WrittenLines
<1>8. review' = [review EXCEPT !.buffer = <<>>, !.stage = "reconciled"]
      /\ UNCHANGED <<created, left, crossed>>
  BY DEF Reconcile
<1> HIDE DEF line
<1>9. /\ review' \in ReviewRecord /\ review'.job = review.job
      /\ review'.buffer = <<>> /\ review'.settled = review.settled
      /\ review'.open = review.open /\ review'.appending = review.appending
      /\ review'.resume = review.resume /\ review'.latest = review.latest
  <2>1. <<>> \in Seq(LogLine)
    OBVIOUS
  <2> QED BY ONLY <1>2, <1>8, <2>1 DEF ReviewRecord
<1>10. MayFollow(Written, line, crossed)
  BY <1>7, AnyMayFollow
<1>11. Flushes(<<line>>)
  BY <1>6 DEF line
<1>12. /\ line.type # "fragment" /\ line.type # "llm_response"
       /\ line.type \notin {"done", "reused"} /\ review.settled \subseteq review'.settled
  BY <1>7, <1>9
<1> QED BY <1>1, <1>7, <1>8, <1>9, <1>10, <1>11, <1>12, ReviewFlushed

\* A review ends.
LEMMA EndWrites ==
  ASSUME WritingFits, EndReview
  PROVE  WritingFits'
<1> DEFINE line == [type |-> "session_end", path |-> NoItem]
<1>1. /\ review # NoJob /\ Flushes(<<line>>) /\ review' = NoJob
      /\ UNCHANGED <<created, left, crossed>>
  BY DEF EndReview, AllEnded, In
<1>2. line \in LogLine /\ line.type = "session_end"
  BY WrittenLines
<1> HIDE DEF line
<1>3. MayFollow(Written, line, crossed) /\ line.type # "fragment"
  BY <1>2, AnyMayFollow
<1>4. FilesFit'
  BY <1>1, <1>2, <1>3, LineFlushed
<1> QED BY <1>1, <1>4 DEF WritingFits

\* A review is killed.
LEMMA KillWrites ==
  ASSUME WritingFits, KillReview
  PROVE  WritingFits'
<1>1. /\ review # NoJob /\ review' = NoJob /\ UNCHANGED <<created, left, crossed>>
      /\ \/ files' = files
         \/ files' = [files EXCEPT ![review.job] = Append(@, Fragment)]
  BY DEF KillReview
<1>2. /\ review.job \in Jobs /\ LinesFit(files[review.job], crossed)
      /\ files[review.job] \in Seq(LogLine) /\ crossed \in BOOLEAN
  BY <1>1, ReviewUnderWay
<1>3. FilesFit
  BY DEF WritingFits
<1>4. CASE files' = files
  BY <1>1, <1>3, <1>4 DEF WritingFits, FilesFit
<1>5. CASE files' = [files EXCEPT ![review.job] = Append(@, Fragment)]
  <2>1. Fragment \in LogLine /\ Fragment.type = "fragment"
    BY WrittenLines DEF Fragment
  <2>2. LinesFit(Append(files[review.job], Fragment), crossed)
        /\ Append(files[review.job], Fragment) \in Seq(LogLine)
    BY <1>2, <2>1, InertAdded
  <2>3. files \in [Jobs -> Seq(LogLine)] /\ review.job \in created
    BY <1>1, <1>3 DEF FilesFit, WritingFits
  <2>4. /\ files' \in [Jobs -> Seq(LogLine)]
        /\ files'[review.job] = Append(files[review.job], Fragment)
        /\ \A j \in Jobs : j # review.job => files'[j] = files[j]
    BY <1>2, <1>5, <2>2, <2>3
  <2>5. \A j \in Jobs : LinesFit(files'[j], crossed)
                          /\ (j \notin created => files'[j] = <<>>)
    BY <1>3, <2>2, <2>3, <2>4 DEF FilesFit
  <2>6. FilesFit'
    BY <1>1, <1>3, <2>4, <2>5 DEF FilesFit
  <2> QED BY <1>1, <2>6 DEF WritingFits
<1> QED BY <1>1, <1>4, <1>5

\* The diffs are loaded.
LEMMA LoadWrites ==
  ASSUME WritingFits, LoadDiffs
  PROVE  WritingFits'
<1>1. /\ review # NoJob /\ review' = [review EXCEPT !.stage = "files"]
      /\ UNCHANGED <<files, created, left, crossed>>
  BY DEF LoadDiffs, In
<1>2. review \in ReviewRecord /\ ReviewFits(review, files[review.job], crossed)
  BY <1>1, ReviewUnderWay
<1>3. /\ review' \in ReviewRecord /\ review'.job = review.job
      /\ review'.buffer = review.buffer /\ review'.settled = review.settled
      /\ review'.open = review.open /\ review'.appending = review.appending
      /\ review'.resume = review.resume /\ review'.latest = review.latest
  BY ONLY <1>1, <1>2 DEF ReviewRecord
<1>4. ReviewFits(review', files[review.job], crossed)
  BY <1>2, <1>3 DEF ReviewFits, HistoryFits, FreshFits
<1> QED BY <1>1, <1>3, <1>4 DEF WritingFits, FilesFit

\* A buffered line reaches the file.
LEMMA SpillWrites ==
  ASSUME WritingFits, Spill
  PROVE  WritingFits'
<1> DEFINE file == Onto(files[review.job], <<Head(review.buffer)>>)
<1>1. /\ review # NoJob /\ review.buffer # <<>>
      /\ files' = [files EXCEPT ![review.job] = file]
      /\ review' = [review EXCEPT !.buffer = Tail(@)]
      /\ UNCHANGED <<created, left, crossed>>
  BY DEF Spill
<1>2. /\ review \in ReviewRecord /\ ReviewFits(review, files[review.job], crossed)
      /\ review.job \in Jobs /\ files[review.job] \in Seq(LogLine)
      /\ Whole(review.buffer) /\ crossed \in BOOLEAN
      /\ HistoryFits(review, Written, crossed)
  BY <1>1, ReviewUnderWay
<1>3. /\ file \in Seq(LogLine) /\ ~Torn(file) /\ Onto(file, Tail(review.buffer)) = Written
      /\ Begins(file, Written) /\ Whole(Tail(review.buffer))
  BY <1>1, <1>2, OntoSpills DEF Written
<1> HIDE DEF file
<1>4. LinesFit(file, crossed)
  <2>1. LinesFit(Written, crossed)
    BY <1>2 DEF HistoryFits
  <2> QED BY <1>2, <1>3, <2>1, BeginningFits
<1>5. /\ review' \in ReviewRecord /\ review'.job = review.job
      /\ review'.buffer = Tail(review.buffer) /\ review'.settled = review.settled
      /\ review'.open = review.open /\ review'.appending = review.appending
      /\ review'.resume = review.resume /\ review'.latest = review.latest
  <2> DEFINE rest == Tail(review.buffer)
  <2>1. rest \in Seq(LogLine) /\ review' = [review EXCEPT !.buffer = rest]
    BY <1>1, <1>3 DEF Whole
  <2> HIDE DEF rest
  <2>2. /\ review' \in ReviewRecord /\ review'.job = review.job
        /\ review'.buffer = rest /\ review'.settled = review.settled
        /\ review'.open = review.open /\ review'.appending = review.appending
        /\ review'.resume = review.resume /\ review'.latest = review.latest
    BY ONLY <1>2, <2>1 DEF ReviewRecord
  <2> QED BY <2>2 DEF rest
<1>6. files \in [Jobs -> Seq(LogLine)] /\ review.job \in created
  BY <1>1 DEF WritingFits, FilesFit
<1>7. /\ files' \in [Jobs -> Seq(LogLine)] /\ files'[review.job] = file
      /\ \A j \in Jobs : j # review.job => files'[j] = files[j]
  BY <1>1, <1>2, <1>3, <1>6
<1>8. ReviewFits(review', file, crossed)
  <2>1. HistoryFits(review', Written, crossed)
    BY <1>2, <1>5 DEF HistoryFits, FreshFits
  <2>2. Onto(file, review'.buffer) = Written /\ Whole(review'.buffer)
    BY <1>3, <1>5
  <2> QED BY <1>2, <1>3, <1>5, <2>1, <2>2 DEF ReviewFits
<1>9. FilesFit'
  <2>1. \A j \in Jobs : LinesFit(files'[j], crossed)
                          /\ (j \notin created => files'[j] = <<>>)
    BY <1>4, <1>6, <1>7 DEF WritingFits, FilesFit
  <2> QED BY <1>1, <1>7, <2>1 DEF WritingFits, FilesFit
<1>10. review'.job \in created' /\ files'[review'.job] = file
  BY <1>1, <1>5, <1>6, <1>7
<1> QED BY <1>1, <1>8, <1>9, <1>10 DEF WritingFits

\* The first state that has a file's comments.
LEMMA FirstTyped ==
  ASSUME NEW f, NEW a \in Items(f), NEW b \in Items(f)
  PROVE  First(a, b) \in Items(f)
BY DEF First

\* A review begins.
LEMMA BeginWrites ==
  ASSUME WritingFits, NEW j \in Jobs, BeginReview(j)
  PROVE  WritingFits'
<1> DEFINE start == Start(ResumedFrom(j))
           found(k, f) == IF Loads(k) THEN LatestComments(files[k], f) ELSE NoItem
           items == [f \in Reviewed |->
                        First(Checkpoints(j)[f], Checkpoints(Other[j])[f])]
           latest == [f \in Reviewed |-> First(found(j, f), found(Other[j], f))]
           file == files[j]
           lines == Onto(file, <<start>>)
<1>1. /\ review' = [job |-> j, buffer |-> <<start>>, appending |-> j \in created,
                    resume |-> items, latest |-> latest, open |-> {}, settled |-> {},
                    completed |-> {}, stage |-> "loading"]
      /\ left' = [left EXCEPT !.reviews = @ - 1] /\ left.reviews > 0
      /\ created' = created \union {j} /\ UNCHANGED <<files, crossed>>
  BY DEF BeginReview
<1>2. /\ FilesFit /\ Other[j] \in Jobs /\ file \in Seq(LogLine) /\ crossed \in BOOLEAN
      /\ LinesFit(file, crossed) /\ \A k \in Jobs : files[k] \in Seq(LogLine)
  BY ReportAssumption DEF WritingFits, FilesFit
<1>3. ASSUME NEW k \in Jobs, NEW f \in Reviewed
      PROVE  Checkpoints(k)[f] \in Items(f) /\ found(k, f) \in Items(f)
  <2>1. NoItem \in Items(f)
    BY DEF Items
  <2> QED BY <1>2, <2>1, CheckpointTyped, LatestTyped DEF Checkpoints
<1>4. \A f \in Reviewed : items[f] \in Items(f) /\ latest[f] \in Items(f)
  <2> HIDE DEF found
  <2> QED BY <1>2, <1>3, FirstTyped
<1>5. \A f \in Reviewed : Items(f) \subseteq {NoItem} \union Seq(Finding)
  BY ReportAssumption, ItemsAreFindings
<1>6. start \in LogLine /\ start.type = "session_start" /\ start # Fragment
  <2>1. ResumedFrom(j) \in Jobs \union {NoJob}
    BY <1>2 DEF ResumedFrom
  <2> QED BY <2>1, WrittenLines DEF Start, Fragment
<1>7. /\ items \in [Reviewed -> {NoItem} \union Seq(Finding)]
      /\ latest \in [Reviewed -> {NoItem} \union Seq(Finding)]
  <2>1. \A f \in Reviewed : /\ items[f] \in {NoItem} \union Seq(Finding)
                            /\ latest[f] \in {NoItem} \union Seq(Finding)
    <3> HIDE DEF items, latest
    <3> QED BY <1>4, <1>5
  <2> QED BY <2>1
<1> HIDE DEF start, found, items, latest, file
<1>8. review' \in ReviewRecord
  <2>1. <<start>> \in Seq(LogLine)
    BY <1>6
  <2> QED BY ONLY <1>1, <1>7, <2>1, j \in Jobs DEF ReviewRecord
<1>9. Whole(<<start>>) /\ <<start>> # <<>>
  BY <1>6 DEF Whole
<1>10. LinesFit(lines, crossed)
  <2>1. CASE Torn(file)
    <3>1. Front(file) \in Seq(LogLine) /\ Begins(Front(file), file)
      BY <1>2, <2>1, FrontOfLines DEF Torn
    <3>2. LinesFit(Front(file), crossed)
      BY <1>2, <3>1, BeginningFits
    <3>3. Garbage \in LogLine /\ Garbage.type = "garbage"
      BY WrittenLines DEF Garbage
    <3>4. LinesFit(Append(Front(file), Garbage), crossed)
      BY <1>2, <3>2, <3>3, InertAdded
    <3>5. lines = Append(Front(file), Garbage)
      <4>1. Front(file) \o <<Garbage>> \o <<>> = Append(Front(file), Garbage)
        BY <3>1, <3>3
      <4>2. Tail(<<start>>) = <<>>
        OBVIOUS
      <4> QED BY <1>9, <2>1, <4>1, <4>2 DEF Onto
    <3> QED BY <3>4, <3>5
  <2>2. CASE ~Torn(file)
    <3>1. lines = Append(file, start)
      BY <1>2, <1>6, <2>2 DEF Onto
    <3> QED BY <1>2, <1>6, <3>1, InertAdded
  <2> QED BY <2>1, <2>2
<1>11. j \notin created => \A i \in DOMAIN lines : lines[i].type = "session_start"
  <2>1. SUFFICES ASSUME j \notin created
                 PROVE  \A i \in DOMAIN lines : lines[i].type = "session_start"
    OBVIOUS
  <2>2. file = <<>>
    BY <1>2, <2>1 DEF FilesFit, file
  <2>3. lines = <<start>>
    BY <2>2 DEF Onto, Torn
  <2> QED BY <1>6, <2>3
<1>12. /\ review'.job = j /\ review'.buffer = <<start>> /\ review'.open = {}
       /\ review'.appending = (j \in created)
       /\ review'.resume = items /\ review'.latest = latest
  BY <1>1
<1>13. HistoryFits(review', lines, crossed)
  <2>1. OpenFits(review'.open, lines, crossed)
    BY <1>12 DEF OpenFits
  <2>2. FreshFits(review', lines)
    BY <1>11, <1>12 DEF FreshFits
  <2> QED BY <1>10, <2>1, <2>2 DEF HistoryFits
<1>14. ReviewFits(review', file, crossed)
  BY <1>4, <1>8, <1>9, <1>12, <1>13 DEF ReviewFits
<1>15. FilesFit'
  <2>1. left' \in [reviews : Nat, requests : Nat]
    BY <1>1, <1>2 DEF FilesFit
  <2> QED BY <1>1, <1>2, <2>1 DEF FilesFit
<1> QED BY <1>1, <1>12, <1>14, <1>15 DEF WritingFits, file

\* Every step of the reviews keeps it.
LEMMA WritingStep == WritingFits /\ [ReportNext]_reportVars => WritingFits'
<1> SUFFICES ASSUME WritingFits, [ReportNext]_reportVars PROVE WritingFits'
  OBVIOUS
<1>1. ASSUME NEW j \in Jobs, BeginReview(j) PROVE WritingFits'
  BY <1>1, BeginWrites
<1>2. ASSUME NEW f \in Reviewed, NEW task \in Tasks, Request(f, task) PROVE WritingFits'
  BY <1>2, RequestWrites
<1>3. ASSUME NEW f \in Reviewed, ReuseItem(f) \/ DoneItem(f) \/ FailItemOf(f)
      PROVE  WritingFits'
  BY <1>3, FileWrites
<1>4. ASSUME review # NoJob, NEW call \in review.open, Respond(call) \/ CallFails(call)
      PROVE  WritingFits'
  BY <1>4, AnswerWrites
<1>5. CASE LoadDiffs
  BY <1>5, LoadWrites
<1>6. CASE Spill
  BY <1>6, SpillWrites
<1>7. CASE Reconcile
  BY <1>7, ReconcileWrites
<1>8. CASE EndReview
  BY <1>8, EndWrites
<1>9. CASE KillReview
  BY <1>9, KillWrites
<1>10. CASE UNCHANGED reportVars
  BY <1>10 DEF reportVars, WritingFits, FilesFit
<1> QED BY <1>1, <1>2, <1>3, <1>4, <1>5, <1>6, <1>7, <1>8, <1>9, <1>10 DEF ReportNext

\* Every session file is like that.
LEMMA WritingAlwaysFits == ReportSpec => []WritingFits
<1>1. ReportInit => WritingFits
  BY WritingInit
<1>2. WritingFits /\ [ReportNext]_reportVars => WritingFits'
  BY WritingStep
<1> QED BY <1>1, <1>2, PTL DEF ReportSpec

-----------------------------------------------------------------------------
(* The page of a file, line by line.                                       *)

\* g has the page after each of the first n lines.
PagesUnfold(g, lines, n) ==
  /\ g = [k \in 0..n |-> g[k]] /\ g[0] = EmptyPage
  /\ \A k \in 1..n : g[k] = ReadLine(g[k - 1], lines[k])

\* A further line is read after the others.
LEMMA PagesUnfoldNext ==
  ASSUME NEW lines, NEW n \in Nat, NEW g, PagesUnfold(g, lines, n)
  PROVE  \E h : PagesUnfold(h, lines, n + 1)
<1> DEFINE h == [k \in 0..(n + 1) |-> IF k <= n THEN g[k]
                                      ELSE ReadLine(g[n], lines[n + 1])]
<1>1. h[n + 1] = ReadLine(g[n], lines[n + 1]) /\ h[0] = EmptyPage
  BY DEF PagesUnfold
<1>2. ASSUME NEW k \in 1..(n + 1) PROVE h[k] = ReadLine(h[k - 1], lines[k])
  <2>1. k - 1 \in 0..n /\ h[k - 1] = g[k - 1]
    OBVIOUS
  <2>2. CASE k = n + 1
    BY <1>1, <2>1, <2>2
  <2>3. CASE k # n + 1
    <3>1. k \in 1..n /\ h[k] = g[k]
      BY <2>3
    <3> HIDE DEF h
    <3> QED BY <2>1, <3>1 DEF PagesUnfold
  <2> QED BY <2>2, <2>3
<1>3. h = [k \in 0..(n + 1) |-> h[k]]
  OBVIOUS
<1> HIDE DEF h
<1> QED BY <1>1, <1>2, <1>3 DEF PagesUnfold

\* There is one for any number of lines.
LEMMA PagesUnfoldExists ==
  ASSUME NEW lines, NEW n \in Nat
  PROVE  \E g : PagesUnfold(g, lines, n)
<1> DEFINE Lacks == {m \in Nat : ~ \E g : PagesUnfold(g, lines, m)}
<1>1. SUFFICES ASSUME Lacks # {} PROVE FALSE
  OBVIOUS
<1>2. PICK m \in Lacks : \A j \in Lacks : m <= j
  <2>1. Lacks \in SUBSET Nat
    OBVIOUS
  <2> HIDE DEF Lacks
  <2> QED BY <1>1, <2>1, LeastNumber
<1>3. CASE m = 0
  <2> DEFINE g == [k \in 0..0 |-> EmptyPage]
  <2>1. g[0] = EmptyPage /\ g = [k \in 0..0 |-> g[k]] /\ 1..0 = {}
    OBVIOUS
  <2> HIDE DEF g
  <2>2. PagesUnfold(g, lines, 0)
    BY <2>1 DEF PagesUnfold
  <2> QED BY <1>2, <1>3, <2>2
<1>4. CASE m # 0
  <2>1. m - 1 \in Nat /\ m - 1 \notin Lacks /\ (m - 1) + 1 = m
    BY <1>2, <1>4
  <2>2. PICK g : PagesUnfold(g, lines, m - 1)
    BY <2>1
  <2>3. \E h : PagesUnfold(h, lines, (m - 1) + 1)
    BY <2>1, <2>2, PagesUnfoldNext
  <2> QED BY <1>2, <2>1, <2>3
<1> QED BY <1>3, <1>4

\* The page of a file is the one after its last line.
LEMMA PageUnfolds ==
  ASSUME NEW lines, Len(lines) \in Nat
  PROVE  \E g : PagesUnfold(g, lines, Len(lines)) /\ PageFrom(lines) = g[Len(lines)]
<1> DEFINE n == Len(lines)
           Body(h) == [k \in 0..n |-> IF k = 0 THEN EmptyPage
                                      ELSE ReadLine(h[k - 1], lines[k])]
           page == CHOOSE h : h = Body(h)
<1>1. PageFrom(lines) = page[n]
  BY DEF PageFrom
<1>2. PICK g : PagesUnfold(g, lines, n)
  BY PagesUnfoldExists
<1>3. g = Body(g)
  <2>1. ASSUME NEW k \in 0..n PROVE g[k] = Body(g)[k]
    <3>1. Body(g)[k] = IF k = 0 THEN EmptyPage ELSE ReadLine(g[k - 1], lines[k])
      OBVIOUS
    <3> HIDE DEF Body
    <3>2. k = 0 \/ k \in 1..n
      OBVIOUS
    <3> QED BY <1>2, <3>1, <3>2 DEF PagesUnfold
  <2>2. g = [k \in 0..n |-> g[k]]
    BY <1>2 DEF PagesUnfold
  <2>3. Body(g) = [k \in 0..n |-> Body(g)[k]]
    OBVIOUS
  <2> HIDE DEF Body
  <2> QED BY <2>1, <2>2, <2>3
<1>4. page = Body(page)
  <2> HIDE DEF Body
  <2> QED BY <1>3
<1> HIDE DEF page
<1>5. PagesUnfold(page, lines, n)
  <2>1. DOMAIN page = 0..n /\ \A k \in 0..n : page[k] = Body(page)[k]
    BY <1>4
  <2>2. page = [k \in 0..n |-> page[k]]
    BY <1>4
  <2> QED BY <2>1, <2>2 DEF PagesUnfold
<1> QED BY <1>1, <1>5

-----------------------------------------------------------------------------
(* What a line makes of the page.                                          *)

\* A card of the page, a finding's key, the tracker and the page.
Card == [said : BOOLEAN, usage : BOOLEAN]

AnyKey == [path : Reviewed, content : Int]

Tracker ==
  [baseline : SUBSET AnyKey, current : SUBSET AnyKey, reconsidered : SUBSET Reviewed,
   active : BOOLEAN, compared : BOOLEAN, ended : BOOLEAN,
   new : SUBSET AnyKey, fixed : SUBSET AnyKey]

Page ==
  [cards : [Reviewed -> [Tasks -> Seq(Card)]], tracker : Tracker,
   timelines : Seq(Seq(Ruling)), aborted : BOOLEAN, from : Jobs \union {NoJob}]

\* A request no response has reached.
Unsaid == [said |-> FALSE, usage |-> FALSE]

\* The findings of a file as keys.
LEMMA KeysTyped ==
  ASSUME NEW f \in Reviewed, NEW comments \in FindingsOf(f)
  PROVE  /\ Keys(comments) \in SUBSET AnyKey /\ \A k \in Keys(comments) : k.path = f
         /\ comments = <<>> => Keys(comments) = {}
<1>1. /\ Len(comments) \in Nat /\ DOMAIN comments = 1..Len(comments)
      /\ \A i \in DOMAIN comments : comments[i] \in [path : {f}, id : Nat]
      /\ comments = <<>> => DOMAIN comments = {}
  <2> DEFINE mine == [path : {f}, id : Nat]
  <2>1. comments \in Seq(mine)
    BY DEF FindingsOf
  <2> HIDE DEF mine
  <2>2. /\ Len(comments) \in Nat /\ DOMAIN comments = 1..Len(comments)
        /\ \A i \in DOMAIN comments : comments[i] \in mine
        /\ comments = <<>> => DOMAIN comments = {}
    BY <2>1
  <2> QED BY <2>2 DEF mine
<1>2. \A c \in ToSet(comments) : c.path = f /\ c.id \in Nat
  BY <1>1 DEF ToSet
<1>3. \A m \in Nat : m \div 10 \in Int
  OBVIOUS
<1>4. \A c \in ToSet(comments) : Key(c) \in AnyKey /\ Key(c).path = f
  BY <1>2, <1>3 DEF Key, AnyKey
<1> QED BY <1>1, <1>4 DEF Keys, ToSet

\* A started tracker.
LEMMA StartedTyped ==
  ASSUME NEW t \in Tracker
  PROVE  LET s == Started(t)
         IN  /\ s \in Tracker /\ s.active = TRUE /\ s.current = t.baseline
             /\ s.baseline = t.baseline /\ s.reconsidered = {} /\ s.fixed = t.fixed
<1>1. t.baseline \in SUBSET AnyKey
  BY DEF Tracker
<1> QED BY <1>1 DEF Started, Tracker

\* What a line of f leaves of the tracker t.
AppliedTo(t, line, next) ==
  LET s == IF t.active THEN t ELSE Started(t)
  IN  /\ next \in Tracker /\ next.active = TRUE
      /\ next.baseline = t.baseline /\ next.fixed = t.fixed
      /\ next.current = (IF Replaces(line) THEN {k \in s.current : k.path # line.path}
                                           ELSE s.current) \union Keys(line.comments)
      /\ next.reconsidered = IF line.type = "done" THEN s.reconsidered \union {line.path}
                                                   ELSE s.reconsidered

\* What applying a line does to the fields of a tracker.
LEMMA AppliesFields ==
  ASSUME NEW t \in Tracker, NEW line, line.path \in Reviewed,
         line.comments \in FindingsOf(line.path)
  PROVE  AppliedTo(t, line, TrackerApplies(t, line))
<1> DEFINE f == line.path
           s == IF t.active THEN t ELSE Started(t)
           current == (IF Replaces(line) THEN {k \in s.current : k.path # f}
                                         ELSE s.current) \union Keys(line.comments)
           again == IF line.type = "done" THEN s.reconsidered \union {f}
                                          ELSE s.reconsidered
<1>1. /\ s \in Tracker /\ s.active = TRUE /\ s.baseline = t.baseline
      /\ s.fixed = t.fixed
  <2>1. t.active \in BOOLEAN
    BY DEF Tracker
  <2> QED BY <2>1, StartedTyped
<1> HIDE DEF s
<1>2. s.current \in SUBSET AnyKey /\ s.reconsidered \in SUBSET Reviewed
  BY <1>1 DEF Tracker
<1>3. current \in SUBSET AnyKey /\ again \in SUBSET Reviewed
  BY <1>2, KeysTyped
<1>4. TrackerApplies(t, line) = [s EXCEPT !.current = current, !.reconsidered = again]
  BY <1>2 DEF TrackerApplies, s
<1> HIDE DEF current, again
<1>5. LET next == TrackerApplies(t, line)
      IN  /\ next \in Tracker /\ next.active = s.active
          /\ next.baseline = s.baseline /\ next.fixed = s.fixed
          /\ next.current = current /\ next.reconsidered = again
  BY ONLY <1>1, <1>3, <1>4 DEF Tracker
<1> QED BY <1>1, <1>5 DEF s, current, again, AppliedTo

\* What the end of a review does to them.
LEMMA EndsFields ==
  ASSUME NEW t \in Tracker
  PROVE  LET next == TrackerEnds(t)
         IN  /\ next \in Tracker /\ next.current = t.current /\ next.active = FALSE
             /\ next.reconsidered = t.reconsidered
             /\ next.baseline = IF t.active THEN t.current ELSE t.baseline
             /\ \/ next.fixed = t.fixed
                \/ /\ t.active
                   /\ next.fixed = {k \in t.baseline : k.path \in t.reconsidered}
                                     \ t.current
<1>1. /\ t.active \in BOOLEAN /\ t.ended \in BOOLEAN /\ t.current \in SUBSET AnyKey
      /\ t.baseline \in SUBSET AnyKey
  BY DEF Tracker
<1>2. CASE ~t.active
  <2>1. t.active = FALSE
    BY <1>1, <1>2
  <2> QED BY <1>2, <2>1 DEF TrackerEnds
<1>3. CASE t.active /\ ~t.ended
  <2>1. TrackerEnds(t) = [t EXCEPT !.ended = TRUE, !.active = FALSE,
                                   !.baseline = t.current]
    BY <1>3 DEF TrackerEnds
  <2> QED BY <1>1, <1>3, <2>1 DEF Tracker
<1>4. CASE t.active /\ t.ended
  <2> DEFINE fixed == {k \in t.baseline : k.path \in t.reconsidered} \ t.current
             new == t.current \ t.baseline
  <2>1. fixed \in SUBSET AnyKey /\ new \in SUBSET AnyKey
    BY <1>1
  <2>2. TrackerEnds(t) = [t EXCEPT !.compared = TRUE, !.active = FALSE,
                            !.baseline = t.current, !.new = new, !.fixed = fixed]
    BY <1>4 DEF TrackerEnds
  <2> HIDE DEF fixed, new
  <2>3. LET next == TrackerEnds(t)
        IN  /\ next \in Tracker /\ next.current = t.current /\ next.active = FALSE
            /\ next.reconsidered = t.reconsidered
            /\ next.baseline = t.current /\ next.fixed = fixed
    BY ONLY <1>1, <2>1, <2>2, t \in Tracker DEF Tracker
  <2> QED BY <1>4, <2>3 DEF fixed
<1> QED BY <1>1, <1>2, <1>3, <1>4

\* Line i has k among its findings.
Holds(lines, i, k) ==
  lines[i].type \in {"done", "reused"} /\ k \in Keys(lines[i].comments)

\* Of the first n lines, the last that reports on k's file has k.
LastHeld(lines, n, k) ==
  \E i \in 1..n : /\ Reports(lines[i], k.path) /\ k \in Keys(lines[i].comments)
                  /\ \A m \in (i + 1)..n : ~Reports(lines[m], k.path)

\* One of the first n lines has k, and a later review of its file does not.
Gone(lines, n, k) ==
  \E i, m \in 1..n : /\ i < m /\ Holds(lines, i, k)
                     /\ lines[m].type = "done" /\ lines[m].path = k.path
                     /\ k \notin Keys(lines[m].comments)

\* What the tracker knows after n lines.
TrackerFits(t, lines, n) ==
  /\ t \in Tracker
  /\ \A k \in AnyKey : k \in t.current <=> LastHeld(lines, n, k)
  /\ ~t.active => t.baseline = t.current
  /\ \A k \in t.fixed : Gone(lines, n, k)
  /\ \A k \in t.baseline : \E i \in 1..n : Holds(lines, i, k)
  /\ t.active => \A k \in t.baseline \ t.current :
                   k.path \in t.reconsidered => Gone(lines, n, k)
  /\ \A f \in t.reconsidered :
       \E m \in 1..n : lines[m].type = "done" /\ lines[m].path = f

\* What a finding was among n lines it is among one more, until the line
\* reports on its file.
LEMMA HeldNext ==
  ASSUME NEW lines, NEW n \in Nat, NEW k
  PROVE  /\ Gone(lines, n, k) => Gone(lines, n + 1, k)
         /\ Reports(lines[n + 1], k.path) =>
              (LastHeld(lines, n + 1, k) <=> k \in Keys(lines[n + 1].comments))
         /\ ~Reports(lines[n + 1], k.path) =>
              (LastHeld(lines, n + 1, k) <=> LastHeld(lines, n, k))
<1>1. 1..n \subseteq 1..(n + 1) /\ n + 1 \in 1..(n + 1) /\ ((n + 1) + 1)..(n + 1) = {}
  OBVIOUS
<1>2. Gone(lines, n, k) => Gone(lines, n + 1, k)
  BY <1>1 DEF Gone
<1>3. CASE Reports(lines[n + 1], k.path)
  <2>1. k \in Keys(lines[n + 1].comments) => LastHeld(lines, n + 1, k)
    BY <1>1, <1>3 DEF LastHeld
  <2>2. ASSUME LastHeld(lines, n + 1, k) PROVE k \in Keys(lines[n + 1].comments)
    <3>1. PICK i \in 1..(n + 1) :
            /\ k \in Keys(lines[i].comments)
            /\ \A m \in (i + 1)..(n + 1) : ~Reports(lines[m], k.path)
      BY <2>2 DEF LastHeld
    <3>2. i # n + 1 => n + 1 \in (i + 1)..(n + 1)
      BY <3>1
    <3>3. i = n + 1
      BY <1>3, <3>1, <3>2
    <3> QED BY <3>1, <3>3
  <2> QED BY <1>2, <1>3, <2>1, <2>2
<1>4. CASE ~Reports(lines[n + 1], k.path)
  <2>1. ASSUME LastHeld(lines, n + 1, k) PROVE LastHeld(lines, n, k)
    <3>1. PICK i \in 1..(n + 1) :
            /\ Reports(lines[i], k.path) /\ k \in Keys(lines[i].comments)
            /\ \A m \in (i + 1)..(n + 1) : ~Reports(lines[m], k.path)
      BY <2>1 DEF LastHeld
    <3>2. i # n + 1
      BY <1>4, <3>1
    <3>3. i \in 1..n /\ (i + 1)..n \subseteq (i + 1)..(n + 1)
      BY <3>1, <3>2
    <3> QED BY <3>1, <3>3 DEF LastHeld
  <2>2. ASSUME LastHeld(lines, n, k) PROVE LastHeld(lines, n + 1, k)
    <3>1. PICK i \in 1..n : /\ Reports(lines[i], k.path)
                            /\ k \in Keys(lines[i].comments)
                            /\ \A m \in (i + 1)..n : ~Reports(lines[m], k.path)
      BY <2>2 DEF LastHeld
    <3>2. \A m \in (i + 1)..(n + 1) : m = n + 1 \/ m \in (i + 1)..n
      BY <3>1
    <3>3. \A m \in (i + 1)..(n + 1) : ~Reports(lines[m], k.path)
      BY <1>4, <3>1, <3>2
    <3> QED BY <1>1, <3>1, <3>3 DEF LastHeld
  <2> QED BY <1>2, <1>4, <2>1, <2>2
<1> QED BY <1>3, <1>4

\* A finding that is held last is held.
LEMMA HeldLast ==
  ASSUME NEW lines, NEW n, NEW k, LastHeld(lines, n, k)
  PROVE  \E i \in 1..n : Holds(lines, i, k)
BY DEF LastHeld, Holds, Reports

\* A line that reports on no file leaves the tracker as it is.
LEMMA TrackerKept ==
  ASSUME NEW t, NEW lines, NEW n \in Nat, TrackerFits(t, lines, n),
         lines[n + 1].type \notin {"done", "reused"}
  PROVE  TrackerFits(t, lines, n + 1)
<1>1. \A k : ~Reports(lines[n + 1], k.path)
  BY DEF Reports
<1>2. \A k \in AnyKey : k \in t.current <=> LastHeld(lines, n + 1, k)
  BY <1>1, HeldNext DEF TrackerFits
<1>3. 1..n \subseteq 1..(n + 1)
  OBVIOUS
<1>4. /\ \A k \in t.fixed : Gone(lines, n + 1, k)
      /\ t.active => \A k \in t.baseline \ t.current :
                       k.path \in t.reconsidered => Gone(lines, n + 1, k)
  BY HeldNext DEF TrackerFits
<1>5. /\ \A k \in t.baseline : \E i \in 1..(n + 1) : Holds(lines, i, k)
      /\ \A f \in t.reconsidered :
           \E m \in 1..(n + 1) : lines[m].type = "done" /\ lines[m].path = f
  BY <1>3 DEF TrackerFits
<1> QED BY <1>2, <1>4, <1>5 DEF TrackerFits

\* The end of a review.
LEMMA TrackerAfterEnd ==
  ASSUME NEW t, NEW lines, NEW n \in Nat, TrackerFits(t, lines, n)
  PROVE  TrackerFits(TrackerEnds(t), lines, n)
<1> DEFINE next == TrackerEnds(t)
<1>1. t \in Tracker
  BY DEF TrackerFits
<1>2. /\ next \in Tracker /\ next.current = t.current /\ next.active = FALSE
      /\ next.reconsidered = t.reconsidered
      /\ next.baseline = IF t.active THEN t.current ELSE t.baseline
      /\ \/ next.fixed = t.fixed
         \/ /\ t.active
            /\ next.fixed = {k \in t.baseline : k.path \in t.reconsidered} \ t.current
  BY <1>1, EndsFields
<1> HIDE DEF next
<1>3. t.current \in SUBSET AnyKey
  BY <1>1 DEF Tracker
<1>4. next.baseline = next.current
  BY <1>2 DEF TrackerFits
<1>5. \A k \in next.fixed : Gone(lines, n, k)
  BY <1>2 DEF TrackerFits
<1>6. \A k \in next.baseline : \E i \in 1..n : Holds(lines, i, k)
  BY <1>2, <1>3, <1>4, HeldLast DEF TrackerFits
<1>7. ~next.active
  BY <1>2
<1> QED BY <1>2, <1>4, <1>5, <1>6, <1>7 DEF TrackerFits, next

\* A file is reported on.
LEMMA TrackerAfterLine ==
  ASSUME NEW lines \in Seq(LogLine), ReusedFirst(lines), NEW n \in Nat,
         n + 1 \in DOMAIN lines, lines[n + 1].type \in {"done", "reused"},
         NEW t, TrackerFits(t, lines, n)
  PROVE  TrackerFits(TrackerApplies(t, lines[n + 1]), lines, n + 1)
<1> DEFINE line == lines[n + 1]
           f == line.path
           s == IF t.active THEN t ELSE Started(t)
           next == TrackerApplies(t, line)
<1>1. t \in Tracker /\ line \in LogLine
  BY DEF TrackerFits
<1>2. /\ line.type \in {"done", "reused"} /\ f \in Reviewed
      /\ line.comments \in FindingsOf(f)
  BY <1>1, LinesAreTyped DEF LineFits, IsItem
<1>3. /\ next \in Tracker /\ next.active = TRUE
      /\ next.baseline = t.baseline /\ next.fixed = t.fixed
      /\ next.current = (IF Replaces(line) THEN {k \in s.current : k.path # f}
                                           ELSE s.current) \union Keys(line.comments)
      /\ next.reconsidered = IF line.type = "done" THEN s.reconsidered \union {f}
                                                   ELSE s.reconsidered
  <2> HIDE DEF line
  <2>1. AppliedTo(t, line, TrackerApplies(t, line))
    BY <1>1, <1>2, AppliesFields
  <2> QED BY <2>1 DEF AppliedTo
<1>4. /\ s.current = t.current /\ s.reconsidered \subseteq t.reconsidered
      /\ ~t.active => s.reconsidered = {} /\ t.baseline = t.current
      /\ t.active => s.reconsidered = t.reconsidered
  BY <1>1, StartedTyped DEF TrackerFits
<1>5. /\ Keys(line.comments) \in SUBSET AnyKey
      /\ \A k \in Keys(line.comments) : k.path = f
      /\ (line.comments = <<>> => Keys(line.comments) = {})
  BY <1>2, KeysTyped
<1>6. \A k \in AnyKey : Reports(line, k.path) <=> k.path = f /\ Replaces(line)
  BY <1>2 DEF Reports, Replaces
<1>7. t.current \in SUBSET AnyKey /\ t.baseline \in SUBSET AnyKey
  BY <1>1 DEF Tracker
<1> HIDE DEF next, s
<1>8. ASSUME NEW k \in AnyKey
      PROVE  k \in next.current <=> LastHeld(lines, n + 1, k)
  <2>1. CASE Reports(line, k.path)
    <3>1. LastHeld(lines, n + 1, k) <=> k \in Keys(line.comments)
      BY <2>1, HeldNext
    <3> HIDE DEF line, f
    <3> QED BY <1>3, <1>6, <2>1, <3>1
  <2>2. CASE ~Reports(line, k.path)
    <3>1. LastHeld(lines, n + 1, k) <=> k \in t.current
      BY <2>2, HeldNext DEF TrackerFits
    <3>2. k \notin Keys(line.comments)
      <4>1. SUFFICES ASSUME k \in Keys(line.comments) PROVE FALSE
        OBVIOUS
      <4>2. k.path = f /\ line.comments # <<>>
        BY <1>5, <4>1
      <4> QED BY <1>6, <2>2, <4>2 DEF Replaces
    <3> HIDE DEF line, f
    <3> QED BY <1>3, <1>4, <1>6, <2>2, <3>1, <3>2
  <2> QED BY <2>1, <2>2
<1>9. 1..n \subseteq 1..(n + 1) /\ n + 1 \in 1..(n + 1) /\ \A i \in 1..n : i < n + 1
  OBVIOUS
<1>10. \A k \in next.baseline : \E i \in 1..n : Holds(lines, i, k)
  BY <1>3 DEF TrackerFits
<1>11. \A g \in next.reconsidered :
         \E m \in 1..(n + 1) : lines[m].type = "done" /\ lines[m].path = g
  BY <1>3, <1>4, <1>9 DEF TrackerFits
<1>12. \A k \in next.fixed : Gone(lines, n + 1, k)
  BY <1>3, HeldNext DEF TrackerFits
<1>13. ASSUME NEW k \in next.baseline \ next.current, k.path \in next.reconsidered
       PROVE  Gone(lines, n + 1, k)
  <2>1. k \in t.baseline /\ k \in AnyKey /\ k \notin Keys(line.comments)
    BY <1>3, <1>7, <1>13
  <2>2. CASE k \in t.current
    \* It is this line that does not have it.
    <3>1. k.path = f /\ Replaces(line)
      <4> HIDE DEF line, f
      <4> QED BY <1>3, <1>4, <1>13, <2>2
    <3>2. PICK i \in 1..n : Holds(lines, i, k)
      BY <1>3, <1>10, <2>1
    <3>3. line.type = "done"
      <4>1. SUFFICES ASSUME line.type = "reused" PROVE FALSE
        BY <1>2
      <4>2. PICK m \in 1..n : lines[m].type \in {"done", "reused"} /\ lines[m].path = f
        <5>1. k.path \in t.reconsidered
          BY <1>3, <1>4, <1>13, <4>1
        <5> QED BY <3>1, <5>1 DEF TrackerFits
      <4>3. line.comments # <<>> /\ m \in DOMAIN lines /\ m < n + 1
        BY <3>1, <4>1, <4>2 DEF Replaces
      <4> QED BY <4>1, <4>2, <4>3 DEF ReusedFirst
    <3> QED BY <1>9, <2>1, <3>1, <3>2, <3>3 DEF Gone
  <2>3. CASE k \notin t.current
    <3>1. t.active
      BY <1>4, <2>1, <2>3
    <3>2. CASE k.path \in t.reconsidered
      BY <2>1, <2>3, <3>1, <3>2, HeldNext DEF TrackerFits
    <3>3. CASE k.path \notin t.reconsidered
      <4>1. line.type = "done" /\ k.path = f
        <5> HIDE DEF line, f
        <5> QED BY <1>3, <1>4, <1>13, <3>3
      <4>2. PICK i \in 1..n : Holds(lines, i, k)
        BY <1>3, <1>10, <2>1
      <4> QED BY <1>9, <2>1, <4>1, <4>2 DEF Gone
    <3> QED BY <3>2, <3>3
  <2> QED BY <2>2, <2>3
<1>14. \A k \in next.baseline : \E i \in 1..(n + 1) : Holds(lines, i, k)
  BY <1>9, <1>10
<1>15. next.active
  BY <1>3
<1> QED BY <1>3, <1>8, <1>11, <1>12, <1>13, <1>14, <1>15 DEF TrackerFits, next

\* The responses among the first n lines.
Responses(lines, n) == {i \in 1..n : lines[i].type = "llm_response"}

\* What the cards show after n lines: a request that waits for its response
\* is the last card, and no response counts twice.
CardsFit(page, lines, n) ==
  /\ page.cards \in [Reviewed -> [Tasks -> Seq(Card)]]
  /\ \A f \in Reviewed, t \in Tasks : Asked(lines, f, t, n) =>
       page.cards[f][t] # <<>> /\ Last(page.cards[f][t]) = Unsaid
  /\ IsFiniteSet(Used(page))
  /\ Cardinality(Used(page)) <= Cardinality(Responses(lines, n))
  /\ Paired(lines) => Cardinality(Used(page)) = Cardinality(Responses(lines, n))

\* The i-th card of f and t has a usage.
HasUsage(page, f, t, i) == i \in DOMAIN page.cards[f][t] /\ page.cards[f][t][i].usage

\* The cards that have a usage.
LEMMA UsedMembers ==
  ASSUME NEW page, NEW x
  PROVE  x \in Used(page) <=>
           \E f \in Reviewed, t \in Tasks : \E i :
             x = <<f, t, i>> /\ HasUsage(page, f, t, i)
<1> DEFINE of(f, t) == {<<f, t, i>> : i \in {n \in DOMAIN page.cards[f][t] :
                                               page.cards[f][t][n].usage}}
<1>1. Used(page) = UNION {of(f, t) : f \in Reviewed, t \in Tasks}
  BY DEF Used
<1>2. \A f \in Reviewed, t \in Tasks :
        x \in of(f, t) <=> \E i : x = <<f, t, i>> /\ HasUsage(page, f, t, i)
  BY DEF HasUsage
<1> HIDE DEF of
<1> QED BY <1>1, <1>2

\* Cards of other files and tasks are as before.
LEMMA UsedOfOthers ==
  ASSUME NEW page, NEW next, NEW f \in Reviewed, NEW t \in Tasks,
         page.cards \in [Reviewed -> [Tasks -> Seq(Card)]], NEW new \in Seq(Card),
         next.cards = [page.cards EXCEPT ![f][t] = new]
  PROVE  /\ next.cards \in [Reviewed -> [Tasks -> Seq(Card)]]
         /\ next.cards[f][t] = new
         /\ \A g \in Reviewed, u \in Tasks :
              g # f \/ u # t => next.cards[g][u] = page.cards[g][u]
OBVIOUS

\* A card is added that has no usage.
LEMMA UsedAfterRequest ==
  ASSUME NEW page, NEW next, NEW f \in Reviewed, NEW t \in Tasks,
         page.cards \in [Reviewed -> [Tasks -> Seq(Card)]],
         next.cards = [page.cards EXCEPT ![f][t] = Append(page.cards[f][t], Unsaid)]
  PROVE  /\ next.cards \in [Reviewed -> [Tasks -> Seq(Card)]]
         /\ Used(next) = Used(page)
<1> DEFINE old == page.cards[f][t]
           new == Append(old, Unsaid)
<1>1. old \in Seq(Card) /\ Unsaid \in Card
  BY DEF Unsaid, Card
<1>2. /\ new \in Seq(Card) /\ DOMAIN new = 1..(Len(old) + 1) /\ DOMAIN old = 1..Len(old)
      /\ Len(old) \in Nat /\ new[Len(old) + 1] = Unsaid
      /\ \A i \in 1..Len(old) : new[i] = old[i]
  BY <1>1
<1> HIDE DEF new
<1>3. /\ next.cards \in [Reviewed -> [Tasks -> Seq(Card)]]
      /\ next.cards[f][t] = new
      /\ \A g \in Reviewed, u \in Tasks :
           g # f \/ u # t => next.cards[g][u] = page.cards[g][u]
  <2>1. next.cards = [page.cards EXCEPT ![f][t] = new]
    BY DEF new
  <2> QED BY <1>2, <2>1, UsedOfOthers
<1>4. ~Unsaid.usage
  BY DEF Unsaid
<1>5. \A i : i \in DOMAIN new /\ new[i].usage <=> i \in DOMAIN old /\ old[i].usage
  <2> HIDE DEF old
  <2> QED BY <1>2, <1>4
<1>6. \A g \in Reviewed, u \in Tasks : \A i :
        HasUsage(next, g, u, i) <=> HasUsage(page, g, u, i)
  <2>1. TAKE g \in Reviewed, u \in Tasks
  <2>2. CASE g = f /\ u = t
    BY <1>3, <1>5, <2>2 DEF HasUsage
  <2>3. CASE g # f \/ u # t
    BY <1>3, <2>3 DEF HasUsage
  <2> QED BY <2>2, <2>3
<1>7. \A x : x \in Used(next) <=> x \in Used(page)
  BY <1>6, UsedMembers
<1> QED BY <1>3, <1>7

\* The last card of f and t is replaced by one that has a usage.
Attached(page, next, f, t, card) ==
  /\ page.cards \in [Reviewed -> [Tasks -> Seq(Card)]] /\ page.cards[f][t] # <<>>
  /\ card \in Card /\ card.usage = TRUE
  /\ next.cards = [page.cards EXCEPT ![f][t] = Append(Front(page.cards[f][t]), card)]

\* The last card has a usage from now on.
LEMMA UsedAfterResponse ==
  ASSUME NEW page, NEW next, NEW f \in Reviewed, NEW t \in Tasks, NEW card,
         Attached(page, next, f, t, card)
  PROVE  /\ next.cards \in [Reviewed -> [Tasks -> Seq(Card)]]
         /\ Used(next) = Used(page) \union {<<f, t, Len(page.cards[f][t])>>}
         /\ ~Last(page.cards[f][t]).usage =>
              <<f, t, Len(page.cards[f][t])>> \notin Used(page)
<1> DEFINE old == page.cards[f][t]
           new == Append(Front(old), card)
           n == Len(old)
<1>1. /\ old \in Seq(Card) /\ old # <<>>
      /\ page.cards \in [Reviewed -> [Tasks -> Seq(Card)]]
  BY DEF Attached
<1>2. n \in Nat \ {0} /\ DOMAIN old = 1..n /\ Last(old) = old[n]
  BY <1>1 DEF Last
<1>3. Front(old) \in Seq(Card) /\ Len(Front(old)) = n - 1
      /\ \A i \in 1..(n - 1) : Front(old)[i] = old[i]
  BY <1>1, FrontOfSeq
<1>4. card \in Card /\ card.usage = TRUE
  BY DEF Attached
<1>5. /\ new \in Seq(Card) /\ DOMAIN new = 1..n /\ new[n] = card
      /\ \A i \in 1..(n - 1) : new[i] = old[i]
  <2> DEFINE front == Front(old)
  <2>1. front \in Seq(Card) /\ Len(front) = n - 1 /\ n \in Nat \ {0}
        /\ \A i \in 1..(n - 1) : front[i] = old[i]
    BY <1>2, <1>3
  <2>2. new = Append(front, card)
    OBVIOUS
  <2> HIDE DEF front, new, old, n
  <2> QED BY <1>4, <2>1, <2>2
<1>6. next.cards = [page.cards EXCEPT ![f][t] = new]
  BY DEF Attached
<1> HIDE DEF new
<1>7. /\ next.cards \in [Reviewed -> [Tasks -> Seq(Card)]]
      /\ next.cards[f][t] = new
      /\ \A g \in Reviewed, u \in Tasks :
           g # f \/ u # t => next.cards[g][u] = page.cards[g][u]
  <2>1. page.cards \in [Reviewed -> [Tasks -> Seq(Card)]] /\ new \in Seq(Card)
    BY <1>1, <1>5
  <2> QED BY ONLY <1>6, <2>1, f \in Reviewed, t \in Tasks, UsedOfOthers
<1>8. \A i : i \in DOMAIN new /\ new[i].usage
               <=> i = n \/ (i \in DOMAIN old /\ old[i].usage)
  <2> HIDE DEF old, n
  <2> QED BY <1>2, <1>4, <1>5
<1>9. \A x : x \in Used(next) <=> x \in Used(page) \/ x = <<f, t, n>>
  <2>1. ASSUME NEW x, x \in Used(next) PROVE x \in Used(page) \/ x = <<f, t, n>>
    <3>1. PICK g \in Reviewed, u \in Tasks :
            \E i : x = <<g, u, i>> /\ HasUsage(next, g, u, i)
      BY <2>1, UsedMembers
    <3>2. CASE g # f \/ u # t
      <4>1. \A i : HasUsage(next, g, u, i) => HasUsage(page, g, u, i)
        BY <1>7, <3>2 DEF HasUsage
      <4> QED BY <3>1, <4>1, UsedMembers
    <3>3. CASE g = f /\ u = t
      <4>1. PICK i : x = <<f, t, i>> /\ HasUsage(next, f, t, i)
        BY <3>1, <3>3
      <4>2. i = n \/ HasUsage(page, f, t, i)
        BY <1>7, <1>8, <4>1 DEF HasUsage
      <4> QED BY <4>1, <4>2, UsedMembers
    <3> QED BY <3>2, <3>3
  <2>2. ASSUME NEW x, x \in Used(page) PROVE x \in Used(next)
    <3>1. PICK g \in Reviewed, u \in Tasks :
            \E i : x = <<g, u, i>> /\ HasUsage(page, g, u, i)
      BY <2>2, UsedMembers
    <3>2. CASE g # f \/ u # t
      <4>1. \A i : HasUsage(page, g, u, i) => HasUsage(next, g, u, i)
        BY <1>7, <3>2 DEF HasUsage
      <4> QED BY <3>1, <4>1, UsedMembers
    <3>3. CASE g = f /\ u = t
      <4>1. PICK i : x = <<f, t, i>> /\ HasUsage(page, f, t, i)
        BY <3>1, <3>3
      <4>2. HasUsage(next, f, t, i)
        BY <1>7, <1>8, <4>1 DEF HasUsage
      <4> QED BY <4>1, <4>2, UsedMembers
    <3> QED BY <3>2, <3>3
  <2>3. <<f, t, n>> \in Used(next)
    <3>1. HasUsage(next, f, t, n)
      BY <1>7, <1>8 DEF HasUsage
    <3> HIDE DEF n
    <3> QED BY <3>1, UsedMembers
  <2> QED BY <2>1, <2>2, <2>3
<1>10. ASSUME <<f, t, n>> \in Used(page) PROVE Last(old).usage
  <2>1. PICK g \in Reviewed, u \in Tasks :
          \E i : <<f, t, n>> = <<g, u, i>> /\ HasUsage(page, g, u, i)
    <3> HIDE DEF n
    <3> QED BY <1>10, UsedMembers
  <2>2. HasUsage(page, f, t, n)
    BY <2>1
  <2> QED BY <1>2, <2>2 DEF HasUsage
<1> QED BY <1>7, <1>9, <1>10

\* What is asked after one more line.
LEMMA AskedBefore ==
  ASSUME NEW lines, NEW n \in Nat, NEW f, NEW t, Asked(lines, f, t, n + 1)
  PROVE  \/ OfCall(lines[n + 1], f, t, "llm_request")
         \/ Asked(lines, f, t, n) /\ ~OfCall(lines[n + 1], f, t, "llm_response")
<1>1. PICK l \in 1..(n + 1) :
        /\ OfCall(lines[l], f, t, "llm_request")
        /\ \A i \in (l + 1)..(n + 1) : ~OfCall(lines[i], f, t, "llm_response")
  BY DEF Asked
<1>2. CASE l = n + 1
  BY <1>1, <1>2
<1>3. CASE l # n + 1
  <2>1. l \in 1..n /\ n + 1 \in (l + 1)..(n + 1) /\ (l + 1)..n \subseteq (l + 1)..(n + 1)
    BY <1>1, <1>3
  <2> QED BY <1>1, <2>1 DEF Asked
<1> QED BY <1>2, <1>3

\* A response ends what was asked of its file and task.
LEMMA AskedOfOthers ==
  ASSUME NEW lines, NEW n \in Nat, NEW f, NEW t, NEW g, NEW u,
         OfCall(lines[n + 1], f, t, "llm_response"), Asked(lines, g, u, n + 1)
  PROVE  Asked(lines, g, u, n) /\ (g # f \/ u # t)
<1>1. ~OfCall(lines[n + 1], g, u, "llm_request")
  BY DEF OfCall
<1>2. Asked(lines, g, u, n) /\ ~OfCall(lines[n + 1], g, u, "llm_response")
  BY <1>1, AskedBefore
<1> QED BY <1>2

\* One more line is one more response, if it is one.
LEMMA ResponsesNext ==
  ASSUME NEW lines, NEW n \in Nat
  PROVE  /\ Responses(lines, n + 1) =
              IF lines[n + 1].type = "llm_response"
              THEN Responses(lines, n) \union {n + 1} ELSE Responses(lines, n)
         /\ n + 1 \notin Responses(lines, n) /\ IsFiniteSet(Responses(lines, n))
<1>1. 1..(n + 1) = 1..n \union {n + 1} /\ n + 1 \notin 1..n
  OBVIOUS
<1>2. IsFiniteSet(1..n)
  BY FS_Interval
<1>3. IsFiniteSet(Responses(lines, n))
  BY <1>2, FS_Subset DEF Responses
<1> QED BY <1>1, <1>3 DEF Responses

\* What the page shows after n lines.
PageFits(page, lines, n) ==
  /\ page \in Page
  /\ CardsFit(page, lines, n) /\ TrackerFits(page.tracker, lines, n)
  /\ page.timelines # <<>> =>
       \E i \in 1..n : /\ lines[i].type = "finding_reconciliation"
                       /\ Last(page.timelines) = lines[i].decisions

\* A line leaves the cards alone.
LEMMA CardsKept ==
  ASSUME NEW page, NEW next, NEW lines, NEW n \in Nat, CardsFit(page, lines, n),
         next.cards = page.cards,
         lines[n + 1].type \notin {"llm_request", "llm_response"}
  PROVE  CardsFit(next, lines, n + 1)
<1>1. Used(next) = Used(page)
  BY DEF Used
<1>2. Responses(lines, n + 1) = Responses(lines, n)
  BY ResponsesNext
<1>3. \A f, t : Asked(lines, f, t, n + 1) => Asked(lines, f, t, n)
  BY AskedBefore DEF OfCall
<1> QED BY <1>1, <1>2, <1>3 DEF CardsFit

\* A request is a card of its own.
LEMMA CardsAfterRequest ==
  ASSUME NEW page, NEW next, NEW lines, NEW n \in Nat, CardsFit(page, lines, n),
         NEW f \in Reviewed, NEW t \in Tasks, OfCall(lines[n + 1], f, t, "llm_request"),
         next.cards = [page.cards EXCEPT ![f][t] = Append(page.cards[f][t], Unsaid)]
  PROVE  CardsFit(next, lines, n + 1)
<1>1. page.cards \in [Reviewed -> [Tasks -> Seq(Card)]]
  BY DEF CardsFit
<1>2. next.cards \in [Reviewed -> [Tasks -> Seq(Card)]] /\ Used(next) = Used(page)
  BY <1>1, UsedAfterRequest
<1>3. Responses(lines, n + 1) = Responses(lines, n)
  BY ResponsesNext DEF OfCall
<1>4. page.cards[f][t] \in Seq(Card) /\ Unsaid \in Card
  BY <1>1 DEF Unsaid, Card
<1>5. /\ Append(page.cards[f][t], Unsaid) # <<>>
      /\ Last(Append(page.cards[f][t], Unsaid)) = Unsaid
  <2> DEFINE old == page.cards[f][t]
  <2>1. old \in Seq(Card) /\ Unsaid \in Card
    BY <1>4
  <2> HIDE DEF old
  <2>2. Append(old, Unsaid) # <<>> /\ Last(Append(old, Unsaid)) = Unsaid
    BY ONLY <2>1 DEF Last
  <2> QED BY <2>2 DEF old
<1>6. ASSUME NEW g \in Reviewed, NEW u \in Tasks, Asked(lines, g, u, n + 1)
      PROVE  next.cards[g][u] # <<>> /\ Last(next.cards[g][u]) = Unsaid
  <2>1. CASE g = f /\ u = t
    <3>1. next.cards[g][u] = Append(page.cards[f][t], Unsaid)
      BY <1>1, <2>1
    <3> QED BY <1>5, <3>1
  <2>2. CASE g # f \/ u # t
    <3>1. next.cards[g][u] = page.cards[g][u]
      BY <1>1, <2>2
    <3>2. Asked(lines, g, u, n)
      BY <1>6, <2>2, AskedBefore DEF OfCall
    <3> QED BY <3>1, <3>2 DEF CardsFit
  <2> QED BY <2>1, <2>2
<1> QED BY <1>2, <1>3, <1>6 DEF CardsFit

\* A response is counted once, or not at all.
LEMMA CardsAfterResponse ==
  ASSUME NEW page, NEW next, NEW lines, NEW n \in Nat, CardsFit(page, lines, n),
         n + 1 \in DOMAIN lines,
         NEW f \in Reviewed, NEW t \in Tasks, OfCall(lines[n + 1], f, t, "llm_response"),
         lines[n + 1].blank \in BOOLEAN,
         next.cards = [page.cards EXCEPT ![f][t] = AttachResponse(@, lines[n + 1])]
  PROVE  CardsFit(next, lines, n + 1)
<1> DEFINE old == page.cards[f][t]
           blank == lines[n + 1].blank
<1>1. page.cards \in [Reviewed -> [Tasks -> Seq(Card)]] /\ old \in Seq(Card)
  BY DEF CardsFit
<1>2. ASSUME Paired(lines) PROVE old # <<>> /\ Last(old) = Unsaid
  <2>1. Asked(lines, f, t, (n + 1) - 1) /\ (n + 1) - 1 = n
    BY <1>2 DEF Paired, OfCall
  <2> QED BY <2>1 DEF CardsFit
<1>3. /\ IsFiniteSet(Used(page)) /\ IsFiniteSet(Responses(lines, n))
      /\ Cardinality(Used(page)) \in Nat /\ Cardinality(Responses(lines, n)) \in Nat
      /\ Cardinality(Used(page)) <= Cardinality(Responses(lines, n))
      /\ Paired(lines) => Cardinality(Used(page)) = Cardinality(Responses(lines, n))
  BY ResponsesNext, FS_CardinalityType DEF CardsFit
<1>4. /\ IsFiniteSet(Responses(lines, n + 1))
      /\ Cardinality(Responses(lines, n + 1)) = Cardinality(Responses(lines, n)) + 1
  <2>1. /\ Responses(lines, n + 1) = Responses(lines, n) \union {n + 1}
        /\ n + 1 \notin Responses(lines, n)
    BY ResponsesNext DEF OfCall
  <2> QED BY <1>3, <2>1, FS_AddElement
<1>5. CASE old = <<>> \/ Last(old).said
  <2>1. AttachResponse(old, lines[n + 1]) = old
    BY <1>5 DEF AttachResponse
  <2>2. next.cards = page.cards
    BY <1>1, <2>1
  <2>3. Used(next) = Used(page)
    BY <2>2 DEF Used
  <2>4. ~Paired(lines)
    BY <1>2, <1>5 DEF Unsaid
  <2>5. \A g \in Reviewed, u \in Tasks : Asked(lines, g, u, n + 1) =>
          next.cards[g][u] # <<>> /\ Last(next.cards[g][u]) = Unsaid
    <3> SUFFICES ASSUME NEW g \in Reviewed, NEW u \in Tasks, Asked(lines, g, u, n + 1)
                 PROVE  next.cards[g][u] # <<>> /\ Last(next.cards[g][u]) = Unsaid
      OBVIOUS
    <3>1. Asked(lines, g, u, n)
      BY AskedOfOthers
    <3> QED BY <2>2, <3>1 DEF CardsFit
  <2>6. Cardinality(Used(next)) <= Cardinality(Responses(lines, n + 1))
    BY ONLY <1>3, <1>4, <2>3
  <2>7. next.cards \in [Reviewed -> [Tasks -> Seq(Card)]] /\ IsFiniteSet(Used(next))
    BY ONLY <1>1, <1>3, <2>2, <2>3
  <2> QED BY ONLY <2>4, <2>5, <2>6, <2>7 DEF CardsFit
<1>6. CASE old # <<>> /\ ~Last(old).said
  <2> DEFINE card == <<f, t, Len(old)>>
             cards == Append(Front(old), [said |-> ~blank, usage |-> TRUE])
  <2>1. AttachResponse(old, lines[n + 1]) = cards
    BY <1>6 DEF AttachResponse
  <2>2. next.cards = [page.cards EXCEPT ![f][t] = cards]
    BY <2>1
  <2>3. /\ next.cards \in [Reviewed -> [Tasks -> Seq(Card)]]
        /\ Used(next) = Used(page) \union {card}
        /\ ~Last(old).usage => card \notin Used(page)
    <3> DEFINE now == [said |-> ~blank, usage |-> TRUE]
    <3>1. now \in Card /\ now.usage = TRUE
      BY DEF Card
    <3>2. cards = Append(Front(page.cards[f][t]), now)
      OBVIOUS
    <3> HIDE DEF now
    <3>3. Attached(page, next, f, t, now)
      BY <1>1, <1>6, <2>2, <3>1, <3>2 DEF Attached
    <3> QED BY <3>3, UsedAfterResponse
  <2> HIDE DEF card
  <2>4. /\ IsFiniteSet(Used(next))
        /\ Cardinality(Used(next)) = IF card \in Used(page) THEN Cardinality(Used(page))
                                     ELSE Cardinality(Used(page)) + 1
    BY <1>3, <2>3, FS_AddElement
  <2>5. Paired(lines) => card \notin Used(page)
    BY <1>2, <2>3 DEF Unsaid
  <2>6. ASSUME NEW g \in Reviewed, NEW u \in Tasks, Asked(lines, g, u, n + 1)
        PROVE  next.cards[g][u] # <<>> /\ Last(next.cards[g][u]) = Unsaid
    <3>1. Asked(lines, g, u, n) /\ (g # f \/ u # t)
      BY <2>6, AskedOfOthers
    <3>2. next.cards[g][u] = page.cards[g][u]
      BY <1>1, <2>2, <3>1
    <3> QED BY <3>1, <3>2 DEF CardsFit
  <2>7. /\ Cardinality(Used(next)) <= Cardinality(Responses(lines, n + 1))
        /\ Paired(lines) =>
             Cardinality(Used(next)) = Cardinality(Responses(lines, n + 1))
    BY <1>3, <1>4, <2>4, <2>5
  <2> QED BY <2>3, <2>4, <2>6, <2>7 DEF CardsFit
<1> QED BY <1>5, <1>6

\* An empty page shows what no lines say.
LEMMA EmptyPageFits ==
  ASSUME NEW lines
  PROVE  PageFits(EmptyPage, lines, 0)
<1>1. /\ EmptyPage.cards = [f \in Reviewed |-> [t \in Tasks |-> <<>>]]
      /\ EmptyPage.tracker = NewTracker /\ EmptyPage.timelines = <<>>
  BY DEF EmptyPage
<1>2. EmptyPage \in Page /\ NewTracker \in Tracker
  <2>1. [f \in Reviewed |-> [t \in Tasks |-> <<>>]] \in [Reviewed -> [Tasks -> Seq(Card)]]
    OBVIOUS
  <2>2. NewTracker \in Tracker
    BY DEF NewTracker, Tracker
  <2>3. <<>> \in Seq(Seq(Ruling)) /\ NoJob \in Jobs \union {NoJob}
    OBVIOUS
  <2> QED BY <2>1, <2>2, <2>3 DEF EmptyPage, Page
<1>3. 1..0 = {}
  OBVIOUS
<1>4. Used(EmptyPage) = {} /\ Responses(lines, 0) = {}
  <2>1. \A f \in Reviewed, t \in Tasks : EmptyPage.cards[f][t] = <<>>
    BY <1>1
  <2>2. \A f \in Reviewed, t \in Tasks : \A i : ~HasUsage(EmptyPage, f, t, i)
    BY <2>1 DEF HasUsage
  <2>3. \A x : x \notin Used(EmptyPage)
    BY <2>2, UsedMembers
  <2> QED BY <1>3, <2>3 DEF Responses
<1>5. CardsFit(EmptyPage, lines, 0)
  <2>1. EmptyPage.cards \in [Reviewed -> [Tasks -> Seq(Card)]]
    BY <1>2 DEF Page
  <2>2. \A f, t : ~Asked(lines, f, t, 0)
    BY <1>3 DEF Asked
  <2>3. IsFiniteSet({}) /\ Cardinality({}) = 0
    BY FS_EmptySet
  <2>4. /\ IsFiniteSet(Used(EmptyPage)) /\ Cardinality(Used(EmptyPage)) = 0
        /\ Cardinality(Responses(lines, 0)) = 0
    BY <1>4, <2>3
  <2> QED BY <2>1, <2>2, <2>4 DEF CardsFit
<1>6. TrackerFits(NewTracker, lines, 0)
  <2>1. \A k : ~LastHeld(lines, 0, k)
    BY <1>3 DEF LastHeld
  <2>2. /\ NewTracker.current = {} /\ NewTracker.baseline = {} /\ NewTracker.fixed = {}
        /\ NewTracker.reconsidered = {} /\ NewTracker.active = FALSE
    BY DEF NewTracker
  <2> QED BY <1>2, <2>1, <2>2 DEF TrackerFits
<1> QED BY <1>1, <1>2, <1>5, <1>6 DEF PageFits

\* The page after a request.
LEMMA ReadRequest ==
  ASSUME NEW lines \in Seq(LogLine), NEW n \in Nat, n + 1 \in DOMAIN lines,
         NEW page, PageFits(page, lines, n), lines[n + 1].type = "llm_request"
  PROVE  PageFits(ReadLine(page, lines[n + 1]), lines, n + 1)
<1> DEFINE line == lines[n + 1]
           f == line.path
           t == line.task
           cards == [page.cards EXCEPT ![f][t] = Append(page.cards[f][t], Unsaid)]
           next == ReadLine(page, line)
<1>1. f \in Reviewed /\ t \in Tasks
  <2>1. line \in LogLine
    OBVIOUS
  <2> QED BY <2>1, LinesAreTyped DEF LineFits
<1>2. page \in Page /\ CardsFit(page, lines, n)
  BY DEF PageFits
<1>3. next = [page EXCEPT !.cards[f][t] = Append(@, Unsaid)]
  BY DEF ReadLine, Unsaid
<1>4. next = [page EXCEPT !.cards = cards]
  BY <1>3
<1> HIDE DEF next
<1>5. OfCall(line, f, t, "llm_request")
  BY DEF OfCall
<1>6. next.cards = cards /\ next.tracker = page.tracker /\ next.timelines = page.timelines
      /\ next.aborted = page.aborted /\ next.from = page.from
      /\ DOMAIN next = DOMAIN page
  <2> HIDE DEF cards
  <2> QED BY <1>2, <1>4 DEF Page
<1>7. CardsFit(next, lines, n + 1)
  <2> HIDE DEF line, f, t
  <2>1. OfCall(lines[n + 1], f, t, "llm_request")
    BY <1>5 DEF line
  <2> QED BY <1>1, <1>2, <1>6, <2>1, CardsAfterRequest
<1>8. next \in Page
  <2>1. cards \in [Reviewed -> [Tasks -> Seq(Card)]]
    BY <1>6, <1>7 DEF CardsFit
  <2> HIDE DEF cards
  <2> QED BY ONLY <1>2, <1>4, <2>1 DEF Page
<1>9. TrackerFits(next.tracker, lines, n + 1)
  BY <1>6, TrackerKept DEF PageFits
<1>10. 1..n \subseteq 1..(n + 1)
  OBVIOUS
<1> QED BY <1>6, <1>7, <1>8, <1>9, <1>10 DEF PageFits, next

\* The page after a response.
LEMMA ReadResponse ==
  ASSUME NEW lines \in Seq(LogLine), NEW n \in Nat, n + 1 \in DOMAIN lines,
         NEW page, PageFits(page, lines, n), lines[n + 1].type = "llm_response"
  PROVE  PageFits(ReadLine(page, lines[n + 1]), lines, n + 1)
<1> DEFINE line == lines[n + 1]
           f == line.path
           t == line.task
           cards == [page.cards EXCEPT ![f][t] = AttachResponse(@, line)]
           next == ReadLine(page, line)
<1>1. f \in Reviewed /\ t \in Tasks /\ line.blank \in BOOLEAN
  <2>1. line \in LogLine
    OBVIOUS
  <2> QED BY <2>1, LinesAreTyped DEF LineFits
<1>2. page \in Page /\ CardsFit(page, lines, n)
  BY DEF PageFits
<1>3. next = [page EXCEPT !.cards[f][t] = AttachResponse(@, line)]
  BY DEF ReadLine
<1>4. next = [page EXCEPT !.cards = cards]
  BY <1>3
<1> HIDE DEF next
<1>5. OfCall(line, f, t, "llm_response")
  BY DEF OfCall
<1>6. next.cards = cards /\ next.tracker = page.tracker /\ next.timelines = page.timelines
  <2> HIDE DEF cards
  <2> QED BY <1>2, <1>4 DEF Page
<1>7. CardsFit(next, lines, n + 1)
  <2>1. next.cards = [page.cards EXCEPT ![f][t] = AttachResponse(@, lines[n + 1])]
    BY <1>6
  <2>2. OfCall(lines[n + 1], f, t, "llm_response") /\ lines[n + 1].blank \in BOOLEAN
    BY <1>1, <1>5
  <2> HIDE DEF line, f, t
  <2> QED BY <1>1, <1>2, <2>1, <2>2, CardsAfterResponse
<1>8. next \in Page
  <2>1. cards \in [Reviewed -> [Tasks -> Seq(Card)]]
    BY <1>6, <1>7 DEF CardsFit
  <2> HIDE DEF cards
  <2> QED BY ONLY <1>2, <1>4, <2>1 DEF Page
<1>9. TrackerFits(next.tracker, lines, n + 1)
  BY <1>6, TrackerKept DEF PageFits
<1>10. 1..n \subseteq 1..(n + 1)
  OBVIOUS
<1> QED BY <1>6, <1>7, <1>8, <1>9, <1>10 DEF PageFits, next

\* The page after a line that is no card.
LEMMA ReadOther ==
  ASSUME NEW lines \in Seq(LogLine), ReusedFirst(lines), NEW n \in Nat,
         n + 1 \in DOMAIN lines, NEW page, PageFits(page, lines, n),
         lines[n + 1].type \notin {"llm_request", "llm_response"}
  PROVE  PageFits(ReadLine(page, lines[n + 1]), lines, n + 1)
<1> DEFINE line == lines[n + 1]
           next == ReadLine(page, line)
<1>1. page \in Page /\ CardsFit(page, lines, n) /\ TrackerFits(page.tracker, lines, n)
  BY DEF PageFits
<1>2. line \in LogLine /\ page.tracker \in Tracker /\ page.timelines \in Seq(Seq(Ruling))
  BY <1>1 DEF Page
<1>3. 1..n \subseteq 1..(n + 1) /\ n + 1 \in 1..(n + 1)
  OBVIOUS
<1>4. SUFFICES /\ next \in Page /\ next.cards = page.cards
               /\ TrackerFits(next.tracker, lines, n + 1)
               /\ \/ next.timelines = page.timelines
                  \/ /\ line.type = "finding_reconciliation"
                     /\ Last(next.timelines) = line.decisions
  <2>1. CardsFit(next, lines, n + 1)
    <3> HIDE DEF next
    <3> QED BY <1>1, <1>4, CardsKept
  <2> HIDE DEF next
  <2> QED BY <1>3, <1>4, <2>1 DEF PageFits, next
<1>5. CASE line.type = "session_start"
  <2>1. next = page \/ next = [page EXCEPT !.from = line.from]
    BY <1>5 DEF ReadLine
  <2>2. line.from \in Jobs \union {NoJob}
    BY <1>2, <1>5, LinesAreTyped DEF LineFits
  <2>3. TrackerFits(page.tracker, lines, n + 1)
    BY <1>1, <1>5, TrackerKept
  <2> HIDE DEF next, line
  <2>4. next \in Page /\ next.cards = page.cards /\ next.tracker = page.tracker
        /\ next.timelines = page.timelines
    BY ONLY <1>1, <2>1, <2>2 DEF Page
  <2> QED BY <2>3, <2>4
<1>6. CASE line.type \in {"done", "reused"}
  <2> DEFINE tracker == TrackerApplies(page.tracker, line)
  <2>1. next = [page EXCEPT !.tracker = tracker]
    BY <1>6 DEF ReadLine
  <2>2. TrackerFits(tracker, lines, n + 1)
    BY <1>1, <1>6, TrackerAfterLine
  <2>3. tracker \in Tracker
    BY <2>2 DEF TrackerFits
  <2> HIDE DEF next, line, tracker
  <2>4. next \in Page /\ next.cards = page.cards /\ next.tracker = tracker
        /\ next.timelines = page.timelines
    BY ONLY <1>1, <2>1, <2>3 DEF Page
  <2> QED BY <2>2, <2>4
<1>7. CASE line.type = "finding_reconciliation"
  <2> DEFINE decisions == line.decisions
             timelines == Append(page.timelines, decisions)
  <2>1. next = [page EXCEPT !.timelines = timelines]
    BY <1>7 DEF ReadLine
  <2>2. decisions \in Seq(Ruling)
    BY <1>2, <1>7, LinesAreTyped DEF LineFits
  <2>3. TrackerFits(page.tracker, lines, n + 1)
    BY <1>1, <1>7, TrackerKept
  <2> HIDE DEF decisions
  <2>4. timelines \in Seq(Seq(Ruling)) /\ Last(timelines) = decisions
    <3> DEFINE before == page.timelines
               order == Seq(Ruling)
    <3>1. before \in Seq(order) /\ decisions \in order
      BY <1>2, <2>2
    <3> HIDE DEF before, order
    <3>2. /\ Append(before, decisions) \in Seq(order)
          /\ Last(Append(before, decisions)) = decisions
      BY ONLY <3>1 DEF Last
    <3> QED BY <3>2 DEF before, order
  <2> HIDE DEF next, timelines
  <2>5. next \in Page /\ next.cards = page.cards /\ next.tracker = page.tracker
        /\ next.timelines = timelines
    BY ONLY <1>1, <2>1, <2>4 DEF Page
  <2> QED BY <1>7, <2>3, <2>4, <2>5 DEF decisions
<1>8. CASE line.type = "session_end"
  <2> DEFINE tracker == TrackerEnds(page.tracker)
  <2>1. next = [page EXCEPT !.aborted = FALSE, !.tracker = tracker]
    BY <1>8 DEF ReadLine
  <2>2. TrackerFits(tracker, lines, n + 1)
    <3>1. TrackerFits(page.tracker, lines, n + 1)
      BY <1>1, <1>8, TrackerKept
    <3> QED BY <3>1, TrackerAfterEnd
  <2>3. tracker \in Tracker
    BY <2>2 DEF TrackerFits
  <2> HIDE DEF next, line, tracker
  <2>4. next \in Page /\ next.cards = page.cards /\ next.tracker = tracker
        /\ next.timelines = page.timelines
    BY ONLY <1>1, <2>1, <2>3 DEF Page
  <2> QED BY <2>2, <2>4
<1>9. CASE line.type \notin {"session_start", "done", "reused", "finding_reconciliation",
                             "session_end"}
  <2>1. next = page
    BY <1>9 DEF ReadLine
  <2>2. TrackerFits(page.tracker, lines, n + 1)
    BY <1>1, <1>9, TrackerKept
  <2> QED BY <1>1, <2>1, <2>2
<1> QED BY <1>5, <1>6, <1>7, <1>8, <1>9

\* The page of a file shows what its lines say.
LEMMA PageOfLinesFits ==
  ASSUME NEW lines \in Seq(LogLine), ReusedFirst(lines)
  PROVE  PageFits(PageFrom(lines), lines, Len(lines))
<1> DEFINE n == Len(lines)
<1>1. n \in Nat /\ DOMAIN lines = 1..n
  OBVIOUS
<1>2. PICK g : PagesUnfold(g, lines, n) /\ PageFrom(lines) = g[n]
  BY <1>1, PageUnfolds
<1> HIDE DEF n
<1> DEFINE Wrong == {m \in 0..n : ~PageFits(g[m], lines, m)}
<1>3. SUFFICES ASSUME Wrong # {} PROVE FALSE
  BY <1>1, <1>2 DEF n
<1>4. PICK m \in Wrong : \A k \in Wrong : m <= k
  <2>1. Wrong \in SUBSET Nat
    BY <1>1
  <2> HIDE DEF Wrong
  <2> QED BY <1>3, <2>1, LeastNumber
<1>5. m # 0
  BY <1>2, <1>4, EmptyPageFits DEF PagesUnfold
<1>6. /\ m - 1 \in Nat /\ (m - 1) + 1 = m /\ m \in 1..n /\ m - 1 \in 0..n
      /\ m - 1 \notin Wrong
  BY <1>1, <1>4, <1>5
<1>7. PageFits(g[m - 1], lines, m - 1) /\ g[m] = ReadLine(g[m - 1], lines[m])
  BY <1>2, <1>6 DEF PagesUnfold
<1>8. PageFits(g[m], lines, m)
  <2>1. lines[(m - 1) + 1] = lines[m] /\ (m - 1) + 1 \in DOMAIN lines
    BY <1>1, <1>6
  <2>2. PageFits(ReadLine(g[m - 1], lines[(m - 1) + 1]), lines, (m - 1) + 1)
    BY <1>6, <1>7, <2>1, ReadRequest, ReadResponse, ReadOther
  <2> QED BY <1>6, <1>7, <2>2
<1> QED BY <1>4, <1>8

\* What the tracker says of the lines it has read is what Findings starts from.
LEMMA StatusesFit ==
  ASSUME NEW lines, NEW n \in Nat, NEW t, TrackerFits(t, lines, n)
  PROVE  LET ended == TrackerEnds(t)
             statuses == Statuses(ended)
         IN  /\ \A k \in AnyKey : LastHeld(lines, n, k) =>
                  k \in DOMAIN statuses /\ statuses[k] # "fixed"
             /\ \A k \in DOMAIN statuses : k \in AnyKey
             /\ \A k \in DOMAIN statuses : ~LastHeld(lines, n, k) =>
                  statuses[k] = "fixed" /\ Gone(lines, n, k)
<1> DEFINE ended == TrackerEnds(t)
           statuses == Statuses(ended)
<1>1. TrackerFits(ended, lines, n)
  BY TrackerAfterEnd
<1>2. ended.current \in SUBSET AnyKey /\ ended.fixed \in SUBSET AnyKey
      /\ ended.compared \in BOOLEAN
  BY <1>1 DEF TrackerFits, Tracker
<1> HIDE DEF ended
<1>3. /\ DOMAIN statuses = ended.current \union ended.fixed
      /\ \A k \in ended.current \union ended.fixed :
           statuses[k] = CASE k \notin ended.current -> "fixed"
                           [] k \in ended.current /\ ~ended.compared -> "current"
                           [] k \in ended.current /\ ended.compared ->
                                IF k \in ended.new THEN "new" ELSE "unfixed"
  BY DEF Statuses
<1> HIDE DEF statuses
<1>4. \A k \in ended.current : statuses[k] # "fixed"
  BY <1>2, <1>3
<1>5. \A k \in ended.fixed : k \notin ended.current => statuses[k] = "fixed"
  BY <1>3
<1>6. \A k \in AnyKey : k \in ended.current <=> LastHeld(lines, n, k)
  BY <1>1 DEF TrackerFits
<1>7. \A k \in ended.fixed : Gone(lines, n, k)
  BY <1>1 DEF TrackerFits
<1> QED BY <1>2, <1>3, <1>4, <1>5, <1>6, <1>7 DEF statuses, ended

\* What the decisions make of the statuses.
LEMMA AdjudicatedFits ==
  ASSUME NEW statuses, NEW decisions \in Seq(Ruling), NEW k,
         k \in DOMAIN Adjudicated(statuses, decisions)
  PROVE  LET naming == {i \in DOMAIN decisions :
                          \E c \in Named(decisions[i]) : Key(c) = k}
         IN  /\ \/ k \in DOMAIN statuses /\ statuses[k] # "fixed"
                \/ naming # {}
             /\ Adjudicated(statuses, decisions)[k] = "fixed" =>
                  \E i \in naming : decisions[i].status = "fixed"
<1> DEFINE kept == {q \in DOMAIN statuses : statuses[q] # "fixed"}
           Said(q) == {i \in DOMAIN decisions : \E c \in Named(decisions[i]) : Key(c) = q}
           named == {Key(c) : c \in UNION {Named(decisions[i]) : i \in DOMAIN decisions}}
           value(q) == IF Said(q) = {} THEN "unfixed"
                       ELSE LET last == CHOOSE i \in Said(q) : \A n \in Said(q) : n <= i
                            IN  decisions[last].status
<1>1. Adjudicated(statuses, decisions) = [q \in kept \union named |-> value(q)]
  BY DEF Adjudicated
<1>2. k \in kept \union named /\ Adjudicated(statuses, decisions)[k] = value(k)
  <2> HIDE DEF value, kept, named
  <2> QED BY <1>1
<1>3. k \in named => Said(k) # {}
  OBVIOUS
<1>4. ASSUME value(k) = "fixed" PROVE \E i \in Said(k) : decisions[i].status = "fixed"
  <2>1. Said(k) # {}
    BY <1>4
  <2>2. Len(decisions) \in Nat /\ Said(k) \in SUBSET (1..Len(decisions))
    OBVIOUS
  <2> DEFINE last == CHOOSE i \in Said(k) : \A n \in Said(k) : n <= i
  <2>3. last \in Said(k)
    <3> HIDE DEF Said
    <3> QED BY <2>1, <2>2, LastPosition
  <2>4. decisions[last].status = "fixed"
    <3> HIDE DEF Said
    <3> QED BY <1>4, <2>1
  <2> HIDE DEF Said, last
  <2> QED BY <2>3, <2>4
<1> QED BY <1>2, <1>3, <1>4

\* The file's own say on a finding.
LEMMA LatestIsHeld ==
  ASSUME NEW lines \in Seq(LogLine), NEW k \in AnyKey
  PROVE  LastHeld(lines, Len(lines), k) <=>
           \E c \in Of(LatestComments(lines, k.path)) : Key(c) = k
<1>1. k.path \in Reviewed
  BY DEF AnyKey
<1>2. Len(lines) \in Nat /\ DOMAIN lines = 1..Len(lines)
  OBVIOUS
<1>3. CASE /\ \A i \in DOMAIN lines : ~Reports(lines[i], k.path)
           /\ LatestComments(lines, k.path) = NoItem
  BY <1>2, <1>3 DEF LastHeld, Of
<1>4. CASE \E i \in DOMAIN lines :
             /\ Reports(lines[i], k.path)
             /\ \A m \in DOMAIN lines : Reports(lines[m], k.path) => m <= i
             /\ LatestComments(lines, k.path) = lines[i].comments
             /\ lines[i].comments \in FindingsOf(k.path)
  <2>1. PICK i \in DOMAIN lines :
          /\ Reports(lines[i], k.path)
          /\ \A m \in DOMAIN lines : Reports(lines[m], k.path) => m <= i
          /\ LatestComments(lines, k.path) = lines[i].comments
          /\ lines[i].comments \in FindingsOf(k.path)
    BY <1>4
  <2>2. Of(LatestComments(lines, k.path)) = ToSet(lines[i].comments)
    BY <1>1, <2>1, FindingsTyped DEF Of
  <2>3. k \in Keys(lines[i].comments) <=>
          \E c \in Of(LatestComments(lines, k.path)) : Key(c) = k
    BY <2>2 DEF Keys
  <2>4. LastHeld(lines, Len(lines), k) <=> k \in Keys(lines[i].comments)
    <3>1. ASSUME k \in Keys(lines[i].comments) PROVE LastHeld(lines, Len(lines), k)
      <4>1. \A m \in (i + 1)..Len(lines) : m \in DOMAIN lines /\ ~(m <= i)
        BY <1>2, <2>1
      <4> QED BY <1>2, <2>1, <3>1, <4>1 DEF LastHeld
    <3>2. ASSUME LastHeld(lines, Len(lines), k) PROVE k \in Keys(lines[i].comments)
      <4>1. PICK h \in 1..Len(lines) :
              /\ Reports(lines[h], k.path) /\ k \in Keys(lines[h].comments)
              /\ \A m \in (h + 1)..Len(lines) : ~Reports(lines[m], k.path)
        BY <3>2 DEF LastHeld
      <4>2. h <= i /\ i \in 1..Len(lines)
        BY <1>2, <2>1, <4>1
      <4>3. h # i => i \in (h + 1)..Len(lines)
        BY <1>2, <4>1, <4>2
      <4>4. h = i
        BY <2>1, <4>1, <4>3
      <4> QED BY <4>1, <4>4
    <3> QED BY <3>1, <3>2
  <2> QED BY <2>3, <2>4
<1> QED BY <1>1, <1>3, <1>4, LatestFound

\* A file without overlapping requests, or with them, and its report.
LEMMA ReportFits ==
  ASSUME NEW j \in Jobs, crossed \in BOOLEAN, LinesFit(files[j], crossed)
  PROVE  LET page == PageOf(j)
             findings == Findings(page)
         IN  /\ FoundIsShown(j, findings, page) /\ ShownIsFound(j, findings, page)
             /\ TokensOnce(j, page)
<1> DEFINE lines == files[j]
           n == Len(lines)
           page == PageOf(j)
           ended == TrackerEnds(page.tracker)
           statuses == Statuses(ended)
           findings == Findings(page)
           order == Last(page.timelines)
<1>1. lines \in Seq(LogLine) /\ ReusedFirst(lines) /\ (~crossed => Paired(lines))
  BY DEF LinesFit
<1>2. n \in Nat /\ DOMAIN lines = 1..n
  BY <1>1
<1>3. PageFits(page, lines, n)
  BY <1>1, PageOfLinesFits DEF PageOf
<1> HIDE DEF page
<1>4. /\ \A k \in AnyKey : LastHeld(lines, n, k) =>
           k \in DOMAIN statuses /\ statuses[k] # "fixed"
      /\ \A k \in DOMAIN statuses : k \in AnyKey
      /\ \A k \in DOMAIN statuses : ~LastHeld(lines, n, k) =>
           statuses[k] = "fixed" /\ Gone(lines, n, k)
  <2>1. TrackerFits(page.tracker, lines, n)
    BY <1>3 DEF PageFits
  <2> HIDE DEF lines, n
  <2> QED BY <1>2, <2>1, StatusesFit
<1>5. page.timelines \in Seq(Seq(Ruling))
  BY <1>3 DEF PageFits, Page
<1>6. page.timelines # <<>> => order \in Seq(Ruling)
  <2> DEFINE all == page.timelines
             S == Seq(Ruling)
  <2>1. all \in Seq(S)
    BY <1>5
  <2> HIDE DEF all, S
  <2>2. all # <<>> => Last(all) \in S
    <3> SUFFICES ASSUME all # <<>>
                 PROVE  Last(all) \in S
      OBVIOUS
    <3>1. Len(all) \in DOMAIN all /\ Last(all) = all[Len(all)]
      BY <2>1 DEF Last
    <3> QED BY <2>1, <3>1
  <2> QED BY <2>2 DEF all, S
<1>7. findings = IF page.timelines = <<>> THEN statuses ELSE Adjudicated(statuses, order)
  BY DEF Findings
<1> HIDE DEF findings, statuses
<1>8. ASSUME NEW f \in Reviewed, NEW c \in Of(LatestComments(lines, f))
      PROVE  Key(c) \in AnyKey /\ Key(c).path = f
  <2>1. LatestComments(lines, f) \in FindingsOf(f)
    <3>1. LatestComments(lines, f) \in Items(f) /\ LatestComments(lines, f) # NoItem
      BY <1>1, <1>8, LatestTyped DEF Of
    <3> QED BY <3>1 DEF Items, FindingsOf
  <2>2. Key(c) \in Keys(LatestComments(lines, f))
    <3>1. Of(LatestComments(lines, f)) = ToSet(LatestComments(lines, f))
      BY <2>1, FindingsTyped DEF Of
    <3> QED BY <1>8, <3>1 DEF Keys
  <2> QED BY <2>1, <2>2, KeysTyped
<1>9. FoundIsShown(j, findings, page)
  <2>1. SUFFICES ASSUME NEW f \in Reviewed, NEW c \in Of(LatestComments(lines, f))
                 PROVE  /\ Key(c) \in DOMAIN findings
                        /\ findings[Key(c)] = "fixed" =>
                             \E i \in DOMAIN order :
                               /\ order[i].status = "fixed"
                               /\ \E h \in order[i].was : Key(h) = Key(c)
    BY DEF FoundIsShown
  <2> DEFINE k == Key(c)
  <2>2. k \in AnyKey /\ LastHeld(lines, n, k)
    BY <1>1, <1>8, <2>1, LatestIsHeld
  <2>3. k \in DOMAIN statuses /\ statuses[k] # "fixed"
    BY <1>4, <2>2
  <2> HIDE DEF k
  <2>4. CASE page.timelines = <<>>
    BY <1>7, <2>3, <2>4 DEF k
  <2>5. CASE page.timelines # <<>>
    <3>1. findings = Adjudicated(statuses, order) /\ order \in Seq(Ruling)
      BY <1>6, <1>7, <2>5
    <3> HIDE DEF order
    <3>2. k \in DOMAIN Adjudicated(statuses, order)
      BY <2>3 DEF Adjudicated
    <3>3. ASSUME Adjudicated(statuses, order)[k] = "fixed"
          PROVE  \E i \in DOMAIN order : /\ order[i].status = "fixed"
                                         /\ \E h \in order[i].was : Key(h) = k
      <4>1. PICK i \in DOMAIN order : /\ \E h \in Named(order[i]) : Key(h) = k
                                      /\ order[i].status = "fixed"
        BY <3>1, <3>2, <3>3, AdjudicatedFits
      <4> QED BY <4>1 DEF Named
    <3> QED BY <3>1, <3>2, <3>3 DEF k
  <2> QED BY <2>4, <2>5
<1>10. ShownIsFound(j, findings, page)
  <2>1. SUFFICES ASSUME NEW k \in DOMAIN findings
                 PROVE  \/ \E f \in Reviewed : \E c \in Of(LatestComments(lines, f)) :
                             Key(c) = k
                        \/ \E i \in LinesOf(j, {"finding_reconciliation"}) :
                             \E d \in ToSet(lines[i].decisions) :
                               \E c \in Named(d) : Key(c) = k
                        \/ /\ findings[k] = "fixed"
                           /\ \E i \in LinesOf(j, {"done", "reused"}),
                                 m \in LinesOf(j, {"done"}) :
                                i < m /\ k \in Keys(lines[i].comments)
                                  /\ lines[m].path = k.path
                                  /\ k \notin Keys(lines[m].comments)
    BY DEF ShownIsFound
  <2>2. ASSUME k \in AnyKey, LastHeld(lines, n, k)
        PROVE  \E f \in Reviewed : \E c \in Of(LatestComments(lines, f)) : Key(c) = k
    <3>1. k.path \in Reviewed
      BY <2>2 DEF AnyKey
    <3> QED BY <1>1, <2>2, <3>1, LatestIsHeld
  <2>3. ASSUME Gone(lines, n, k)
        PROVE  \E i \in LinesOf(j, {"done", "reused"}), m \in LinesOf(j, {"done"}) :
                 i < m /\ k \in Keys(lines[i].comments) /\ lines[m].path = k.path
                   /\ k \notin Keys(lines[m].comments)
    BY <1>2, <2>3 DEF Gone, Holds, LinesOf
  <2>4. CASE page.timelines = <<>>
    BY <1>4, <1>7, <2>1, <2>2, <2>3, <2>4
  <2>5. CASE page.timelines # <<>>
    <3>1. findings = Adjudicated(statuses, order) /\ order \in Seq(Ruling)
      BY <1>6, <1>7, <2>5
    <3>2. PICK i \in 1..n : lines[i].type = "finding_reconciliation"
                            /\ order = lines[i].decisions
      BY <1>3, <2>5 DEF PageFits
    <3> HIDE DEF order
    <3>3. \/ k \in DOMAIN statuses /\ statuses[k] # "fixed"
          \/ \E m \in DOMAIN order : \E c \in Named(order[m]) : Key(c) = k
      BY <2>1, <3>1, AdjudicatedFits
    <3>4. CASE k \in DOMAIN statuses /\ statuses[k] # "fixed"
      BY <1>4, <2>2, <3>4
    <3>5. CASE \E m \in DOMAIN order : \E c \in Named(order[m]) : Key(c) = k
      <4>1. i \in LinesOf(j, {"finding_reconciliation"})
        BY <1>2, <3>2 DEF LinesOf
      <4> QED BY <3>2, <3>5, <4>1 DEF ToSet
    <3> QED BY <3>3, <3>4, <3>5
  <2> QED BY <2>4, <2>5
<1>11. TokensOnce(j, page)
  <2>1. LinesOf(j, {"llm_response"}) = Responses(lines, n)
    BY <1>2 DEF LinesOf, Responses
  <2>2. CardsFit(page, lines, n)
    BY <1>3 DEF PageFits
  <2> QED BY <1>1, <2>1, <2>2 DEF TokensOnce, Tokens, CardsFit
<1> QED BY <1>9, <1>10, <1>11 DEF findings, page

\* The report of a job agrees with the lines of its session at every moment of
\* the reviews that write it: LoadSession shows what the last review of a file
\* found, as fixed only what a decision or a later review says is, nothing the
\* lines do not say, and counts no response's tokens twice.
THEOREM ReportsAlwaysAgree == ReportSpec => []ReportAgrees
<1>1. WritingFits => ReportAgrees
  BY ReportFits DEF WritingFits, FilesFit, ReportAgrees
<1> QED BY <1>1, WritingAlwaysFits, PTL
=============================================================================
