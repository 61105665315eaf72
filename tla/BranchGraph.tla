---------------------------- MODULE BranchGraph ----------------------------
(***************************************************************************)
(* The branch graph of a project (quality.go): requests list the branches  *)
(* and the merge requests, ask GitLab beside each other for the changed    *)
(* files of each merge request and for the branches that contain each tip, *)
(* and keep the answers for ten minutes in caches that all of them share.  *)
(*                                                                         *)
(* A commit's sequence number, cached in the same way, never changes.      *)
(***************************************************************************)
EXTENDS Integers, Sequences, FiniteSets

CONSTANTS
  Branches, Commits,
  FirstTips,      \* where the branches are at first
  Ancestors,      \* of each commit: what it contains, itself included
  Sequence,       \* of each commit: GitLab's count
  MRs,
  Between,        \* of each merge request: <<source branch, target branch>>
  FileCounts,     \* numbers of files a merge request may change
  Viewers,        \* requests for the graph, beside or after each other
  Unknown,        \* no answer
  Life,           \* lifetime of a cache entry, 10 min in the code
  MaxTime,        \* bound: minutes that pass
  MaxMoves        \* bound: pushes

ASSUME GraphAssumption ==
  /\ MRs \intersect Branches = {}
  /\ \A c \in Commits : c \in Ancestors[c] /\ \A a \in Ancestors[c] : Sequence[a] <= Sequence[c]
  /\ FirstTips \in [Branches -> Commits] /\ Ancestors \in [Commits -> SUBSET Commits]
  /\ Sequence \in [Commits -> Nat] /\ FileCounts # {}
  /\ Life \in Nat \ {0} /\ {MaxTime, MaxMoves} \subseteq Nat

Items == MRs \union Branches

VARIABLES
  tips,      \* the commit of each branch
  versions,  \* of each merge request: its counts of changed files; the last
             \* index is its updated_at
  minute,    \* the clock
  moves,     \* pushes so far
  branchDiffCache, branchRefsCache,
  requests,  \* the requests for the graph
  held       \* history: when each branch last contained each commit

graphVars == <<tips, versions, minute, moves, branchDiffCache, branchRefsCache,
               requests, held>>

Entry(value, expires) == [value |-> value, expires |-> expires]
Empty == Entry(Unknown, 0)

Call == [step |-> "todo", at |-> 0, value |-> Unknown]
NoRequest == [stage |-> "idle", tips |-> Unknown, listed |-> Unknown,
              calls |-> [i \in Items |-> Call]]

HasCommit(branch, commit) == commit \in Ancestors[tips[branch]]

GraphInit ==
  /\ tips = FirstTips
  /\ versions = [m \in MRs |-> <<CHOOSE n \in FileCounts : TRUE>>]
  /\ minute = 0 /\ moves = 0
  /\ branchDiffCache = [k \in MRs \X (0..MaxMoves + 1) |-> Empty]
  /\ branchRefsCache = [c \in Commits |-> Empty]
  /\ requests = [v \in Viewers |-> NoRequest]
  /\ held = [b \in Branches |-> [c \in Commits |-> IF HasCommit(b, c) THEN 0 ELSE -1]]

-----------------------------------------------------------------------------
(* The world. *)

\* A push to a branch, forced or not.
Push(branch, commit) ==
  /\ moves < MaxMoves /\ moves' = moves + 1 /\ tips[branch] # commit
  /\ tips' = [tips EXCEPT ![branch] = commit]
  /\ held' = [b \in Branches |-> [c \in Commits |->
                IF c \in Ancestors[tips'[b]] THEN minute ELSE held[b][c]]]
  /\ UNCHANGED <<versions, minute, branchDiffCache, branchRefsCache, requests>>

\* A push to the source branch of a merge request, which a fork may hold.
Revise(m) ==
  /\ moves < MaxMoves /\ moves' = moves + 1
  /\ \E n \in FileCounts : versions' = [versions EXCEPT ![m] = Append(@, n)]
  /\ UNCHANGED <<tips, minute, branchDiffCache, branchRefsCache, requests, held>>

Pass ==
  /\ minute < MaxTime /\ minute' = minute + 1
  /\ held' = [b \in Branches |-> [c \in Commits |->
                IF HasCommit(b, c) THEN minute + 1 ELSE held[b][c]]]
  /\ UNCHANGED <<tips, versions, moves, branchDiffCache, branchRefsCache, requests>>

-----------------------------------------------------------------------------
(* The requests. *)

World == <<tips, versions, minute, moves, held>>
Caches == <<branchDiffCache, branchRefsCache>>

ListBranches(v) ==
  /\ requests[v].stage = "idle"
  /\ requests' = [requests EXCEPT ![v] = [NoRequest EXCEPT !.stage = "branches", !.tips = tips]]
  /\ UNCHANGED <<World, Caches>>

ListMergeRequests(v) ==
  /\ requests[v].stage = "branches"
  /\ requests' = [requests EXCEPT ![v].stage = "files",
                    ![v].listed = [m \in MRs |-> Len(versions[m])]]
  /\ UNCHANGED <<World, Caches>>

\* Mutant of DiffKey: the diff of the merge request, whatever its version.
KeyOfRequest(m, listed) == <<m, 0>>

DiffKey(m, listed) == <<m, listed>>

Valid(entry) == entry.value # Unknown /\ entry.expires > minute

Cached(v, i) ==
  IF i \in MRs THEN branchDiffCache[DiffKey(i, requests[v].listed[i])]
               ELSE branchRefsCache[requests[v].tips[i]]

\* The goroutines of a stage run beside each other; the semaphore only bounds
\* how many do.
Runs(v, i) == requests[v].stage = IF i \in MRs THEN "files" ELSE "refs"

\* The cache is looked up under its mutex, and asked without it.
LookUp(v, i) ==
  /\ Runs(v, i) /\ requests[v].calls[i].step = "todo"
  /\ requests' = [requests EXCEPT ![v].calls[i] =
       IF Valid(Cached(v, i))
       THEN [step |-> "done", at |-> minute, value |-> Cached(v, i).value]
       ELSE [step |-> "asked", at |-> minute, value |-> Unknown]]
  /\ UNCHANGED <<World, Caches>>

\* ListMergeRequestDiffs and ListCommitBranchRefs: an error, or an answer for
\* the cache, whose entry is as old as the look-up that missed it.
Fetch(v, i) ==
  LET call == requests[v].calls[i]
      answer == IF i \in MRs THEN versions[i][Len(versions[i])]
                ELSE {b \in Branches : HasCommit(b, requests[v].tips[i])}
      entry == Entry(answer, call.at + Life)
  IN  /\ call.step = "asked"
      /\ \/ /\ requests' = [requests EXCEPT ![v].calls[i].step = "failed"]
            /\ UNCHANGED Caches
         \/ /\ requests' = [requests EXCEPT ![v].calls[i].step = "done",
                                            ![v].calls[i].value = answer]
            /\ IF i \in MRs
               THEN /\ branchDiffCache' =
                         [branchDiffCache EXCEPT ![DiffKey(i, requests[v].listed[i])] = entry]
                    /\ UNCHANGED branchRefsCache
               ELSE /\ branchRefsCache' =
                         [branchRefsCache EXCEPT ![requests[v].tips[i]] = entry]
                    /\ UNCHANGED branchDiffCache
  /\ UNCHANGED World

Through(v, items) == \A i \in items : requests[v].calls[i].step \in {"done", "failed"}

\* changedWG.Wait and loadWG.Wait.
NextStage(v) ==
  /\ \/ requests[v].stage = "files" /\ Through(v, MRs)
        /\ requests' = [requests EXCEPT ![v].stage = "refs"]
     \/ requests[v].stage = "refs" /\ Through(v, Branches)
        /\ requests' = [requests EXCEPT ![v].stage = "shown"]
  /\ UNCHANGED <<World, Caches>>

GraphNext ==
  \/ Pass
  \/ \E b \in Branches, c \in Commits : Push(b, c)
  \/ \E m \in MRs : Revise(m)
  \/ \E v \in Viewers :
       \/ ListBranches(v) \/ ListMergeRequests(v) \/ NextStage(v)
       \/ \E i \in Items : LookUp(v, i) \/ Fetch(v, i)

GraphSpec == GraphInit /\ [][GraphNext]_graphVars

-----------------------------------------------------------------------------
(* The graph that is shown. *)

\* inferGitBranchRelations: the nearest branch ahead that contains the tip;
\* nothing at all when one of the calls failed.
Ahead(v, source) ==
  {t \in requests[v].calls[source].value :
     Sequence[requests[v].tips[t]] > Sequence[requests[v].tips[source]]}

Nearest(v, source) ==
  CHOOSE t \in Ahead(v, source) : \A u \in Ahead(v, source) :
    Sequence[requests[v].tips[t]] <= Sequence[requests[v].tips[u]]

InferGitBranchRelations(v) ==
  IF \E b \in Branches : requests[v].calls[b].step = "failed" THEN {}
  ELSE {<<s, Nearest(v, s)>> : s \in {b \in Branches : Ahead(v, b) # {}}}

\* The relations of merge requests, both ways, come before the inferred ones.
MRRelations == {Between[m] : m \in MRs} \union {<<Between[m][2], Between[m][1]>> : m \in MRs}

GitRelations(v) == InferGitBranchRelations(v) \ MRRelations

\* A graph shows a number of changed files that its merge request has had since
\* it was listed, and an inferred relation only if the one branch has contained
\* the other's tip within the ten minutes before it was looked up.
GraphIsRecent ==
  \A v \in Viewers : requests[v].stage = "shown" =>
    /\ \A m \in MRs : requests[v].calls[m].step = "done" =>
         \E n \in requests[v].listed[m]..Len(versions[m]) :
           requests[v].calls[m].value = versions[m][n]
    /\ \A r \in GitRelations(v) :
         held[r[2]][requests[v].tips[r[1]]] > requests[v].calls[r[1]].at - Life
=============================================================================
