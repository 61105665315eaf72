---------------------------- MODULE Conversation ----------------------------
(***************************************************************************)
(* llmloop's RunPerFile: the tool-use conversation the model holds about   *)
(* one file, and the compression that keeps it below the token limits.     *)
(* Conversations of several files run at once on one Runner.  Above the    *)
(* soft limit a goroutine summarises a snapshot while the conversation     *)
(* goes on; above the warning limit the loop summarises at once.           *)
(*                                                                         *)
(* A context is what messages holds: the two frozen messages, whose size   *)
(* is base and whose last one carries the summaries, and the live messages *)
(* after them.  covered is what the summaries stand for.  A round is an    *)
(* assistant message with its tool results; a nudge asks for a tool call.  *)
(***************************************************************************)
EXTENDS Integers, Sequences, FiniteSets, FiniteSetsExt

CONSTANTS
  Files,                 \* reviewed files, one conversation each
  MaxTokens,             \* template MAX_TOKENS
  MaxToolRequestTimes,   \* template MAX_TOOL_REQUEST_TIMES
  PromptTokens,          \* size of the two messages RunPerFile is given
  RoundSizes,            \* sizes of a round
  NudgeTokens,           \* size of the nudge
  SummarySizes,          \* sizes of a summary
  NoJob,                 \* pendingJob = nil
  NoContext              \* job.rebuilt = nil: the job has not ended

Item == [file : Files, turn : Nat, kind : {"round", "nudge"}, size : Nat]

Context == [base : Nat, covered : Seq(Item), live : Seq(Item)]

ASSUME ConversationAssumption ==
  /\ MaxTokens \in Nat /\ MaxToolRequestTimes \in Nat
  /\ PromptTokens \in Nat /\ NudgeTokens \in Nat
  /\ RoundSizes \subseteq Nat /\ SummarySizes \subseteq Nat
  /\ NoJob \notin [file : Files, turn : Nat, snapshot : Context]
  /\ NoContext \notin Context

VARIABLES
  context,     \* messages, of each conversation
  said,        \* history: every message appended to it, in order
  requests,    \* toolReqCount
  empty,       \* consecutiveEmptyRounds
  stop,        \* "none" while it runs, else why it ended
  slot,        \* compressionState: the pending job and its result
  running      \* background compressions that have not ended

vars == <<context, said, requests, empty, stop, slot, running>>

MaxConsecutiveEmptyRounds == 3

SoftLimit == (MaxTokens * 60) \div 100
WarnLimit == (MaxTokens * 80) \div 100

Free == [job |-> NoJob, result |-> NoContext]

\* Each conversation owns its compressionState.
SlotOf(f) == f

Init ==
  /\ context = [f \in Files |->
                  [base |-> PromptTokens, covered |-> <<>>, live |-> <<>>]]
  /\ said = [f \in Files |-> <<>>]
  /\ requests = [f \in Files |-> MaxToolRequestTimes]
  /\ empty = [f \in Files |-> 0]
  /\ stop = [f \in Files |-> "none"]
  /\ slot = [f \in Files |-> Free]
  /\ running = {}

-----------------------------------------------------------------------------
(* Compression of a context. *)

TokensOf(items, indices) ==
  MapThenSumSet(LAMBDA i : items[i].size, indices)

\* CountMessagesTokens
Count(c) == c.base + TokensOf(c.live, DOMAIN c.live)

Rounds(c) == {i \in DOMAIN c.live : c.live[i].kind = "round"}

From(c, i) == {k \in Rounds(c) : k >= i}

\* computeActiveZoneSize: the newest rounds that fit the budget together.
ActiveZone(c) == {i \in Rounds(c) : TokensOf(c.live, From(c, i)) <= WarnLimit}

\* partitionMessages: how many live messages are summarised, those up to the
\* last round outside the active zone; all of them when every round fits.
CompressEnd(c) ==
  IF ActiveZone(c) = Rounds(c) THEN Len(c.live)
  ELSE Cardinality({i \in DOMAIN c.live :
                      \E r \in Rounds(c) \ ActiveZone(c) : i <= r})

Compressed(c, size) ==
  [base |-> c.base + size,
   covered |-> c.covered \o SubSeq(c.live, 1, CompressEnd(c)),
   live |-> SubSeq(c.live, CompressEnd(c) + 1, Len(c.live))]

\* runCompression: the model answers with a summary, or with nothing.
Compressions(c) ==
  {c} \union (IF c.live = <<>> THEN {}
              ELSE {Compressed(c, size) : size \in SummarySizes})

\* What the synchronous compression leaves; when its request fails, the same.
Reduced(c) == IF Count(c) > WarnLimit THEN Compressions(c) ELSE {c}

-----------------------------------------------------------------------------
(* The pending job of a conversation. *)

\* Mutant of Cancelled: the job goes on and its result is applied later.
Kept(p) == p

\* cancelPendingCompression
Cancelled(p) == Free

\* tryApplyPendingCompression: the result, and what was appended since.
Ended(p) == p.result # NoContext

Applied(c, p) ==
  IF ~Ended(p) THEN c
  ELSE [p.result EXCEPT !.live =
          @ \o SubSeq(c.live, Len(p.job.snapshot.live) + 1, Len(c.live))]

AfterApply(p) == IF Ended(p) THEN Free ELSE p

\* A goroutine whose job is no longer the pending one leaves it alone.
Finishes(j, result) ==
  /\ running' = running \ {j}
  /\ slot' = IF slot[SlotOf(j.file)].job = j
               THEN [slot EXCEPT ![SlotOf(j.file)] = result] ELSE slot
  /\ UNCHANGED <<context, said, requests, empty, stop>>

BackgroundCompresses(j) ==
  \E c \in Compressions(j.snapshot) : Finishes(j, [job |-> j, result |-> c])

\* The request fails, or the job was canceled or took five minutes.
BackgroundFails(j) == Finishes(j, Free)

-----------------------------------------------------------------------------
(* The loop. *)

Talking(f) == stop[f] = "none" /\ requests[f] > 0

\* The deferred cancelPendingCompression of a conversation that ends.
EndsWith(f, reason) ==
  /\ stop' = [stop EXCEPT ![f] = reason]
  /\ slot' = [slot EXCEPT ![SlotOf(f)] = Cancelled(@)]

Turn(f) == requests' = [requests EXCEPT ![f] = @ - 1]

\* addNextMessage.
AddNextMessage(f, round) ==
  LET s == SlotOf(f)
      ready == slot[s]
      applied == Applied(context[f], ready)
      left == IF Count(applied) > WarnLimit
                THEN Cancelled(AfterApply(ready)) ELSE AfterApply(ready)
  IN \E before \in Reduced(applied) :
       LET appended == [before EXCEPT !.live = Append(@, round)]
           pending == IF Count(appended) > WarnLimit
                        THEN Cancelled(left) ELSE left
       IN \E after \in Reduced(appended) :
            LET final == Count(after)
                trigger == /\ final > SoftLimit /\ final < WarnLimit
                           /\ pending = Free
                j == [file |-> f, turn |-> requests[f], snapshot |-> after]
            IN /\ context' = [context EXCEPT ![f] = after]
               /\ said' = [said EXCEPT ![f] = Append(@, round)]
               /\ running' = IF trigger THEN running \union {j} ELSE running
               /\ LET next == IF trigger
                                THEN [job |-> j, result |-> NoContext]
                                ELSE pending
                  IN IF final < WarnLimit
                       THEN /\ slot' = [slot EXCEPT ![s] = next]
                            /\ UNCHANGED stop
                       ELSE /\ slot' = [slot EXCEPT ![s] = Cancelled(next)]
                            /\ stop' = [stop EXCEPT ![f] = "compression"]

NewItem(f, kind, size) ==
  [file |-> f, turn |-> requests[f], kind |-> kind, size |-> size]

\* The answer calls tools; results are errors at worst.
ToolRound(f) ==
  /\ Talking(f)
  /\ \E size \in RoundSizes : AddNextMessage(f, NewItem(f, "round", size))
  /\ Turn(f)
  /\ empty' = [empty EXCEPT ![f] = 0]

\* No call of the answer gave a result.
EmptyRound(f) ==
  /\ Talking(f)
  /\ empty' = [empty EXCEPT ![f] = @ + 1]
  /\ IF empty[f] + 1 >= MaxConsecutiveEmptyRounds
       THEN EndsWith(f, "empty_rounds") /\ UNCHANGED <<context, said, running>>
       ELSE \E size \in RoundSizes :
              AddNextMessage(f, NewItem(f, "round", size))
  /\ Turn(f)

\* The answer calls no tool: its text, if any, and a nudge are appended, and
\* no limit is looked at.
NoToolCalls(f) ==
  /\ Talking(f)
  /\ \E text \in {<<>>} \union
                 {<<NewItem(f, "round", size)>> : size \in RoundSizes} :
       LET new == Append(text, NewItem(f, "nudge", NudgeTokens)) IN
       /\ context' = [context EXCEPT ![f].live = @ \o new]
       /\ said' = [said EXCEPT ![f] = @ \o new]
  /\ Turn(f)
  /\ UNCHANGED <<empty, stop, slot, running>>

\* task_done, or an error of the request, of task_done or of the context.
Ends(f) ==
  /\ Talking(f)
  /\ \E reason \in {"completed", "error"} : EndsWith(f, reason)
  /\ Turn(f)
  /\ UNCHANGED <<context, said, empty, running>>

RoundsExhausted(f) ==
  /\ stop[f] = "none" /\ requests[f] = 0
  /\ EndsWith(f, "max_rounds")
  /\ UNCHANGED <<context, said, requests, empty, running>>

Next ==
  \/ \E f \in Files :
       ToolRound(f) \/ EmptyRound(f) \/ NoToolCalls(f) \/ Ends(f)
       \/ RoundsExhausted(f)
  \/ \E j \in running : BackgroundCompresses(j) \/ BackgroundFails(j)

Spec == Init /\ [][Next]_vars

-----------------------------------------------------------------------------
\* A conversation neither loses nor repeats anything that was said in it, nor
\* holds what was said about another file: whatever summaries were applied
\* late, abandoned or made twice, those it carries and its live messages are
\* together its own messages in their order.
NothingLost ==
  \A f \in Files : context[f].covered \o context[f].live = said[f]

\* A result that is applied replaces the messages it was made from: the
\* snapshot of a pending job is still the beginning of its conversation.
SnapshotIsCurrent ==
  \A f \in Files :
    LET j == slot[SlotOf(f)].job IN
    j # NoJob =>
      /\ j.file = f
      /\ j.snapshot.covered = context[f].covered
      /\ Len(j.snapshot.live) <= Len(context[f].live)
      /\ \A i \in 1 .. Len(j.snapshot.live) :
           j.snapshot.live[i] = context[f].live[i]

=============================================================================
