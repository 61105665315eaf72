---------------------------- MODULE EngineProofs ---------------------------
(***************************************************************************)
(* Parts of the review engine, for any number of files, any limits and any *)
(* sizes.  Compression never loses or repeats a message: an applied result *)
(* always stands for a prefix of the conversation it replaces.  A full     *)
(* scan overruns its budget by no more than a file for each slot, and no   *)
(* finding is lost or counted twice on its way to the result.  What a      *)
(* review reuses was found under its own rules, what it records of earlier *)
(* findings decides each once, and its digests tell its inputs apart.  A   *)
(* request has each call with its result at once; an answer is whole, and  *)
(* its usage is what was billed.                                           *)
(***************************************************************************)
EXTENDS ReviewInput, Conversation, ModelClient, FullScan, WellFoundedInduction,
        SequenceTheorems, FiniteSetTheorems, TLAPS

Jobs == [file : Files, turn : Nat, snapshot : Context]

\* What a context stands for.
Whole(c) == c.covered \o c.live

\* c is d with messages appended.
Continues(c, d) ==
  /\ c.covered = d.covered
  /\ Len(d.live) <= Len(c.live)
  /\ \A i \in 1 .. Len(d.live) : d.live[i] = c.live[i]

ConversationTyped ==
  /\ context \in [Files -> Context]
  /\ said \in [Files -> Seq(Item)]
  /\ requests \in [Files -> Nat]
  /\ slot \in [Files -> [job : Jobs \union {NoJob},
                         result : Context \union {NoContext}]]
  /\ running \subseteq Jobs

\* The pending job of f started from what f's conversation still begins with,
\* and its result stands for just that.
JobFits(f) ==
  /\ slot[f].job # NoJob =>
       slot[f].job.file = f /\ Continues(context[f], slot[f].job.snapshot)
  /\ slot[f].result # NoContext =>
       /\ slot[f].job # NoJob
       /\ Whole(slot[f].result) = Whole(slot[f].job.snapshot)

ConversationInv ==
  /\ ConversationTyped
  /\ NothingLost
  /\ \A f \in Files : JobFits(f)

-----------------------------------------------------------------------------
(* Compression. *)

\* Whatever the sizes, partitionMessages cuts between two messages.
LEMMA CompressEndInRange ==
  ASSUME NEW c \in Context
  PROVE  CompressEnd(c) \in 0 .. Len(c.live)
<1> DEFINE P == {i \in DOMAIN c.live :
                   \E r \in Rounds(c) \ ActiveZone(c) : i <= r}
<1>1. c.live \in Seq(Item) /\ Len(c.live) \in Nat
  BY DEF Context
<1>2. P \in SUBSET (1 .. Len(c.live))
  BY <1>1
<1>3. IsFiniteSet(1 .. Len(c.live)) /\ Cardinality(1 .. Len(c.live)) = Len(c.live)
  <2>1. \A n \in Nat : IsFiniteSet(1 .. n) /\ Cardinality(1 .. n) = n
    BY FS_Interval
  <2> QED BY <1>1, <2>1
<1>4. IsFiniteSet(P) /\ Cardinality(P) <= Len(c.live)
  BY <1>2, <1>3, FS_Subset
<1>5. Cardinality(P) \in Nat
  BY <1>4, FS_CardinalityType
<1> QED BY <1>1, <1>4, <1>5 DEF CompressEnd

\* Cutting a sequence in two and joining the parts.
LEMMA CutAndJoin ==
  ASSUME NEW S, NEW seq \in Seq(S), NEW n \in 0 .. Len(seq)
  PROVE  /\ SubSeq(seq, 1, n) \in Seq(S)
         /\ SubSeq(seq, n + 1, Len(seq)) \in Seq(S)
         /\ SubSeq(seq, 1, n) \o SubSeq(seq, n + 1, Len(seq)) = seq
<1>1. Len(seq) \in Nat
  OBVIOUS
<1>2. /\ 1 \in 1 .. Len(seq) + 1
      /\ n \in 1 - 1 .. Len(seq)
      /\ Len(seq) \in n .. Len(seq)
  BY <1>1
<1>3. SubSeq(seq, 1, n) \o SubSeq(seq, n + 1, Len(seq)) = SubSeq(seq, 1, Len(seq))
  BY <1>1, <1>2, ConcatAdjacentSubSeq
<1>4. SubSeq(seq, 1, Len(seq)) = seq
  BY SubSeqFull
<1>5. \A i \in 1 .. Len(seq) : seq[i] \in S
  BY ElementOfSeq
<1>6. SubSeq(seq, 1, n) \in Seq(S)
  BY <1>1, <1>5, SubSeqProperties
<1>7. SubSeq(seq, n + 1, Len(seq)) \in Seq(S)
  BY <1>1, <1>5, SubSeqProperties
<1> QED BY <1>3, <1>4, <1>6, <1>7

\* Joining messages in any grouping.
LEMMA MessagesAssociate ==
  \A s, t, u \in Seq(Item) : (s \o t) \o u = s \o (t \o u)
BY ConcatAssociative

\* The summary and what is left stand for what was there.
LEMMA CompressedKeeps ==
  ASSUME NEW c \in Context, NEW size \in Nat
  PROVE  Compressed(c, size) \in Context /\ Whole(Compressed(c, size)) = Whole(c)
<1> DEFINE s == SubSeq(c.live, 1, CompressEnd(c))
           t == SubSeq(c.live, CompressEnd(c) + 1, Len(c.live))
           d == Compressed(c, size)
<1>1. c.base \in Nat /\ c.covered \in Seq(Item) /\ c.live \in Seq(Item)
  BY DEF Context
<1>2. s \in Seq(Item) /\ t \in Seq(Item) /\ s \o t = c.live
  <2>1. CompressEnd(c) \in 0 .. Len(c.live)
    BY CompressEndInRange
  <2> QED BY ONLY <1>1, <2>1, CutAndJoin
<1>3. d.base = c.base + size /\ d.covered = c.covered \o s /\ d.live = t
  BY DEF Compressed
<1>4. d = [base |-> c.base + size, covered |-> c.covered \o s, live |-> t]
  BY DEF Compressed
<1> HIDE DEF s, t, d
<1>5. (c.covered \o s) \o t = c.covered \o c.live
  <2>1. (c.covered \o s) \o t = c.covered \o (s \o t)
    BY ONLY <1>1, <1>2, MessagesAssociate
  <2> QED BY <1>2, <2>1
<1>6. c.covered \o s \in Seq(Item)
  BY <1>1, <1>2, ConcatProperties
<1>7. d \in Context
  BY <1>1, <1>2, <1>4, <1>6 DEF Context
<1>8. Whole(d) = Whole(c)
  BY <1>3, <1>5 DEF Whole
<1> QED BY <1>7, <1>8 DEF d

\* runCompression, with a summary or without.
LEMMA ReducedKeeps ==
  ASSUME ConversationAssumption, NEW c \in Context,
         NEW d \in Reduced(c) \union Compressions(c)
  PROVE  d \in Context /\ Whole(d) = Whole(c)
<1>1. d = c \/ \E size \in SummarySizes : d = Compressed(c, size)
  BY DEF Reduced, Compressions
<1> QED BY <1>1, CompressedKeeps DEF ConversationAssumption

-----------------------------------------------------------------------------
(* Appending, and applying a result to what was appended meanwhile. *)

\* A context whose live messages are replaced.
LEMMA WithLive ==
  ASSUME NEW c \in Context, NEW x
  PROVE  /\ [c EXCEPT !.live = x]
              = [base |-> c.base, covered |-> c.covered, live |-> x]
         /\ [c EXCEPT !.live = x].covered = c.covered
         /\ [c EXCEPT !.live = x].live = x
BY DEF Context

\* Appended messages are said after the others.
LEMMA AppendedKeeps ==
  ASSUME NEW c \in Context, NEW t \in Seq(Item)
  PROVE  LET d == [c EXCEPT !.live = @ \o t] IN
         d \in Context /\ Whole(d) = Whole(c) \o t /\ Continues(d, c)
<1> DEFINE d == [c EXCEPT !.live = @ \o t]
<1>1. c.base \in Nat /\ c.covered \in Seq(Item) /\ c.live \in Seq(Item)
  BY DEF Context
<1>2. /\ c.live \o t \in Seq(Item)
      /\ Len(c.live \o t) = Len(c.live) + Len(t)
      /\ \A i \in 1 .. Len(c.live) + Len(t) :
           (c.live \o t)[i] = IF i <= Len(c.live) THEN c.live[i]
                              ELSE t[i - Len(c.live)]
  BY <1>1, ConcatProperties
<1>3. /\ d = [base |-> c.base, covered |-> c.covered, live |-> c.live \o t]
      /\ d.covered = c.covered /\ d.live = c.live \o t
  BY WithLive
<1>4. Len(c.live) \in Nat /\ Len(t) \in Nat
  BY <1>1
<1> HIDE DEF d
<1>5. d \in Context
  BY <1>1, <1>2, <1>3 DEF Context
<1>6. Whole(d) = Whole(c) \o t
  BY <1>1, <1>3, MessagesAssociate DEF Whole
<1>7. Continues(d, c)
  BY <1>2, <1>3, <1>4 DEF Continues
<1> QED BY <1>5, <1>6, <1>7 DEF d

\* A longer conversation still continues what the shorter one continued.
LEMMA ContinuesOn ==
  ASSUME NEW c \in Context, NEW d \in Context, NEW e \in Context,
         Continues(d, c), Continues(e, d)
  PROVE  Continues(e, c)
<1>1. Len(c.live) \in Nat /\ Len(d.live) \in Nat /\ Len(e.live) \in Nat
  BY DEF Context
<1> QED BY <1>1 DEF Continues

\* tryApplyPendingCompression: replacing the snapshot by its result keeps what
\* was said, and what was appended since.
LEMMA AppliedKeeps ==
  ASSUME ConversationAssumption, NEW f \in Files, NEW c \in Context,
         NEW p \in [job : Jobs \union {NoJob},
                    result : Context \union {NoContext}],
         p.result # NoContext =>
           /\ p.job # NoJob
           /\ Continues(c, p.job.snapshot)
           /\ Whole(p.result) = Whole(p.job.snapshot)
  PROVE  Applied(c, p) \in Context /\ Whole(Applied(c, p)) = Whole(c)
<1>1. CASE p.result = NoContext
  BY <1>1 DEF Applied, Ended
<1>2. CASE p.result # NoContext
  <2> DEFINE snap == p.job.snapshot
             r == p.result
             n == Len(snap.live)
             t == SubSeq(c.live, n + 1, Len(c.live))
  <2>1. snap \in Context /\ r \in Context
    BY <1>2 DEF Jobs
  <2>2. /\ snap.live \in Seq(Item) /\ c.live \in Seq(Item)
        /\ snap.covered \in Seq(Item) /\ Len(c.live) \in Nat /\ n \in Nat
    BY <2>1 DEF Context
  <2>3. /\ n \in 0 .. Len(c.live) /\ c.covered = snap.covered
        /\ \A i \in 1 .. n : snap.live[i] = c.live[i]
    BY <1>2, <2>2 DEF Continues
  <2> HIDE DEF n
  <2>4. /\ SubSeq(c.live, 1, n) \in Seq(Item) /\ t \in Seq(Item)
        /\ SubSeq(c.live, 1, n) \o t = c.live
    BY ONLY <2>2, <2>3, CutAndJoin
  <2>5. SubSeq(c.live, 1, n) = snap.live
    <3>1. \A i \in 1 .. n : c.live[i] \in Item
      BY <2>2, <2>3, ElementOfSeq
    <3>2. /\ Len(SubSeq(c.live, 1, n)) = n
          /\ \A i \in 1 .. n : SubSeq(c.live, 1, n)[i] = c.live[i]
      BY <2>2, <3>1, SubSeqProperties
    <3> QED BY <2>2, <2>3, <2>4, <3>2, SeqEqual DEF n
  <2>6. Applied(c, p) = [r EXCEPT !.live = @ \o t]
    BY <1>2 DEF Applied, Ended, n
  <2> HIDE DEF t
  <2>7. Applied(c, p) \in Context /\ Whole(Applied(c, p)) = Whole(r) \o t
    BY <2>1, <2>4, <2>6, AppendedKeeps
  <2>8. Whole(r) \o t = Whole(c)
    <3>1. Whole(r) \o t = (snap.covered \o snap.live) \o t
      <4>1. Whole(r) = Whole(snap)
        BY ONLY <1>2, p.result # NoContext =>
                        /\ p.job # NoJob
                        /\ Continues(c, p.job.snapshot)
                        /\ Whole(p.result) = Whole(p.job.snapshot)
      <4> QED BY ONLY <4>1 DEF Whole
    <3>2. (snap.covered \o snap.live) \o t = snap.covered \o (snap.live \o t)
      BY ONLY <2>2, <2>4, MessagesAssociate
    <3> QED BY ONLY <2>3, <2>4, <2>5, <3>1, <3>2 DEF Whole
  <2> QED BY <2>7, <2>8
<1> QED BY <1>1, <1>2

-----------------------------------------------------------------------------
(* The invariant. *)

LEMMA ConversationStarts ==
  ASSUME ConversationAssumption, Init PROVE ConversationInv
<1>1. \A f \in Files : context[f] \in Context
  BY DEF Init, Context, ConversationAssumption
<1>2. \A f \in Files : Whole(context[f]) = <<>>
  BY DEF Init, Whole
<1>3. ConversationTyped
  BY <1>1 DEF ConversationTyped, Init, ConversationAssumption, Free
<1>4. NothingLost
  BY <1>2 DEF NothingLost, Init, Whole
<1>5. \A f \in Files : JobFits(f)
  BY DEF JobFits, Init, Free
<1> QED BY <1>3, <1>4, <1>5 DEF ConversationInv

\* A step of one conversation keeps the invariant if what it leaves in the
\* context is what was said, and the job it leaves fits.
LEMMA OneConversationSteps ==
  ASSUME ConversationAssumption, ConversationInv,
         NEW f \in Files, NEW c \in Context, NEW told \in Seq(Item),
         NEW p \in [job : Jobs \union {NoJob},
                    result : Context \union {NoContext}],
         context' = [context EXCEPT ![f] = c],
         said' = [said EXCEPT ![f] = told],
         slot' = [slot EXCEPT ![f] = p],
         requests' \in [Files -> Nat], running' \subseteq Jobs,
         Whole(c) = told,
         p.job # NoJob => p.job.file = f /\ Continues(c, p.job.snapshot),
         p.result # NoContext =>
           p.job # NoJob /\ Whole(p.result) = Whole(p.job.snapshot)
  PROVE  ConversationInv'
<1>1. ConversationTyped'
  BY DEF ConversationInv, ConversationTyped
<1>2. \A g \in Files : /\ context'[g] = IF g = f THEN c ELSE context[g]
                       /\ said'[g] = IF g = f THEN told ELSE said[g]
                       /\ slot'[g] = IF g = f THEN p ELSE slot[g]
  BY DEF ConversationInv, ConversationTyped
<1>3. NothingLost'
  BY <1>2 DEF ConversationInv, NothingLost, Whole
<1>4. \A g \in Files : JobFits(g)'
  BY <1>2 DEF ConversationInv, JobFits
<1> QED BY <1>1, <1>3, <1>4 DEF ConversationInv

\* The state of no pending job.
LEMMA FreeIsTyped ==
  ASSUME ConversationAssumption
  PROVE  /\ Free \in [job : Jobs \union {NoJob},
                      result : Context \union {NoContext}]
         /\ Free.job = NoJob /\ Free.result = NoContext
BY DEF Free

\* A conversation that ends drops its pending job.
LEMMA EndStep ==
  ASSUME ConversationAssumption, ConversationInv, NEW f \in Files,
         slot' = [slot EXCEPT ![f] = Free], UNCHANGED <<context, said>>,
         requests' \in [Files -> Nat], UNCHANGED running
  PROVE  ConversationInv'
<1>1. /\ context[f] \in Context /\ said[f] \in Seq(Item)
      /\ Whole(context[f]) = said[f]
      /\ context' = [context EXCEPT ![f] = context[f]]
      /\ said' = [said EXCEPT ![f] = said[f]]
      /\ running' \subseteq Jobs
  BY DEF ConversationInv, ConversationTyped, NothingLost, Whole
<1> QED BY <1>1, FreeIsTyped, OneConversationSteps

LEMMA NoToolCallsStep ==
  ASSUME ConversationAssumption, ConversationInv, NEW f \in Files,
         NoToolCalls(f)
  PROVE  ConversationInv'
<1>1. /\ context[f] \in Context /\ said[f] \in Seq(Item)
      /\ Whole(context[f]) = said[f] /\ requests[f] \in Nat
      /\ slot[f] \in [job : Jobs \union {NoJob},
                      result : Context \union {NoContext}]
      /\ JobFits(f)
  BY DEF ConversationInv, ConversationTyped, NothingLost, Whole
<1>2. PICK text \in {<<>>} \union
                    {<<NewItem(f, "round", size)>> : size \in RoundSizes} :
        LET new == Append(text, NewItem(f, "nudge", NudgeTokens)) IN
        /\ context' = [context EXCEPT ![f].live = @ \o new]
        /\ said' = [said EXCEPT ![f] = @ \o new]
  BY DEF NoToolCalls
<1> DEFINE new == Append(text, NewItem(f, "nudge", NudgeTokens))
           c == [context[f] EXCEPT !.live = @ \o new]
<1>3. NewItem(f, "nudge", NudgeTokens) \in Item
  BY <1>1 DEF NewItem, Item, ConversationAssumption
<1>4. \A size \in RoundSizes : NewItem(f, "round", size) \in Item
  BY <1>1 DEF NewItem, Item, ConversationAssumption
<1>5. text \in Seq(Item)
  <2>1. <<>> \in Seq(Item) /\ \A x \in Item : <<x>> \in Seq(Item)
    OBVIOUS
  <2> QED BY <1>4, <2>1
<1>6. new \in Seq(Item)
  BY <1>3, <1>5, AppendProperties
<1>7. context' = [context EXCEPT ![f] = c] /\ said' = [said EXCEPT ![f] = @ \o new]
  BY <1>2 DEF ConversationInv, ConversationTyped
<1> HIDE DEF new
<1>8. c \in Context /\ Whole(c) = said[f] \o new /\ Continues(c, context[f])
  BY <1>1, <1>6, AppendedKeeps
<1>9. said[f] \o new \in Seq(Item)
  BY <1>1, <1>6, ConcatProperties
<1>10. slot[f].job # NoJob =>
         slot[f].job.file = f /\ Continues(c, slot[f].job.snapshot)
  BY <1>1, <1>8, ContinuesOn DEF JobFits, Jobs
<1>11. /\ slot' = [slot EXCEPT ![f] = slot[f]] /\ running' \subseteq Jobs
       /\ requests' \in [Files -> Nat]
  BY DEF NoToolCalls, Turn, Talking, ConversationInv, ConversationTyped
<1> HIDE DEF c
<1> QED BY <1>1, <1>7, <1>8, <1>9, <1>10, <1>11, OneConversationSteps DEF JobFits

\* addNextMessage: a job that is still pending afterwards was neither applied
\* nor canceled, so no compression came between, and its snapshot is still the
\* beginning of the conversation; a new one starts from what was left.
LEMMA AddNextMessageStep ==
  ASSUME ConversationAssumption, ConversationInv, NEW f \in Files,
         NEW size \in RoundSizes, AddNextMessage(f, NewItem(f, "round", size)),
         requests' \in [Files -> Nat]
  PROVE  ConversationInv'
<1> DEFINE Slots == [job : Jobs \union {NoJob},
                     result : Context \union {NoContext}]
           round == NewItem(f, "round", size)
           ready == slot[f]
           applied == Applied(context[f], ready)
           left == IF Count(applied) > WarnLimit
                     THEN Cancelled(AfterApply(ready)) ELSE AfterApply(ready)
<1>1. /\ context[f] \in Context /\ said[f] \in Seq(Item)
      /\ Whole(context[f]) = said[f] /\ requests[f] \in Nat
      /\ ready \in Slots /\ JobFits(f)
      /\ DOMAIN slot = Files /\ running \subseteq Jobs
  BY DEF ConversationInv, ConversationTyped, NothingLost, Whole
<1>2. round \in Item
  BY <1>1 DEF NewItem, Item, ConversationAssumption
<1>3. applied \in Context /\ Whole(applied) = said[f]
  BY <1>1, AppliedKeeps DEF JobFits
<1>4. left = Free \/ (left = ready /\ ~Ended(ready) /\ applied = context[f]
                      /\ ~(Count(applied) > WarnLimit))
  BY DEF Cancelled, AfterApply, Applied
<1> HIDE DEF applied, left
<1>5. PICK before \in Reduced(applied) :
        LET appended == [before EXCEPT !.live = Append(@, round)]
            pending == IF Count(appended) > WarnLimit
                         THEN Cancelled(left) ELSE left
        IN \E after \in Reduced(appended) :
             LET final == Count(after)
                 trigger == /\ final > SoftLimit /\ final < WarnLimit
                            /\ pending = Free
                 j == [file |-> f, turn |-> requests[f], snapshot |-> after]
             IN /\ context' = [context EXCEPT ![f] = after]
                /\ said' = [said EXCEPT ![f] = Append(@, round)]
                /\ running' = IF trigger THEN running \union {j} ELSE running
                /\ LET next == IF trigger
                                 THEN [job |-> j, result |-> NoContext]
                                 ELSE pending
                   IN IF final < WarnLimit
                        THEN /\ slot' = [slot EXCEPT ![f] = next]
                             /\ UNCHANGED stop
                        ELSE /\ slot' = [slot EXCEPT ![f] = Cancelled(next)]
                             /\ stop' = [stop EXCEPT ![f] = "compression"]
  BY DEF AddNextMessage, SlotOf, applied, left
<1> DEFINE appended == [before EXCEPT !.live = Append(@, round)]
           pending == IF Count(appended) > WarnLimit
                        THEN Cancelled(left) ELSE left
<1>6. /\ before \in Context /\ Whole(before) = said[f]
      /\ before = applied \/ Count(applied) > WarnLimit
  BY <1>3, <1>5, ReducedKeeps DEF Reduced
<1>7. /\ appended \in Context /\ Continues(appended, before)
      /\ Whole(appended) = Append(said[f], round)
  <2>1. <<round>> \in Seq(Item) /\ before.live \in Seq(Item)
    BY <1>2, <1>6 DEF Context
  <2>2. /\ Append(before.live, round) = before.live \o <<round>>
        /\ Append(said[f], round) = said[f] \o <<round>>
    BY <1>1, <1>2, <2>1, AppendIsConcat
  <2> HIDE DEF round
  <2>3. appended = [before EXCEPT !.live = @ \o <<round>>]
    BY <2>2
  <2> QED BY <1>6, <2>1, <2>2, <2>3, AppendedKeeps
<1> HIDE DEF appended
<1>8. pending = Free \/ (pending = left /\ ~(Count(appended) > WarnLimit))
  BY DEF Cancelled
<1> HIDE DEF pending
<1>9. PICK after \in Reduced(appended) :
        LET j == [file |-> f, turn |-> requests[f], snapshot |-> after] IN
        \E p \in {pending, [job |-> j, result |-> NoContext], Free} :
          /\ context' = [context EXCEPT ![f] = after]
          /\ said' = [said EXCEPT ![f] = Append(@, round)]
          /\ running' \subseteq running \union {j}
          /\ slot' = [slot EXCEPT ![f] = p]
  BY <1>5 DEF pending, appended, Cancelled
<1> DEFINE j == [file |-> f, turn |-> requests[f], snapshot |-> after]
<1>10. PICK p \in {pending, [job |-> j, result |-> NoContext], Free} :
          /\ context' = [context EXCEPT ![f] = after]
          /\ said' = [said EXCEPT ![f] = Append(@, round)]
          /\ running' \subseteq running \union {j}
          /\ slot' = [slot EXCEPT ![f] = p]
  BY <1>9
<1>11. /\ after \in Context /\ Whole(after) = Append(said[f], round)
       /\ after = appended \/ Count(appended) > WarnLimit
  BY <1>7, <1>9, ReducedKeeps DEF Reduced
<1>12. Append(said[f], round) \in Seq(Item)
  BY <1>1, <1>2, AppendProperties
<1>13. j \in Jobs
  BY <1>1, <1>11 DEF Jobs
<1>14. Continues(after, after)
  BY <1>11 DEF Continues, Context
<1>15. pending # Free =>
         /\ pending = ready /\ ready.result = NoContext
         /\ after = appended /\ before = context[f]
  BY <1>4, <1>6, <1>8, <1>11 DEF Ended
<1>16. pending # Free /\ pending.job # NoJob =>
         pending.job.file = f /\ Continues(after, pending.job.snapshot)
  BY <1>1, <1>7, <1>15, ContinuesOn DEF JobFits, Jobs
<1>17. /\ p \in Slots
       /\ p.job # NoJob => p.job.file = f /\ Continues(after, p.job.snapshot)
       /\ p.result = NoContext
  BY <1>1, <1>10, <1>13, <1>14, <1>15, <1>16, FreeIsTyped
<1>18. running' \subseteq Jobs
  BY <1>1, <1>10, <1>13
<1> HIDE DEF round, j
<1> QED BY <1>10, <1>11, <1>12, <1>17, <1>18, OneConversationSteps

\* A background compression ends: only its own job takes the result.
LEMMA BackgroundStep ==
  ASSUME ConversationAssumption, ConversationInv, NEW j \in running,
         BackgroundCompresses(j) \/ BackgroundFails(j)
  PROVE  ConversationInv'
<1> DEFINE f == j.file
<1>1. /\ j \in Jobs /\ f \in Files /\ j.snapshot \in Context
      /\ context[f] \in Context /\ said[f] \in Seq(Item)
      /\ Whole(context[f]) = said[f] /\ JobFits(f)
      /\ slot[f] \in [job : Jobs \union {NoJob},
                      result : Context \union {NoContext}]
      /\ context' = [context EXCEPT ![f] = context[f]]
      /\ said' = [said EXCEPT ![f] = said[f]]
      /\ requests' \in [Files -> Nat] /\ running' \subseteq Jobs
  BY DEF ConversationInv, ConversationTyped, NothingLost, Whole, Jobs,
         BackgroundCompresses, BackgroundFails, Finishes
<1>2. CASE slot[f].job = j /\ BackgroundCompresses(j)
  <2>1. PICK c \in Compressions(j.snapshot) :
          slot' = [slot EXCEPT ![f] = [job |-> j, result |-> c]]
    BY <1>2 DEF BackgroundCompresses, Finishes, SlotOf
  <2>2. c \in Context /\ Whole(c) = Whole(j.snapshot)
    BY <1>1, ReducedKeeps
  <2> DEFINE p == [job |-> j, result |-> c]
  <2>3. /\ p \in [job : Jobs \union {NoJob}, result : Context \union {NoContext}]
        /\ p.job = j /\ p.result = c
    BY <1>1, <2>2
  <2>4. j # NoJob
    BY <1>1 DEF ConversationAssumption, Jobs
  <2>5. Continues(context[f], j.snapshot)
    BY <1>1, <1>2, <2>4 DEF JobFits
  <2> HIDE DEF p
  <2>6. slot' = [slot EXCEPT ![f] = p]
    BY <2>1 DEF p
  <2> QED BY <1>1, <2>2, <2>3, <2>4, <2>5, <2>6, OneConversationSteps
<1>3. CASE slot[f].job = j /\ BackgroundFails(j)
  <2>1. slot' = [slot EXCEPT ![f] = Free]
    BY <1>3 DEF BackgroundFails, Finishes, SlotOf
  <2> QED BY <1>1, <2>1, FreeIsTyped, OneConversationSteps
<1>4. CASE slot[f].job # j
  <2>1. slot' = [slot EXCEPT ![f] = slot[f]]
    BY <1>4 DEF BackgroundCompresses, BackgroundFails, Finishes, SlotOf,
                ConversationInv, ConversationTyped
  <2> QED BY <1>1, <2>1, OneConversationSteps DEF JobFits
<1> QED BY <1>2, <1>3, <1>4

\* Every step of every conversation keeps the invariant.
LEMMA ConversationInvStep ==
  ASSUME ConversationAssumption, ConversationInv, [Next]_vars
  PROVE  ConversationInv'
<1>1. ASSUME NEW f \in Files, ToolRound(f) PROVE ConversationInv'
  <2>1. PICK size \in RoundSizes : AddNextMessage(f, NewItem(f, "round", size))
    BY <1>1 DEF ToolRound
  <2>2. requests' \in [Files -> Nat]
    BY <1>1 DEF ToolRound, Turn, Talking, ConversationInv, ConversationTyped
  <2> QED BY <2>1, <2>2, AddNextMessageStep
<1>2. ASSUME NEW f \in Files, EmptyRound(f) PROVE ConversationInv'
  <2>1. requests' \in [Files -> Nat]
    BY <1>2 DEF EmptyRound, Turn, Talking, ConversationInv, ConversationTyped
  <2>2. CASE \E size \in RoundSizes :
               AddNextMessage(f, NewItem(f, "round", size))
    BY <2>1, <2>2, AddNextMessageStep
  <2>3. CASE /\ EndsWith(f, "empty_rounds")
             /\ UNCHANGED <<context, said, running>>
    BY <2>1, <2>3, EndStep DEF EndsWith, Cancelled, SlotOf
  <2> QED BY <1>2, <2>2, <2>3 DEF EmptyRound
<1>3. ASSUME NEW f \in Files, NoToolCalls(f) PROVE ConversationInv'
  BY <1>3, NoToolCallsStep
<1>4. ASSUME NEW f \in Files, Ends(f) \/ RoundsExhausted(f)
      PROVE  ConversationInv'
  <2>1. requests' \in [Files -> Nat]
    BY <1>4 DEF Ends, RoundsExhausted, Turn, Talking, ConversationInv,
                ConversationTyped
  <2>2. /\ slot' = [slot EXCEPT ![f] = Free]
        /\ UNCHANGED <<context, said>> /\ UNCHANGED running
    BY <1>4 DEF Ends, RoundsExhausted, EndsWith, Cancelled, SlotOf
  <2> QED BY <2>1, <2>2, EndStep
<1>5. ASSUME NEW j \in running, BackgroundCompresses(j) \/ BackgroundFails(j)
      PROVE  ConversationInv'
  BY <1>5, BackgroundStep
<1>6. CASE UNCHANGED vars
  BY <1>6 DEF vars, ConversationInv, ConversationTyped, NothingLost, JobFits
<1> QED BY <1>1, <1>2, <1>3, <1>4, <1>5, <1>6 DEF Next

\* The invariant holds however the goroutines interleave.
THEOREM ConversationInvariant ==
  ASSUME ConversationAssumption PROVE Spec => []ConversationInv
<1>1. Init => ConversationInv
  BY ConversationStarts
<1>2. ConversationInv /\ [Next]_vars => ConversationInv'
  BY ConversationInvStep
<1> QED BY <1>1, <1>2, PTL DEF Spec

\* For any number of files, any limits and any sizes of messages, prompts and
\* summaries: no conversation loses, repeats or borrows a message, whichever
\* background compressions are applied, abandoned or canceled.
THEOREM ConversationsComplete == Spec => []NothingLost
<1>1. ConversationInv => NothingLost
  BY DEF ConversationInv
<1> QED BY <1>1, ConversationInvariant, ConversationAssumption, PTL

\* An applied result always replaces exactly what it was made from.
THEOREM PendingJobsFit == Spec => []SnapshotIsCurrent
<1>1. ConversationInv => SnapshotIsCurrent
  BY DEF ConversationInv, JobFits, SnapshotIsCurrent, SlotOf, Continues
<1> QED BY <1>1, ConversationInvariant, ConversationAssumption, PTL

-----------------------------------------------------------------------------
(* What numbers and costs need. *)

\* A set of numbers has a least one.
LEMMA LeastNumber ==
  ASSUME NEW S \in SUBSET Nat, S # {}
  PROVE  \E n \in S : \A m \in S : n <= m
<1> DEFINE Less == {ij \in Nat \X Nat : ij[1] < ij[2]}
<1>1. IsWellFoundedOn(Less, Nat)
  BY NatLessThanWellFounded DEF OpToRel
<1>2. PICK n \in S : \A m \in S : ~(<<m, n>> \in Less)
  <2> HIDE DEF Less
  <2> QED BY <1>1, WFMin
<1>3. \A m \in S : ~(m < n) /\ m \in Nat /\ n \in Nat
  BY <1>2
<1> QED BY <1>3

\* Finitely many numbers, and at least one, have a greatest.
LEMMA GreatestValue ==
  ASSUME NEW n \in Nat \ {0}, NEW h \in [1..n -> Nat]
  PROVE  \E g \in 1..n : \A f \in 1..n : h[f] <= h[g]
<1> DEFINE Has(k) == \E g \in 1..k : \A f \in 1..k : h[f] <= h[g]
           Without == {k \in 1..n : ~Has(k)}
<1>1. CASE Without = {}
  <2>1. n \in 1..n
    OBVIOUS
  <2> QED BY <1>1, <2>1
<1>2. CASE Without # {}
  <2>1. PICK k \in Without : \A m \in Without : k <= m
    <3>1. Without \in SUBSET Nat
      OBVIOUS
    <3> HIDE DEF Without
    <3> QED BY <1>2, <3>1, LeastNumber
  <2>2. k \in 1..n /\ ~Has(k)
    BY <2>1
  <2>3. k # 1
    <3>1. Has(1)
      BY 1 \in 1..1, 1 \in 1..n
    <3> QED BY <2>2, <3>1
  <2>4. k - 1 \in 1..n /\ k - 1 < k
    BY <2>2, <2>3
  <2>5. Has(k - 1)
    <3>1. k - 1 \notin Without
      <4> HIDE DEF Without
      <4> QED BY <2>1, <2>2, <2>4
    <3> QED BY <2>4, <3>1
  <2>6. PICK g \in 1..(k - 1) : \A f \in 1..(k - 1) : h[f] <= h[g]
    BY <2>5
  <2>7. \A f \in 1..k : f \in 1..(k - 1) \/ f = k
    BY <2>2
  <2>8. h[g] \in Nat /\ h[k] \in Nat /\ \A f \in 1..k : h[f] \in Nat
    BY <2>2, <2>6
  <2>9. Has(k)
    <3>1. CASE h[k] <= h[g]
      <4>1. g \in 1..k
        BY <2>2, <2>6
      <4> QED BY <2>6, <2>7, <3>1, <4>1
    <3>2. CASE ~(h[k] <= h[g])
      <4>1. k \in 1..k
        BY <2>2
      <4>2. \A f \in 1..k : h[f] <= h[k]
        BY <2>6, <2>7, <2>8, <3>2
      <4> QED BY <4>1, <4>2
    <3> QED BY <3>1, <3>2
  <2> QED BY <2>2, <2>9
<1> QED BY <1>1, <1>2

\* What the elements of S cost together: a pair for each unit, where none
\* costs more than d.
Units(h, d, S) == {p \in S \X (1..d) : p[2] <= h[p[1]]}

Total(h, d, S) == Cardinality(Units(h, d, S))

\* h gives each of the n first numbers a cost up to d.
Costs(h, d, n) == h \in [1..n -> Nat] /\ \A f \in 1..n : h[f] <= d

\* Costs are finite, and no more than the number of elements allows.
LEMMA TotalBounded ==
  ASSUME NEW n \in Nat, NEW d \in Nat, NEW h, NEW S \in SUBSET (1..n)
  PROVE  /\ IsFiniteSet(Units(h, d, S))
         /\ Total(h, d, S) \in Nat
         /\ Total(h, d, S) <= Cardinality(S) * d
<1>1. IsFiniteSet(S)
  <2>1. IsFiniteSet(1..n)
    BY FS_Interval
  <2> QED BY <2>1, FS_Subset
<1>2. IsFiniteSet(1..d) /\ Cardinality(1..d) = d
  BY FS_Interval
<1>3. IsFiniteSet(S \X (1..d)) /\ Cardinality(S \X (1..d)) = Cardinality(S) * d
  <2>1. IsFiniteSet(S \X (1..d)) /\ Cardinality(S \X (1..d)) = Cardinality(S) * Cardinality(1..d)
    BY ONLY <1>1, <1>2, FS_Product
  <2> QED BY <1>2, <2>1
<1>4. Units(h, d, S) \in SUBSET (S \X (1..d))
  BY DEF Units
<1>5. IsFiniteSet(Units(h, d, S)) /\ Cardinality(Units(h, d, S)) <= Cardinality(S \X (1..d))
  BY ONLY <1>3, <1>4, FS_Subset
<1> QED BY <1>3, <1>5, FS_CardinalityType DEF Total

\* A further element adds its own cost.
LEMMA TotalAdds ==
  ASSUME NEW n \in Nat, NEW d \in Nat, NEW h, Costs(h, d, n),
         NEW S \in SUBSET (1..n), NEW g \in 1..n, g \notin S
  PROVE  Total(h, d, S \union {g}) = Total(h, d, S) + h[g]
<1> DEFINE One == {g} \X (1..h[g])
<1>1. h[g] \in Nat /\ h[g] <= d
  BY DEF Costs
<1>2. IsFiniteSet(One) /\ Cardinality(One) = h[g]
  <2>1. IsFiniteSet({g}) /\ Cardinality({g}) = 1
    BY FS_Singleton
  <2>2. IsFiniteSet(1..h[g]) /\ Cardinality(1..h[g]) = h[g]
    <3>1. \A k \in Nat : IsFiniteSet(1..k) /\ Cardinality(1..k) = k
      BY FS_Interval
    <3> QED BY <1>1, <3>1
  <2>3. IsFiniteSet(One) /\ Cardinality(One) = Cardinality({g}) * Cardinality(1..h[g])
    BY ONLY <2>1, <2>2, FS_Product
  <2> QED BY <1>1, <2>1, <2>2, <2>3
<1>3. Units(h, d, S \union {g}) = Units(h, d, S) \union One
  BY <1>1 DEF Units
<1>4. Units(h, d, S) \intersect One = {}
  BY DEF Units
<1>5. IsFiniteSet(Units(h, d, S)) /\ Total(h, d, S) \in Nat
  BY TotalBounded
<1> HIDE DEF One
<1>6. Cardinality(Units(h, d, S) \union One)
        = Cardinality(Units(h, d, S)) + Cardinality(One) - Cardinality({})
  <2>1. Cardinality(Units(h, d, S) \union One)
          = Cardinality(Units(h, d, S)) + Cardinality(One)
            - Cardinality(Units(h, d, S) \intersect One)
    BY ONLY <1>2, <1>5, FS_Union
  <2> QED BY <1>4, <2>1
<1> QED BY <1>1, <1>2, <1>3, <1>5, <1>6, FS_EmptySet DEF Total

\* Fewer elements cost no more.
LEMMA TotalShrinks ==
  ASSUME NEW n \in Nat, NEW d \in Nat, NEW h,
         NEW S \in SUBSET (1..n), NEW T \in SUBSET S
  PROVE  Total(h, d, T) <= Total(h, d, S)
<1>1. Units(h, d, T) \in SUBSET Units(h, d, S)
  BY DEF Units
<1>2. IsFiniteSet(Units(h, d, S))
  BY TotalBounded
<1> QED BY ONLY <1>1, <1>2, FS_Subset DEF Total

-----------------------------------------------------------------------------
(* What the scan's operators return. *)

Batches == SUBSET ScanFiles

\* No batch is empty and no file is in two.
Disjoint(batches) ==
  /\ {} \notin batches
  /\ \A b, c \in batches : b # c => b \intersect c = {}

\* A batch that is not empty has a first file.
LEMMA FirstFileInBatch ==
  ASSUME NEW b \in Batches, b # {}
  PROVE  FirstFile(b) \in b /\ \A g \in b : FirstFile(b) <= g
<1>1. NumFiles \in Nat /\ b \in SUBSET Nat
  BY ScanAssumption DEF Batches, ScanFiles
<1>2. \E f \in b : \A g \in b : f <= g
  BY <1>1, LeastNumber
<1> QED BY <1>2 DEF FirstFile

\* The next batch is one of those not begun.
LEMMA FirstBatchInQueue ==
  ASSUME NEW batches \in SUBSET Batches, Disjoint(batches), batches # {}, NEW s
  PROVE  FirstBatch(batches, s) \in batches
<1> DEFINE Key(b) == GroupKey(s, FirstFile(b))
           Keys == {Key(b) : b \in batches}
<1>1. \A b \in batches : b \in Batches /\ b # {}
  BY DEF Disjoint
<1>2. \A b \in batches : FirstFile(b) \in b /\ FirstFile(b) \in Nat /\ FirstFile(b) \in ScanFiles
  <2> TAKE b \in batches
  <2>1. FirstFile(b) \in b
    BY <1>1, FirstFileInBatch
  <2>2. FirstFile(b) \in ScanFiles
    BY <1>1, <2>1 DEF Batches
  <2>3. ScanFiles \in SUBSET Nat
    BY ScanAssumption DEF ScanFiles
  <2> QED BY <2>1, <2>2, <2>3
<1>3. \A b \in batches : Key(b) \in Nat
  <2> TAKE b \in batches
  <2>1. KeyOf[FirstFile(b)] \in Nat
    BY <1>2, ScanAssumption
  <2> QED BY <1>2, <2>1 DEF GroupKey
<1> HIDE DEF Key
<1>4. PICK k \in Keys : \A m \in Keys : k <= m
  <2>1. Keys \in SUBSET Nat /\ Keys # {}
    BY <1>3
  <2> HIDE DEF Keys
  <2> QED BY <2>1, LeastNumber
<1> DEFINE Heads == {FirstFile(b) : b \in {c \in batches : Key(c) = k}}
<1>5. PICK f \in Heads : \A g \in Heads : f <= g
  <2>1. Heads \in SUBSET Nat /\ Heads # {}
    BY <1>2, <1>4
  <2> HIDE DEF Heads
  <2> QED BY <2>1, LeastNumber
<1>6. PICK b \in batches : Key(b) = k /\ FirstFile(b) = f
  BY <1>5
<1>7. ASSUME NEW c \in batches \ {b}
      PROVE  Key(b) < Key(c) \/ (Key(b) = Key(c) /\ FirstFile(b) < FirstFile(c))
  <2>1. Key(b) <= Key(c) /\ Key(c) \in Nat /\ Key(b) \in Nat
    BY <1>3, <1>4, <1>6
  <2>2. FirstFile(b) # FirstFile(c)
    <3>1. b \intersect c = {}
      BY <1>7, <1>6 DEF Disjoint
    <3>2. FirstFile(b) \in b /\ FirstFile(c) \in c
      BY <1>2, <1>7, <1>6
    <3> QED BY <3>1, <3>2
  <2>3. ASSUME Key(c) = k
        PROVE  FirstFile(b) < FirstFile(c)
    <3>1. FirstFile(c) \in Heads
      BY <1>7, <2>3
    <3>2. FirstFile(b) <= FirstFile(c)
      BY <1>5, <1>6, <3>1
    <3> QED BY <1>2, <1>6, <1>7, <2>2, <3>2
  <2> QED BY <1>6, <2>1, <2>3
<1>8. \E e \in batches : \A c \in batches \ {e} :
        LET g == FirstFile(e)
            h == FirstFile(c)
        IN  \/ GroupKey(s, g) < GroupKey(s, h)
            \/ GroupKey(s, g) = GroupKey(s, h) /\ g < h
  BY <1>6, <1>7 DEF Key
<1> QED BY <1>8 DEF FirstBatch

\* The batches of some files have each of them once.
LEMMA GroupBatchesPartition ==
  ASSUME NEW files \in Batches, NEW s
  PROVE  /\ GroupBatches(files, s) \in SUBSET Batches
         /\ Disjoint(GroupBatches(files, s))
         /\ UNION GroupBatches(files, s) \in SUBSET files
<1> DEFINE With(f) == {g \in files : /\ GroupKey(s, g) = GroupKey(s, f)
                                     /\ ChunkOf(files, s, g) = ChunkOf(files, s, f)}
<1>1. GroupBatches(files, s) = {With(f) : f \in files}
  BY DEF GroupBatches
<1>2. \A f \in files : f \in With(f) /\ With(f) \in SUBSET files
  OBVIOUS
<1>3. \A f, g \in files : With(f) # With(g) => With(f) \intersect With(g) = {}
  OBVIOUS
<1> HIDE DEF With
<1> QED BY <1>1, <1>2, <1>3 DEF Disjoint, Batches

Estimates == [f \in ScanFiles |-> Estimate(f)]

\* An estimate is a number of tokens, and the dearest is the highest.
LEMMA DearestCosts ==
  ASSUME kinds \in [ScanFiles -> FileFacts]
  PROVE  Dearest \in Nat /\ Costs(Estimates, Dearest, NumFiles)
<1>1. ASSUME NEW f \in ScanFiles
      PROVE  Estimate(f) \in Nat
  <2>1. kinds[f].tokens \in Nat
    <3>1. kinds[f] \in FileFacts
      OBVIOUS
    <3> QED BY <3>1 DEF FileFacts
  <2>2. PromptOverhead \in Nat /\ MainRounds \in Nat /\ RoundOutput \in Nat /\ PlanOutput \in Nat
    BY SelectionAssumption
  <2>3. MainRounds * (kinds[f].tokens + PromptOverhead + RoundOutput) \in Nat
    BY <2>1, <2>2
  <2> QED BY <2>1, <2>2, <2>3 DEF Estimate, EstimatedTokens
<1>2. Estimates \in [1..NumFiles -> Nat]
  BY <1>1 DEF Estimates, ScanFiles
<1>3. NumFiles \in Nat \ {0}
  BY ScanAssumption
<1>4. PICK g \in 1..NumFiles : \A f \in 1..NumFiles : Estimates[f] <= Estimates[g]
  BY <1>2, <1>3, GreatestValue
<1>5. Estimate(g) \in {Estimate(f) : f \in ScanFiles} /\ \A f \in ScanFiles : Estimate(f) <= Estimate(g)
  BY <1>4 DEF Estimates, ScanFiles
<1>6. Dearest \in {Estimate(f) : f \in ScanFiles} /\ \A f \in ScanFiles : Estimate(f) <= Dearest
  BY <1>5 DEF Dearest
<1> QED BY <1>1, <1>2, <1>6 DEF Costs, Estimates, ScanFiles

-----------------------------------------------------------------------------
(* The dispatch. *)

ScanComments == [path : ScanFiles, of : SUBSET Nat]

ScanTyped ==
  /\ kinds \in [ScanFiles -> FileFacts]
  /\ stage \in Stages /\ scanCtx \in {"live", "done"}
  /\ queue \in SUBSET Batches /\ batch \in Batches /\ active \in Batches
  /\ admitted \in BOOLEAN
  /\ spent \in Nat /\ late \in Nat
  /\ dispatched \in Nat /\ hardFailed \in Nat /\ uttered \in Nat
  /\ located \in Seq(ScanComments) /\ unlocated \in SUBSET ScanComments
  /\ batchStart \in 0..Len(located)
  /\ fileState \in [ScanFiles -> {"none", "reused", "completed", "failed"}]

\* The files not yet dispatched.
Remaining == batch \union UNION queue

\* Each file is in one place, and counted once when it is dispatched.
DispatchFits ==
  /\ stage = "enumerate" => active = {} /\ batch = {} /\ dispatched = 0
  /\ admitted => stage = "dispatch" /\ batch # {}
  /\ Disjoint(queue) /\ batch \intersect UNION queue = {}
  /\ active \intersect Remaining = {}
  /\ Cardinality(active) <= Parallelism
  /\ dispatched + Cardinality(Remaining) <= NumFiles
  /\ hardFailed + Cardinality(active) <= dispatched

\* Any set of files is finite.
LEMMA FilesFinite ==
  /\ IsFiniteSet(ScanFiles) /\ Cardinality(ScanFiles) = NumFiles
  /\ \A S \in Batches : /\ IsFiniteSet(S) /\ Cardinality(S) \in Nat
                        /\ Cardinality(S) <= NumFiles
                        /\ \A T \in SUBSET S : Cardinality(T) <= Cardinality(S)
<1>1. IsFiniteSet(ScanFiles) /\ Cardinality(ScanFiles) = NumFiles
  <2>1. \A k \in Nat : IsFiniteSet(1..k) /\ Cardinality(1..k) = k
    BY FS_Interval
  <2> QED BY <2>1, ScanAssumption DEF ScanFiles
<1>2. ASSUME NEW S \in Batches
      PROVE  /\ IsFiniteSet(S) /\ Cardinality(S) \in Nat
             /\ Cardinality(S) <= NumFiles
             /\ \A T \in SUBSET S : Cardinality(T) <= Cardinality(S)
  <2>1. IsFiniteSet(S) /\ Cardinality(S) <= NumFiles
    BY <1>1, <1>2, FS_Subset DEF Batches
  <2>2. \A T \in SUBSET S : Cardinality(T) <= Cardinality(S)
    BY <2>1, FS_Subset
  <2> QED BY <2>1, <2>2, FS_CardinalityType
<1> QED BY <1>1, <1>2

\* One more or one less file.
LEMMA OneFile ==
  ASSUME NEW S \in Batches, NEW f \in ScanFiles
  PROVE  /\ S \union {f} \in Batches /\ S \ {f} \in Batches
         /\ f \notin S => Cardinality(S \union {f}) = Cardinality(S) + 1
         /\ f \in S => Cardinality(S \ {f}) = Cardinality(S) - 1
<1>1. IsFiniteSet(S)
  BY FilesFinite
<1> QED BY <1>1, FS_AddElement, FS_RemoveElement DEF Batches

\* At the start nothing is dispatched.
LEMMA DispatchStarts ==
  ScanInit => DispatchFits
<1> SUFFICES ASSUME ScanInit PROVE DispatchFits
  OBVIOUS
<1>1. Remaining = {} /\ active = {} /\ UNION queue = {}
  BY DEF ScanInit, Remaining
<1> QED BY <1>1, FS_EmptySet, ScanAssumption DEF ScanInit, DispatchFits, Disjoint

\* A step with a batch's first file.
LEMMA FirstRemaining ==
  ASSUME ScanTyped, DispatchFits, batch # {}
  PROVE  /\ FirstFile(batch) \in batch /\ FirstFile(batch) \in ScanFiles
         /\ FirstFile(batch) \in Remaining /\ FirstFile(batch) \notin UNION queue
         /\ FirstFile(batch) \notin active
<1>1. FirstFile(batch) \in batch
  BY FirstFileInBatch DEF ScanTyped
<1> QED BY <1>1 DEF ScanTyped, DispatchFits, Remaining, Batches

\* Fewer files remain after part of a batch or of the queue is left out.
LEMMA RemainingShrinks ==
  ASSUME ScanTyped, DispatchFits, NEW b \in SUBSET batch, NEW q \in SUBSET queue
  PROVE  /\ b \union UNION q \in Batches /\ Remaining \in Batches
         /\ Disjoint(q) /\ b \intersect UNION q = {}
         /\ active \intersect (b \union UNION q) = {}
         /\ Cardinality(b \union UNION q) \in Nat
         /\ Cardinality(b \union UNION q) <= Cardinality(Remaining)
<1>1. Remaining \in Batches /\ b \union UNION q \in SUBSET Remaining
  BY DEF ScanTyped, Remaining, Batches
<1>2. b \union UNION q \in Batches
  BY <1>1 DEF Batches
<1> QED BY <1>1, <1>2, FilesFinite DEF DispatchFits, Disjoint, Remaining

\* The files selected are divided over batches.
LEMMA DispatchEnumerates ==
  ASSUME ScanTyped, DispatchFits, EnumerateFiles
  PROVE  DispatchFits'
<1> DEFINE Q == GroupBatches(Reviewable, strategy)
<1>1. Reviewable \in Batches
  BY DEF Reviewable, Batches
<1>2. Q \in SUBSET Batches /\ Disjoint(Q) /\ UNION Q \in SUBSET Reviewable
  BY <1>1, GroupBatchesPartition
<1>3. UNION Q \in Batches
  BY <1>1, <1>2 DEF Batches
<1>4. Cardinality(UNION Q) \in Nat /\ Cardinality(UNION Q) <= NumFiles
  BY <1>3, FilesFinite
<1>5. queue' = Q /\ stage = "enumerate" /\ stage' \in {"over", "next"}
      /\ UNCHANGED <<batch, admitted, active, dispatched, hardFailed>>
  BY DEF EnumerateFiles, counters
<1> HIDE DEF Q
<1>6. batch = {} /\ active = {} /\ dispatched = 0 /\ ~admitted
  BY <1>5 DEF DispatchFits
<1>7. Remaining' = UNION Q
  BY <1>5, <1>6 DEF Remaining
<1> QED BY <1>2, <1>4, <1>5, <1>6, <1>7, FS_EmptySet DEF DispatchFits

\* A batch is taken from the queue, or the loop ends.
LEMMA DispatchTakesBatch ==
  ASSUME ScanTyped, DispatchFits, NextBatch
  PROVE  DispatchFits'
<1>1. /\ stage = "next" /\ stage' \in {"dispatch", "summary"}
      /\ UNCHANGED <<admitted, active, dispatched, hardFailed>>
  BY DEF NextBatch, counters
<1>2. ~admitted
  BY <1>1 DEF DispatchFits
<1>3. CASE queue # {} /\ ~budgetHit
  <2>1. batch' = FirstBatch(queue, strategy) /\ queue' = queue \ {batch'}
    BY <1>3 DEF NextBatch
  <2>2. batch' \in queue
    BY <1>3, <2>1, FirstBatchInQueue DEF ScanTyped, DispatchFits
  <2>3. batch' \intersect UNION queue' = {} /\ Disjoint(queue')
    BY <2>1, <2>2 DEF DispatchFits, Disjoint
  <2>4. Remaining' = {} \union UNION queue
    BY <2>1, <2>2 DEF Remaining
  <2>5. /\ active \intersect ({} \union UNION queue) = {}
        /\ Cardinality({} \union UNION queue) \in Nat
        /\ Cardinality({} \union UNION queue) <= Cardinality(Remaining)
        /\ Cardinality(Remaining) \in Nat
    <3>1. {} \in SUBSET batch /\ queue \in SUBSET queue
      OBVIOUS
    <3> QED BY <3>1, RemainingShrinks, FilesFinite
  <2> QED BY <1>1, <1>2, <2>3, <2>4, <2>5, ScanAssumption DEF DispatchFits, ScanTyped
<1>4. CASE ~(queue # {} /\ ~budgetHit)
  <2>1. UNCHANGED <<batch, queue>>
    BY <1>4 DEF NextBatch
  <2> QED BY <1>1, <1>2, <2>1 DEF DispatchFits, Remaining
<1> QED BY <1>3, <1>4

\* Files that leave the batch, or the queue, for none to run.
LEMMA DispatchLeavesOut ==
  ASSUME ScanTyped, DispatchFits, stage' = stage,
         batch' \in SUBSET batch, queue' \in SUBSET queue,
         admitted' => admitted /\ batch' = batch,
         UNCHANGED <<active, dispatched, hardFailed>>
  PROVE  DispatchFits'
<1>1. /\ Disjoint(queue') /\ batch' \intersect UNION queue' = {}
      /\ active \intersect Remaining' = {}
      /\ Cardinality(Remaining') \in Nat
      /\ Cardinality(Remaining') <= Cardinality(Remaining)
      /\ Cardinality(Remaining) \in Nat
  <2>1. Remaining' = batch' \union UNION queue'
    BY DEF Remaining
  <2> QED BY <2>1, RemainingShrinks, FilesFinite
<1> QED BY <1>1, ScanAssumption DEF DispatchFits, ScanTyped

\* A file gets a slot.
LEMMA DispatchStartsFile ==
  ASSUME ScanTyped, DispatchFits, StartSubtask
  PROVE  DispatchFits'
<1> DEFINE f == FirstFile(batch)
<1>1. /\ admitted /\ Cardinality(active) < Parallelism /\ admitted' = FALSE
      /\ batch' = batch \ {f} /\ active' = active \union {f}
      /\ dispatched' = dispatched + 1
      /\ UNCHANGED <<stage, queue, hardFailed>>
  BY DEF StartSubtask
<1>2. /\ f \in ScanFiles /\ f \in Remaining /\ f \notin UNION queue /\ f \notin active
  BY <1>1, FirstRemaining DEF DispatchFits
<1>3. Remaining' = Remaining \ {f}
  BY <1>1, <1>2 DEF Remaining
<1>4. Remaining \in Batches
  BY RemainingShrinks
<1> HIDE DEF f
<1>5. /\ Cardinality(active') = Cardinality(active) + 1
      /\ Cardinality(Remaining') = Cardinality(Remaining) - 1
      /\ Cardinality(active) \in Nat /\ Cardinality(Remaining) \in Nat
  BY <1>1, <1>2, <1>3, <1>4, OneFile, FilesFinite DEF ScanTyped
<1>6. active' \intersect Remaining' = {} /\ batch' \intersect UNION queue' = {}
  BY <1>1, <1>2, <1>3 DEF DispatchFits
<1>7. stage # "enumerate" /\ Disjoint(queue)
  BY <1>1 DEF DispatchFits
<1>8. dispatched + Cardinality(Remaining) <= NumFiles /\ hardFailed + Cardinality(active) <= dispatched
  BY DEF DispatchFits
<1>9. NumFiles \in Nat /\ Parallelism \in Nat /\ dispatched \in Nat /\ hardFailed \in Nat
  BY ScanAssumption DEF ScanTyped
<1>10. /\ Cardinality(active') <= Parallelism
       /\ dispatched' + Cardinality(Remaining') <= NumFiles
       /\ hardFailed' + Cardinality(active') <= dispatched'
  BY <1>1, <1>5, <1>8, <1>9
<1> QED BY <1>1, <1>6, <1>7, <1>10 DEF DispatchFits

\* A file's goroutine ends.
LEMMA DispatchEndsFile ==
  ASSUME ScanTyped, DispatchFits, NEW f \in ScanFiles, EndSubtask(f)
  PROVE  DispatchFits'
<1>1. /\ f \in active /\ active' = active \ {f}
      /\ hardFailed' \in {hardFailed, hardFailed + 1}
      /\ UNCHANGED <<stage, queue, batch, admitted, dispatched>>
  BY DEF EndSubtask
<1>2. /\ Cardinality(active') = Cardinality(active) - 1
      /\ Cardinality(active) \in Nat
  BY <1>1, OneFile, FilesFinite DEF ScanTyped
<1>3. Remaining' = Remaining
  BY <1>1 DEF Remaining
<1>4. active # {}
  BY <1>1
<1>5. Cardinality(active) <= Parallelism /\ hardFailed + Cardinality(active) <= dispatched
  BY DEF DispatchFits
<1>6. Parallelism \in Nat /\ dispatched \in Nat /\ hardFailed \in Nat
  BY ScanAssumption DEF ScanTyped
<1>7. /\ Cardinality(active') <= Parallelism
      /\ hardFailed' + Cardinality(active') <= dispatched'
  BY <1>1, <1>2, <1>5, <1>6
<1>8. active' \subseteq active /\ stage # "enumerate"
  BY <1>1, <1>4 DEF DispatchFits
<1> QED BY <1>1, <1>3, <1>7, <1>8 DEF DispatchFits

\* No step puts a file in two places or counts it twice.
LEMMA DispatchStep ==
  ASSUME ScanTyped, DispatchFits, [ScanNext]_scanVars
  PROVE  DispatchFits'
<1>1. CASE EnumerateFiles
  BY <1>1, DispatchEnumerates
<1>2. CASE NextBatch
  BY <1>2, DispatchTakesBatch
<1>3. CASE ReuseFile
  <2>1. /\ stage' = stage /\ batch' \in SUBSET batch /\ queue' \in SUBSET queue
        /\ ~admitted' /\ UNCHANGED <<active, dispatched, hardFailed>>
    BY <1>3 DEF ReuseFile, counters
  <2> QED BY <2>1, DispatchLeavesOut
<1>4. CASE BudgetGate
  <2>1. CASE Affordable(FirstFile(batch))
    <3>1. /\ stage = "dispatch" /\ batch # {} /\ admitted'
          /\ UNCHANGED <<stage, queue, batch, active, dispatched, hardFailed>>
      BY <1>4, <2>1 DEF BudgetGate, counters
    <3> QED BY <3>1 DEF DispatchFits, Remaining
  <2>2. CASE ~Affordable(FirstFile(batch))
    <3>1. /\ stage' = stage /\ batch' \in SUBSET batch /\ queue' \in SUBSET queue
          /\ ~admitted' /\ UNCHANGED <<active, dispatched, hardFailed>>
      BY <1>4, <2>2 DEF BudgetGate, counters
    <3> QED BY <3>1, DispatchLeavesOut
  <2> QED BY <2>1, <2>2
<1>5. CASE StartSubtask
  BY <1>5, DispatchStartsFile
<1>6. CASE StopDispatch
  <2>1. /\ stage' = stage /\ batch' \in SUBSET batch /\ queue' \in SUBSET queue
        /\ ~admitted' /\ UNCHANGED <<active, dispatched, hardFailed>>
    BY <1>6 DEF StopDispatch, counters
  <2> QED BY <2>1, DispatchLeavesOut
<1>7. CASE PoolAdds \/ CancelScan \/ (\E f \in ScanFiles : SaysComment(f)) \/ UNCHANGED scanVars
  <2>1. UNCHANGED <<stage, batch, queue, admitted, active, dispatched, hardFailed>>
    BY <1>7 DEF PoolAdds, CancelScan, SaysComment, scanVars, counters
  <2> QED BY <2>1 DEF DispatchFits, Remaining
<1>8. CASE BatchDrained \/ Dedup \/ Summarize
  <2>1. /\ UNCHANGED <<batch, queue, admitted, active, dispatched, hardFailed>>
        /\ stage' # "enumerate" /\ (admitted => stage' = "dispatch")
    BY <1>8 DEF BatchDrained, Dedup, Summarize, counters, DispatchFits
  <2> QED BY <2>1 DEF DispatchFits, Remaining
<1>9. CASE \E f \in ScanFiles : EndSubtask(f)
  BY <1>9, DispatchEndsFile
<1> QED BY <1>1, <1>2, <1>3, <1>4, <1>5, <1>6, <1>7, <1>8, <1>9 DEF ScanNext

-----------------------------------------------------------------------------
(* The budget. *)

\* The files that run or will get a slot.
Busy == IF admitted THEN active \union {FirstFile(batch)} ELSE active

\* What was spent, and what the files in flight may still cost.
BudgetFits ==
  TokenBudget > 0 =>
    spent + Total(Estimates, Dearest, Busy) <= TokenBudget + Parallelism * Dearest + late

\* Products grow with a factor.
LEMMA ProductGrows ==
  ASSUME NEW a \in Nat, NEW b \in Nat, NEW d \in Nat, a <= b
  PROVE  a * d \in Nat /\ b * d \in Nat /\ a * d <= b * d
<1>1. b - a \in Nat /\ (b - a) * d \in Nat /\ (b - a) * d = b * d - a * d
  OBVIOUS
<1> QED BY <1>1

\* The files in flight are files, and their cost is a number.
LEMMA BusyCosts ==
  ASSUME ScanTyped, DispatchFits
  PROVE  /\ Busy \in SUBSET (1..NumFiles) /\ active \in SUBSET (1..NumFiles)
         /\ NumFiles \in Nat /\ Dearest \in Nat /\ Costs(Estimates, Dearest, NumFiles)
         /\ Total(Estimates, Dearest, Busy) \in Nat
         /\ Parallelism * Dearest \in Nat
<1>1. NumFiles \in Nat /\ Parallelism \in Nat
  BY ScanAssumption
<1>2. Dearest \in Nat /\ Costs(Estimates, Dearest, NumFiles)
  BY DearestCosts DEF ScanTyped
<1>3. active \in SUBSET ScanFiles /\ Busy \in SUBSET ScanFiles
  BY FirstRemaining DEF Busy, ScanTyped, DispatchFits, Batches
<1>4. active \in SUBSET (1..NumFiles) /\ Busy \in SUBSET (1..NumFiles)
  BY <1>3 DEF ScanFiles
<1>5. Total(Estimates, Dearest, Busy) \in Nat
  BY <1>1, <1>2, <1>4, TotalBounded
<1>6. \A a, d \in Nat : a * d \in Nat
  OBVIOUS
<1> QED BY <1>1, <1>2, <1>4, <1>5, <1>6

\* Without a file that runs nothing is overrun.
LEMMA BudgetStarts ==
  ASSUME ScanInit, ScanTyped, DispatchFits
  PROVE  BudgetFits
<1>1. spent = 0 /\ Busy = {}
  BY DEF ScanInit, Busy
<1>4. late = 0
  BY DEF ScanInit
<1>2. Units(Estimates, Dearest, {}) = {}
  BY DEF Units
<1>3. Total(Estimates, Dearest, Busy) = 0
  BY <1>1, <1>2, FS_EmptySet DEF Total
<1> QED BY <1>1, <1>3, <1>4, BusyCosts, ScanAssumption DEF BudgetFits

\* Estimates do not change.
LEMMA CostsStay ==
  ASSUME kinds' = kinds
  PROVE  Dearest' = Dearest /\ Estimates' = Estimates
BY DEF Dearest, Estimates, Estimate

\* A step in which no tokens but those of a call are counted and no file begins.
LEMMA BudgetStays ==
  ASSUME ScanTyped, DispatchFits, BudgetFits, kinds' = kinds,
         NEW cost \in Nat, spent' = spent + cost, late' = late + cost,
         Busy' \in SUBSET Busy
  PROVE  BudgetFits'
<1>1. Dearest' = Dearest /\ Estimates' = Estimates
  BY CostsStay
<1>2. /\ Total(Estimates, Dearest, Busy') \in Nat
      /\ Total(Estimates, Dearest, Busy') <= Total(Estimates, Dearest, Busy)
  <2>1. Busy' \in SUBSET (1..NumFiles)
    BY BusyCosts
  <2>2. NumFiles \in Nat /\ Dearest \in Nat /\ Busy \in SUBSET (1..NumFiles)
    BY BusyCosts
  <2>3. Total(Estimates, Dearest, Busy') \in Nat
    BY ONLY <2>1, <2>2, TotalBounded
  <2>4. Total(Estimates, Dearest, Busy') <= Total(Estimates, Dearest, Busy)
    BY ONLY <2>2, Busy' \in SUBSET Busy, TotalShrinks
  <2> QED BY <2>3, <2>4
<1>3. Total(Estimates, Dearest, Busy)' = Total(Estimates, Dearest, Busy')
  BY <1>1
<1>4. /\ spent \in Nat /\ late \in Nat /\ TokenBudget \in Nat /\ Parallelism * Dearest \in Nat
      /\ Total(Estimates, Dearest, Busy) \in Nat
  BY BusyCosts, ScanAssumption DEF ScanTyped
<1>5. (Parallelism * Dearest)' = Parallelism * Dearest
  BY <1>1
<1>6. cost \in Nat /\ spent' = spent + cost /\ late' = late + cost
  OBVIOUS
<1> QED BY ONLY BudgetFits, <1>2, <1>3, <1>4, <1>5, <1>6 DEF BudgetFits

\* A step in which no tokens are counted and no file begins.
LEMMA BudgetIdles ==
  ASSUME ScanTyped, DispatchFits, BudgetFits, UNCHANGED <<kinds, spent, late>>,
         Busy' \in SUBSET Busy
  PROVE  BudgetFits'
<1>1. spent' = spent + 0 /\ late' = late + 0
  BY DEF ScanTyped
<1> QED BY <1>1, BudgetStays

\* The gate lets a file through that the rest of the budget pays for.
LEMMA BudgetAdmits ==
  ASSUME ScanTyped, DispatchFits, BudgetFits, BudgetGate
  PROVE  BudgetFits'
<1> DEFINE f == FirstFile(batch)
<1>1. /\ batch # {} /\ ~admitted
      /\ UNCHANGED <<kinds, spent, active>>
  BY DEF BudgetGate, fixed, counters
<1>2. CASE ~Affordable(f)
  <2>1. ~admitted' /\ late' = late
    BY <1>1, <1>2 DEF BudgetGate
  <2> QED BY <1>1, <2>1, BudgetIdles DEF Busy
<1>3. CASE Affordable(f)
  <2>1. admitted' /\ batch' = batch /\ late' = 0
    BY <1>3 DEF BudgetGate
  <2>2. f \in ScanFiles /\ f \notin active
    BY <1>1, FirstRemaining
  <2>3. Busy' = active \union {f}
    BY <1>1, <2>1 DEF Busy
  <2>4. Dearest' = Dearest /\ Estimates' = Estimates
    BY <1>1, CostsStay
  <2>5. Estimates[f] = Estimate(f) /\ f \in 1..NumFiles
    BY <2>2 DEF Estimates, ScanFiles
  <2> HIDE DEF f
  <2>6. Total(Estimates, Dearest, active \union {f})
          = Total(Estimates, Dearest, active) + Estimates[f]
    BY <2>2, <2>5, BusyCosts, TotalAdds
  <2>7. /\ Total(Estimates, Dearest, active) \in Nat
        /\ Total(Estimates, Dearest, active) <= Parallelism * Dearest
    <3>1. /\ Total(Estimates, Dearest, active) \in Nat
          /\ Total(Estimates, Dearest, active) <= Cardinality(active) * Dearest
      BY BusyCosts, TotalBounded
    <3>2. Cardinality(active) \in Nat /\ Cardinality(active) <= Parallelism
      BY FilesFinite DEF ScanTyped, DispatchFits
    <3>3. /\ Cardinality(active) * Dearest \in Nat /\ Parallelism * Dearest \in Nat
          /\ Cardinality(active) * Dearest <= Parallelism * Dearest
      BY <3>2, BusyCosts, ProductGrows, ScanAssumption
    <3> QED BY <3>1, <3>3
  <2>8. TokenBudget > 0 => spent + Estimate(f) <= TokenBudget
    BY <1>3, ScanAssumption DEF Affordable
  <2>9. Estimate(f) \in Nat
    BY <2>5, BusyCosts DEF Costs
  <2>10. Total(Estimates, Dearest, Busy)' = Total(Estimates, Dearest, active) + Estimate(f)
    BY <2>3, <2>4, <2>5, <2>6
  <2>11. spent \in Nat /\ TokenBudget \in Nat /\ Parallelism * Dearest \in Nat
    BY BusyCosts, ScanAssumption DEF ScanTyped
  <2>12. spent' = spent /\ (Parallelism * Dearest)' = Parallelism * Dearest
    BY <1>1, <2>4
  <2> QED BY ONLY <2>1, <2>7, <2>8, <2>9, <2>10, <2>11, <2>12 DEF BudgetFits
<1> QED BY <1>2, <1>3

\* A file that ends cost no more than was set aside for it.
LEMMA BudgetSpends ==
  ASSUME ScanTyped, DispatchFits, BudgetFits, NEW f \in ScanFiles, EndSubtask(f)
  PROVE  BudgetFits'
<1>1. /\ f \in active /\ active' = active \ {f}
      /\ spent' \in {spent, spent + Estimate(f)}
      /\ UNCHANGED <<kinds, admitted, batch, late>>
  BY DEF EndSubtask, fixed
<1>2. Busy = Busy' \union {f} /\ f \notin Busy' /\ Busy' \in SUBSET Busy
  BY <1>1, FirstRemaining DEF Busy, DispatchFits
<1>3. Dearest' = Dearest /\ Estimates' = Estimates
  BY <1>1, CostsStay
<1>4. Estimates[f] = Estimate(f) /\ f \in 1..NumFiles
  BY DEF Estimates, ScanFiles
<1>5. Estimate(f) \in Nat
  BY <1>4, BusyCosts DEF Costs
<1>6. Busy' \in SUBSET (1..NumFiles)
  BY <1>2, BusyCosts
<1>7. Total(Estimates, Dearest, Busy) = Total(Estimates, Dearest, Busy') + Estimate(f)
  BY <1>2, <1>4, <1>6, BusyCosts, TotalAdds
<1>8. Total(Estimates, Dearest, Busy') \in Nat
  BY <1>6, BusyCosts, TotalBounded
<1>9. Total(Estimates, Dearest, Busy)' = Total(Estimates, Dearest, Busy')
  BY <1>3
<1>10. spent \in Nat /\ late \in Nat /\ TokenBudget \in Nat /\ Parallelism * Dearest \in Nat
  BY BusyCosts, ScanAssumption DEF ScanTyped
<1>11. (Parallelism * Dearest)' = Parallelism * Dearest
  BY <1>3
<1> QED BY ONLY BudgetFits, <1>1, <1>5, <1>7, <1>8, <1>9, <1>10, <1>11 DEF BudgetFits

\* No step spends what was not set aside.
LEMMA BudgetStep ==
  ASSUME ScanTyped, DispatchFits, BudgetFits, [ScanNext]_scanVars
  PROVE  BudgetFits'
<1>1. CASE \/ EnumerateFiles \/ PoolAdds \/ CancelScan \/ BatchDrained
           \/ (\E f \in ScanFiles : SaysComment(f)) \/ UNCHANGED scanVars
  <2>1. UNCHANGED <<kinds, spent, late, batch, admitted, active>>
    BY <1>1 DEF EnumerateFiles, PoolAdds, CancelScan, BatchDrained, SaysComment,
                scanVars, counters, fixed
  <2>2. Busy' = Busy
    BY <2>1 DEF Busy
  <2> QED BY <2>1, <2>2, BudgetIdles
<1>6. CASE Dedup \/ Summarize
  <2>1. /\ UNCHANGED <<kinds, batch, admitted, active>>
        /\ UNCHANGED <<spent, late>> \/ CallCosts(CallTokens)
    BY <1>6 DEF Dedup, Summarize, fixed
  <2>2. Busy' = Busy
    BY <2>1 DEF Busy
  <2>3. CASE CallCosts(CallTokens)
    <3>1. CallTokens \in Nat /\ spent' = spent + CallTokens /\ late' = late + CallTokens
      BY <2>3, ScanAssumption DEF CallCosts
    <3> QED BY <2>1, <2>2, <3>1, BudgetStays
  <2> QED BY <2>1, <2>2, <2>3, BudgetIdles
<1>2. CASE NextBatch \/ ReuseFile \/ StopDispatch
  <2>1. UNCHANGED <<kinds, spent, late, active>>
    BY <1>2 DEF NextBatch, ReuseFile, StopDispatch, fixed, counters
  <2>2. ~admitted'
    BY <1>2 DEF NextBatch, ReuseFile, StopDispatch, DispatchFits
  <2>3. Busy' \in SUBSET Busy
    BY <2>1, <2>2 DEF Busy
  <2> QED BY <2>1, <2>3, BudgetIdles
<1>3. CASE BudgetGate
  BY <1>3, BudgetAdmits
<1>4. CASE StartSubtask
  <2>1. /\ admitted /\ ~admitted' /\ active' = active \union {FirstFile(batch)}
        /\ UNCHANGED <<kinds, spent, late>>
    BY <1>4 DEF StartSubtask, fixed
  <2>2. Busy' = Busy
    BY <2>1 DEF Busy
  <2> QED BY <2>1, <2>2, BudgetIdles
<1>5. CASE \E f \in ScanFiles : EndSubtask(f)
  BY <1>5, BudgetSpends
<1> QED BY <1>1, <1>2, <1>3, <1>4, <1>5, <1>6 DEF ScanNext

\* The calls after the last file that passed the gate: without checkpoints one
\* merges the comments of that file's batch, since a batch none of whose files
\* passes has none, and one summarizes.
CallsFit ==
  /\ stage # "dispatch" => active = {} /\ unlocated = {}
  /\ stage = "enumerate" => late = 0
  /\ reusable = {} =>
       /\ late <= CallTokens \/ (stage = "over" /\ late <= 2 * CallTokens)
       /\ stage \in {"dispatch", "dedup"} /\ late # 0 =>
            active = {} /\ unlocated = {} /\ ~admitted /\ Len(located) = batchStart

\* Every step keeps that.
LEMMA CallsStep ==
  ASSUME ScanTyped, DispatchFits, CallsFit, [ScanNext]_scanVars
  PROVE  CallsFit'
<1>1. late \in Nat /\ CallTokens \in Nat
  BY ScanAssumption DEF ScanTyped
<1>2. CASE EnumerateFiles \/ NextBatch
  BY <1>1, <1>2 DEF EnumerateFiles, NextBatch, CallsFit, DispatchFits, counters, fixed
<1>3. CASE ReuseFile
  BY <1>3 DEF ReuseFile, CallsFit, counters, fixed
<1>4. CASE BudgetGate
  BY <1>1, <1>4 DEF BudgetGate, CallsFit, fixed
<1>5. CASE StartSubtask \/ StopDispatch
  BY <1>1, <1>5 DEF StartSubtask, StopDispatch, CallsFit, DispatchFits, counters, fixed
<1>6. CASE PoolAdds
  BY <1>1, <1>6 DEF PoolAdds, CallsFit, counters, fixed
<1>7. CASE \E f \in ScanFiles : SaysComment(f) \/ EndSubtask(f)
  BY <1>1, <1>7 DEF SaysComment, EndSubtask, CallsFit, fixed
<1>8. CASE BatchDrained
  BY <1>1, <1>8 DEF BatchDrained, CallsFit, counters, fixed
<1>9. CASE Dedup
  <2>1. CASE UNCHANGED <<located, spent, late>>
    BY <1>1, <1>9, <2>1 DEF Dedup, CallsFit, fixed
  <2>2. CASE Len(Since(batchStart)) >= 2 /\ CallCosts(CallTokens)
    <3>1. Len(located) # batchStart
      BY <2>2 DEF Since, ScanTyped
    <3>2. /\ stage = "dedup" /\ stage' = "next" /\ late' = late + CallTokens
          /\ UNCHANGED <<active, unlocated, reusable>>
      BY <1>9, <2>2 DEF Dedup, CallCosts, fixed
    <3>3. reusable = {} => late = 0
      BY <3>1, <3>2 DEF CallsFit
    <3> QED BY <1>1, <3>2, <3>3 DEF CallsFit
  <2> QED BY <1>9, <2>1, <2>2 DEF Dedup
<1>10. CASE Summarize
  <2>1. /\ stage = "summary" /\ stage' = "over" /\ late' \in {late, late + CallTokens}
        /\ UNCHANGED <<active, unlocated, reusable>>
    BY <1>10 DEF Summarize, CallCosts, fixed
  <2> QED BY <1>1, <2>1 DEF CallsFit
<1>11. CASE CancelScan \/ UNCHANGED scanVars
  BY <1>11 DEF CancelScan, scanVars, CallsFit, counters, fixed
<1> QED BY <1>2, <1>3, <1>4, <1>5, <1>6, <1>7, <1>8, <1>9, <1>10, <1>11 DEF ScanNext

-----------------------------------------------------------------------------
(* The findings. *)

\* What the comments of seq stand for.
Held(seq) == UNION {seq[i].of : i \in DOMAIN seq}

\* No finding, but one reused, is in two comments of seq.
Distinct(seq) ==
  \A i, j \in DOMAIN seq : i # j => seq[i].of \intersect seq[j].of \subseteq {0}

Pooled == UNION {c.of : c \in unlocated}

\* Everything said is in the collector or in the pool, and nothing twice.
FindingsFit ==
  /\ 1..uttered \subseteq Held(located) \union Pooled
  /\ Distinct(located)
  /\ Held(located) \subseteq 0..uttered
  /\ Pooled \subseteq 1..uttered
  /\ Held(located) \intersect Pooled = {}
  /\ \A c, d \in unlocated : c # d => c.of \intersect d.of = {}

\* A comment added stands for its own findings.
LEMMA AddedComment ==
  ASSUME NEW seq \in Seq(ScanComments), NEW c \in ScanComments, Distinct(seq),
         Held(seq) \intersect c.of \subseteq {0}
  PROVE  /\ Append(seq, c) \in Seq(ScanComments)
         /\ Len(Append(seq, c)) = Len(seq) + 1 /\ Len(seq) \in Nat
         /\ Held(Append(seq, c)) = Held(seq) \union c.of
         /\ Distinct(Append(seq, c))
<1> DEFINE t == Append(seq, c)
           n == Len(seq)
<1>1. /\ t \in Seq(ScanComments) /\ n \in Nat /\ Len(t) = n + 1
      /\ DOMAIN seq = 1..n /\ DOMAIN t = 1..(n + 1)
      /\ t[n + 1] = c /\ \A i \in 1..n : t[i] = seq[i]
  OBVIOUS
<1> HIDE DEF t, n
<1>2. \A i \in 1..(n + 1) : i \in 1..n \/ i = n + 1
  BY <1>1
<1>3. 1..n \subseteq 1..(n + 1) /\ n + 1 \in 1..(n + 1) /\ n + 1 \notin 1..n
  BY <1>1
<1>4. Held(t) = Held(seq) \union c.of
  BY <1>1, <1>2, <1>3 DEF Held
<1>5. Distinct(t)
  <2> SUFFICES ASSUME NEW i \in 1..(n + 1), NEW j \in 1..(n + 1), i # j
               PROVE  t[i].of \intersect t[j].of \subseteq {0}
    BY <1>1 DEF Distinct
  <2>1. \A k \in 1..n : t[k].of \subseteq Held(seq)
    BY <1>1 DEF Held
  <2>2. CASE i \in 1..n /\ j \in 1..n
    BY <1>1, <2>2 DEF Distinct
  <2>3. CASE i = n + 1 \/ j = n + 1
    BY <1>1, <1>2, <2>1, <2>3
  <2> QED BY <1>2, <2>2, <2>3
<1> QED BY <1>1, <1>4, <1>5 DEF t, n

\* A group's comment stands for what its members stood for.
LEMMA MergedFits ==
  ASSUME NEW comments \in Seq(ScanComments), NEW groups \in Groupings(Len(comments)),
         WellGrouped(groups, Len(comments))
  PROVE  /\ Merged(groups, comments) \in Seq(ScanComments)
         /\ Held(Merged(groups, comments)) = Held(comments)
         /\ Distinct(comments) => Distinct(Merged(groups, comments))
<1> DEFINE n == Len(comments)
           result == Merged(groups, comments)
<1>1. n \in Nat /\ DOMAIN comments = 1..n /\ \A i \in 1..n : comments[i] \in ScanComments
  BY ElementOfSeq
<1>2. PICK size \in Nat : DOMAIN groups = 1..size
  BY <1>1 DEF Groupings
<1>3. ASSUME NEW g \in 1..size
      PROVE  /\ \E m \in Nat : DOMAIN groups[g] = 1..m
             /\ 1 \in DOMAIN groups[g]
             /\ \A m \in DOMAIN groups[g] : groups[g][m] \in 1..n
  <2>1. PICK m \in 0..2 : groups[g] \in [1..m -> 1..(n + 1)]
    <3>1. PICK s \in 0..n : groups \in [1..s -> UNION {[1..m -> 1..(n + 1)] : m \in 0..2}]
      BY DEF Groupings
    <3>2. g \in 1..s
      BY <1>2, <3>1
    <3> QED BY <3>1, <3>2
  <2>2. groups[g] # <<>>
    BY <1>2 DEF WellGrouped
  <2>3. m # 0
    <3>1. groups[g] \in Seq(1..(n + 1)) /\ Len(groups[g]) = m
      BY <2>1
    <3> QED BY <2>2, <3>1, EmptySeq
  <2>4. DOMAIN groups[g] = 1..m /\ 1 \in 1..m
    BY <2>1, <2>3
  <2>5. ASSUME NEW k \in DOMAIN groups[g]
        PROVE  groups[g][k] \in 1..n
    <3>1. <<g, k>> \in Memberships(groups)
      BY <1>2 DEF Memberships
    <3> QED BY <3>1 DEF WellGrouped
  <2> QED BY <2>1, <2>4, <2>5
<1>4. ASSUME NEW g \in 1..size
      PROVE  /\ result[g] \in ScanComments
             /\ result[g].of = UNION {comments[groups[g][m]].of : m \in DOMAIN groups[g]}
  <2>1. result[g] = [comments[groups[g][1]] EXCEPT
                       !.of = UNION {comments[groups[g][m]].of : m \in DOMAIN groups[g]}]
    BY <1>2 DEF Merged
  <2>2. comments[groups[g][1]] \in ScanComments
    BY <1>1, <1>3
  <2>3. UNION {comments[groups[g][m]].of : m \in DOMAIN groups[g]} \in SUBSET Nat
    BY <1>1, <1>3 DEF ScanComments
  <2> HIDE DEF result
  <2> QED BY <2>1, <2>2, <2>3 DEF ScanComments
<1>5. DOMAIN result = 1..size
  BY <1>2 DEF Merged
<1>6. result \in Seq(ScanComments)
  <2>1. result = [g \in 1..size |-> result[g]]
    BY <1>2 DEF Merged
  <2> HIDE DEF result
  <2> QED BY <1>2, <1>4, <2>1
<1> HIDE DEF result
<1>7. ASSUME NEW i \in 1..n
      PROVE  \E g \in 1..size : \E m \in DOMAIN groups[g] : groups[g][m] = i
  <2>1. PICK p \in Memberships(groups) : groups[p[1]][p[2]] = i
    BY DEF WellGrouped
  <2>2. p[1] \in 1..size /\ p[2] \in DOMAIN groups[p[1]]
    BY <1>2, <2>1 DEF Memberships
  <2> QED BY <2>1, <2>2
<1>8. Held(result) = Held(comments)
  <2>1. ASSUME NEW x \in Held(result) PROVE x \in Held(comments)
    <3>1. PICK g \in 1..size : x \in result[g].of
      BY <1>5, <2>1 DEF Held
    <3>2. PICK m \in DOMAIN groups[g] : x \in comments[groups[g][m]].of
      BY <1>4, <3>1
    <3> QED BY <1>1, <1>3, <3>2 DEF Held
  <2>2. ASSUME NEW x \in Held(comments) PROVE x \in Held(result)
    <3>1. PICK i \in 1..n : x \in comments[i].of
      BY <1>1, <2>2 DEF Held
    <3>2. PICK g \in 1..size : \E m \in DOMAIN groups[g] : groups[g][m] = i
      BY <1>7, <3>1
    <3>3. x \in result[g].of
      BY <1>4, <3>1, <3>2
    <3> QED BY <1>5, <3>3 DEF Held
  <2> QED BY <2>1, <2>2
<1>9. ASSUME Distinct(comments) PROVE Distinct(result)
  <2> SUFFICES ASSUME NEW g \in 1..size, NEW h \in 1..size, g # h,
                      NEW x \in result[g].of \intersect result[h].of
               PROVE  x = 0
    BY <1>5 DEF Distinct
  <2>1. PICK m \in DOMAIN groups[g] : x \in comments[groups[g][m]].of
    BY <1>4
  <2>2. PICK k \in DOMAIN groups[h] : x \in comments[groups[h][k]].of
    BY <1>4
  <2>3. groups[g][m] # groups[h][k]
    <3>1. <<g, m>> \in Memberships(groups) /\ <<h, k>> \in Memberships(groups)
      BY <1>2 DEF Memberships
    <3> QED BY <3>1 DEF WellGrouped
  <2>4. groups[g][m] \in 1..n /\ groups[h][k] \in 1..n
    BY <1>3
  <2> QED BY <1>1, <1>9, <2>1, <2>2, <2>3, <2>4 DEF Distinct
<1> QED BY <1>6, <1>8, <1>9 DEF result

\* What holds of all comments holds of the last ones.
LEMMA LaterDistinct ==
  ASSUME NEW s \in Seq(ScanComments), NEW t \in Seq(ScanComments), Distinct(s \o t)
  PROVE  Distinct(t)
<1> DEFINE k == Len(s)
           st == s \o t
<1>1. k \in Nat /\ Len(t) \in Nat /\ DOMAIN t = 1..Len(t) /\ DOMAIN st = 1..(k + Len(t))
  OBVIOUS
<1>2. \A i \in 1..Len(t) : st[k + i] = t[i]
  BY ConcatProperties
<1>3. Distinct(st)
  OBVIOUS
<1> HIDE DEF k, st
<1>4. \A i \in 1..Len(t) : k + i \in 1..(k + Len(t))
  BY <1>1
<1>5. \A i, j \in 1..Len(t) : i # j => k + i # k + j
  BY <1>1
<1>6. ASSUME NEW i \in 1..Len(t), NEW j \in 1..Len(t), i # j
      PROVE  t[i].of \intersect t[j].of \subseteq {0}
  <2>1. k + i \in DOMAIN st /\ k + j \in DOMAIN st /\ k + i # k + j
    BY <1>1, <1>4, <1>5, <1>6
  <2>2. st[k + i].of \intersect st[k + j].of \subseteq {0}
    BY <1>3, <2>1 DEF Distinct
  <2> QED BY <1>2, <2>2
<1> QED BY <1>1, <1>6 DEF Distinct

\* The comments of a batch are replaced by others that stand for the same.
LEMMA Replaced ==
  ASSUME NEW s \in Seq(ScanComments), NEW t \in Seq(ScanComments),
         NEW u \in Seq(ScanComments),
         Held(u) = Held(t), Distinct(s \o t), Distinct(u)
  PROVE  /\ s \o u \in Seq(ScanComments)
         /\ Len(s \o u) \in Nat /\ Len(s) <= Len(s \o u)
         /\ Held(s \o u) = Held(s \o t)
         /\ Distinct(s \o u)
<1> DEFINE k == Len(s)
<1>1. k \in Nat /\ Len(t) \in Nat /\ Len(u) \in Nat
  OBVIOUS
<1>2. /\ s \o u \in Seq(ScanComments) /\ s \o t \in Seq(ScanComments)
      /\ Len(s \o u) = k + Len(u) /\ Len(s \o t) = k + Len(t)
  OBVIOUS
<1>3. /\ \A i \in 1..k : (s \o u)[i] = s[i] /\ (s \o t)[i] = s[i]
      /\ \A i \in 1..Len(u) : (s \o u)[k + i] = u[i]
      /\ \A i \in 1..Len(t) : (s \o t)[k + i] = t[i]
  BY <1>1, ConcatProperties
<1> DEFINE su == s \o u
           st == s \o t
<1>4. /\ DOMAIN su = 1..(k + Len(u)) /\ DOMAIN st = 1..(k + Len(t))
      /\ DOMAIN u = 1..Len(u) /\ DOMAIN t = 1..Len(t) /\ DOMAIN s = 1..k
  BY <1>2
<1> HIDE DEF su, st, k
<1>5. /\ \A i \in 1..k : su[i] = s[i] /\ st[i] = s[i] /\ i \in DOMAIN su /\ i \in DOMAIN st
      /\ \A i \in DOMAIN u : su[k + i] = u[i] /\ k + i \in DOMAIN su /\ k + i \notin 1..k
      /\ \A i \in DOMAIN t : st[k + i] = t[i] /\ k + i \in DOMAIN st /\ k + i \notin 1..k
  <2>1. /\ \A i \in 1..k : i \in 1..(k + Len(u)) /\ i \in 1..(k + Len(t))
        /\ \A i \in 1..Len(u) : k + i \in 1..(k + Len(u)) /\ k + i \notin 1..k
        /\ \A i \in 1..Len(t) : k + i \in 1..(k + Len(t)) /\ k + i \notin 1..k
    BY <1>1
  <2>2. /\ \A i \in 1..k : su[i] = s[i] /\ st[i] = s[i]
        /\ \A i \in 1..Len(u) : su[k + i] = u[i]
        /\ \A i \in 1..Len(t) : st[k + i] = t[i]
    BY <1>3 DEF su, st
  <2> QED BY <1>4, <2>1, <2>2
<1>6. /\ \A j \in DOMAIN su : j \in 1..k \/ \E i \in DOMAIN u : j = k + i
      /\ \A j \in DOMAIN st : j \in 1..k \/ \E i \in DOMAIN t : j = k + i
  <2>1. ASSUME NEW m \in Nat, NEW j \in 1..(k + m)
        PROVE  j \in 1..k \/ \E i \in 1..m : j = k + i
    <3>1. CASE j > k
      <4>1. j - k \in 1..m /\ j = k + (j - k)
        BY <1>1, <3>1
      <4> QED BY <4>1
    <3> QED BY <1>1, <3>1
  <2>2. \A j \in 1..(k + Len(u)) : j \in 1..k \/ \E i \in 1..Len(u) : j = k + i
    BY <1>1, <2>1
  <2>3. \A j \in 1..(k + Len(t)) : j \in 1..k \/ \E i \in 1..Len(t) : j = k + i
    BY <1>1, <2>1
  <2> QED BY <1>4, <2>2, <2>3
<1>7. Held(su) = Held(s) \union Held(u)
  BY <1>4, <1>5, <1>6 DEF Held
<1>8. Held(st) = Held(s) \union Held(t)
  BY <1>4, <1>5, <1>6 DEF Held
<1>9. Distinct(su)
  <2> SUFFICES ASSUME NEW i \in DOMAIN su, NEW j \in DOMAIN su, i # j,
                      NEW x \in su[i].of \intersect su[j].of
               PROVE  x = 0
    BY DEF Distinct
  <2>1. ASSUME NEW a \in 1..k, NEW b \in DOMAIN u, x \in s[a].of, x \in u[b].of
        PROVE  x = 0
    <3>1. x \in Held(u)
      BY <2>1 DEF Held
    <3>2. x \in Held(t)
      BY <3>1
    <3>3. PICK c \in DOMAIN t : x \in t[c].of
      BY <3>2 DEF Held
    <3>4. /\ a \in DOMAIN st /\ k + c \in DOMAIN st /\ a # k + c
          /\ x \in st[a].of /\ x \in st[k + c].of
      BY <1>5, <2>1, <3>3
    <3>5. Distinct(st)
      BY DEF st
    <3> QED BY <3>4, <3>5 DEF Distinct
  <2>2. CASE i \in 1..k /\ j \in 1..k
    <3>1. Distinct(st)
      BY DEF st
    <3> QED BY <1>5, <2>2, <3>1 DEF Distinct
  <2>3. CASE i \in 1..k /\ j \notin 1..k
    BY <1>5, <1>6, <2>1, <2>3
  <2>4. CASE i \notin 1..k /\ j \in 1..k
    BY <1>5, <1>6, <2>1, <2>4
  <2>5. CASE i \notin 1..k /\ j \notin 1..k
    <3>1. PICK a \in DOMAIN u : i = k + a
      BY <1>6, <2>5
    <3>2. PICK b \in DOMAIN u : j = k + b
      BY <1>6, <2>5
    <3>3. a # b /\ x \in u[a].of /\ x \in u[b].of
      BY <1>5, <3>1, <3>2
    <3> QED BY <3>3 DEF Distinct
  <2> QED BY <2>2, <2>3, <2>4, <2>5
<1> QED BY <1>1, <1>2, <1>7, <1>8, <1>9 DEF su, st, k

\* Nothing is said before the scan starts.
LEMMA FindingsStart ==
  ScanInit => FindingsFit
<1> SUFFICES ASSUME ScanInit PROVE FindingsFit
  OBVIOUS
<1>1. /\ uttered = 0 /\ DOMAIN located = {} /\ unlocated = {}
  BY DEF ScanInit
<1>2. Held(located) = {} /\ Pooled = {} /\ 1..uttered = {}
  BY <1>1 DEF Held, Pooled
<1> QED BY <1>1, <1>2 DEF FindingsFit, Distinct

\* A checkpoint's comment is no finding of this scan.
LEMMA FindingsReuse ==
  ASSUME ScanTyped, DispatchFits, FindingsFit, ReuseFile
  PROVE  FindingsFit' /\ located' \in Seq(ScanComments) /\ Len(located) <= Len(located')
<1> DEFINE c == [path |-> FirstFile(batch), of |-> {0}]
<1>1. /\ batch # {} /\ located' = Append(located, c)
      /\ unlocated' = unlocated /\ uttered' = uttered
  BY DEF ReuseFile, counters
<1>2. c \in ScanComments /\ c.of = {0}
  BY <1>1, FirstRemaining DEF ScanComments
<1> HIDE DEF c
<1>3. located \in Seq(ScanComments) /\ uttered \in Nat /\ Distinct(located)
  BY DEF ScanTyped, FindingsFit
<1>4. Held(located) \intersect c.of \subseteq {0}
  BY <1>2
<1>5. /\ located' \in Seq(ScanComments)
      /\ Len(located') = Len(located) + 1 /\ Len(located) \in Nat
      /\ Held(located') = Held(located) \union {0}
      /\ Distinct(located')
  BY <1>1, <1>2, <1>3, <1>4, AddedComment
<1>6. Held(located)' = Held(located') /\ Distinct(located)' = Distinct(located')
  BY DEF Held, Distinct
<1>7. Pooled' = Pooled /\ 0 \notin 1..uttered /\ 0 \in 0..uttered
  BY <1>1, <1>3 DEF Pooled
<1> QED BY <1>1, <1>5, <1>6, <1>7 DEF FindingsFit

\* What the model says goes to the pool.
LEMMA FindingsSaid ==
  ASSUME ScanTyped, FindingsFit, NEW f \in ScanFiles, SaysComment(f)
  PROVE  FindingsFit' /\ unlocated' \in SUBSET ScanComments
<1> DEFINE c == [path |-> f, of |-> {uttered + 1}]
<1>1. /\ uttered' = uttered + 1 /\ unlocated' = unlocated \union {c}
      /\ located' = located
  BY DEF SaysComment
<1>2. uttered \in Nat /\ unlocated \in SUBSET ScanComments
  BY DEF ScanTyped
<1>3. c \in ScanComments /\ c.of = {uttered + 1}
  BY <1>2 DEF ScanComments
<1> HIDE DEF c
<1>4. Held(located)' = Held(located) /\ Distinct(located)' = Distinct(located)
  BY <1>1 DEF Held, Distinct
<1>5. Pooled' = Pooled \union {uttered + 1}
  BY <1>1, <1>3 DEF Pooled
<1>6. /\ 1..uttered' = 1..uttered \union {uttered + 1}
      /\ 0..uttered \subseteq 0..uttered' /\ uttered + 1 \notin 0..uttered
      /\ uttered + 1 \notin 1..uttered
  BY <1>1, <1>2
<1>7. \A d \in unlocated : d.of \subseteq Pooled
  BY DEF Pooled
<1>8. \A d, e \in unlocated' : d # e => d.of \intersect e.of = {}
  BY <1>1, <1>3, <1>6, <1>7 DEF FindingsFit
<1>9. unlocated' \in SUBSET ScanComments
  BY <1>1, <1>2, <1>3
<1> QED BY <1>4, <1>5, <1>6, <1>8, <1>9 DEF FindingsFit

\* The pool passes each comment on once.
LEMMA FindingsAdded ==
  ASSUME ScanTyped, FindingsFit, PoolAdds
  PROVE  /\ FindingsFit' /\ located' \in Seq(ScanComments) /\ unlocated' \in SUBSET ScanComments
         /\ Len(located) <= Len(located')
<1>1. PICK c \in unlocated :
        unlocated' = unlocated \ {c} /\ located' = Append(located, c)
  BY DEF PoolAdds
<1>2. uttered' = uttered /\ uttered \in Nat
  BY DEF PoolAdds, counters, ScanTyped
<1>3. located \in Seq(ScanComments) /\ c \in ScanComments /\ Distinct(located)
  BY DEF ScanTyped, FindingsFit
<1>4. c.of \subseteq Pooled
  BY DEF Pooled
<1>5. Held(located) \intersect c.of \subseteq {0}
  BY <1>4 DEF FindingsFit
<1>6. /\ located' \in Seq(ScanComments)
      /\ Len(located') = Len(located) + 1 /\ Len(located) \in Nat
      /\ Held(located') = Held(located) \union c.of
      /\ Distinct(located')
  BY <1>1, <1>3, <1>5, AddedComment
<1>7. Held(located)' = Held(located') /\ Distinct(located)' = Distinct(located')
  BY DEF Held, Distinct
<1>8. Pooled' \union c.of = Pooled /\ Pooled' \subseteq Pooled
  BY <1>1 DEF Pooled
<1>9. Pooled' \intersect c.of = {}
  BY <1>1 DEF Pooled, FindingsFit
<1>10. 1..uttered \subseteq 0..uttered
  BY <1>2
<1>11. \A d, e \in unlocated' : d # e => d.of \intersect e.of = {}
  BY <1>1 DEF FindingsFit
<1>12. unlocated' \in SUBSET ScanComments
  BY <1>1 DEF ScanTyped
<1>13. Held(located) \subseteq 0..uttered /\ Pooled \subseteq 1..uttered
       /\ 1..uttered \subseteq Held(located) \union Pooled
       /\ Held(located) \intersect Pooled = {}
  BY DEF FindingsFit
<1>14. /\ 1..uttered \subseteq Held(located') \union Pooled'
       /\ Held(located') \subseteq 0..uttered
       /\ Pooled' \subseteq 1..uttered
       /\ Held(located') \intersect Pooled' = {}
  BY <1>4, <1>6, <1>8, <1>9, <1>10, <1>13
<1> QED BY <1>2, <1>6, <1>7, <1>11, <1>12, <1>14 DEF FindingsFit

\* Near-duplicates are merged into one that stands for all of them.
LEMMA FindingsMerged ==
  ASSUME ScanTyped, FindingsFit, Dedup
  PROVE  FindingsFit' /\ located' \in Seq(ScanComments) /\ batchStart \in 0..Len(located')
<1> DEFINE comments == Since(batchStart)
           first == SubSeq(located, 1, batchStart)
<1>1. located \in Seq(ScanComments) /\ batchStart \in 0..Len(located) /\ Len(located) \in Nat
  BY DEF ScanTyped
<1>2. unlocated' = unlocated /\ uttered' = uttered
  BY DEF Dedup, counters
<1>3. /\ first \in Seq(ScanComments) /\ comments \in Seq(ScanComments)
      /\ first \o comments = located /\ Len(first) = batchStart
  <2>1. /\ 1 \in 1 .. Len(located) + 1
        /\ batchStart \in 1 - 1 .. Len(located)
        /\ Len(located) \in batchStart .. Len(located)
    BY <1>1
  <2>2. SubSeq(located, 1, batchStart) \o SubSeq(located, batchStart + 1, Len(located))
          = SubSeq(located, 1, Len(located))
    BY <1>1, <2>1, ConcatAdjacentSubSeq
  <2>3. SubSeq(located, 1, Len(located)) = located
    BY <1>1, SubSeqFull
  <2>4. \A i \in 1..Len(located) : located[i] \in ScanComments
    BY <1>1, ElementOfSeq
  <2>5. SubSeq(located, 1, batchStart) \in Seq(ScanComments)
    BY <1>1, <2>4, SubSeqProperties
  <2>6. SubSeq(located, batchStart + 1, Len(located)) \in Seq(ScanComments)
    BY <1>1, <2>4, SubSeqProperties
  <2>7. Len(SubSeq(located, 1, batchStart)) = batchStart
    BY <1>1, <2>4, SubSeqProperties
  <2> QED BY <2>2, <2>3, <2>5, <2>6, <2>7 DEF Since
<1>4. \/ located' = located
      \/ \E g \in Groupings(Len(comments)) :
           WellGrouped(g, Len(comments)) /\ located' = first \o Merged(g, comments)
  BY DEF Dedup
<1> HIDE DEF comments, first
<1>5. /\ located' \in Seq(ScanComments) /\ Held(located') = Held(located)
      /\ Distinct(located') /\ batchStart \in 0..Len(located')
  <2>1. Distinct(located) /\ Distinct(first \o comments)
    BY <1>3 DEF FindingsFit
  <2>2. CASE located' = located
    BY <1>1, <2>1, <2>2
  <2>3. CASE \E g \in Groupings(Len(comments)) :
               WellGrouped(g, Len(comments)) /\ located' = first \o Merged(g, comments)
    <3>1. PICK g \in Groupings(Len(comments)) :
            WellGrouped(g, Len(comments)) /\ located' = first \o Merged(g, comments)
      BY <2>3
    <3>2. Distinct(comments)
      BY <1>3, <2>1, LaterDistinct
    <3>3. /\ Merged(g, comments) \in Seq(ScanComments)
          /\ Held(Merged(g, comments)) = Held(comments)
          /\ Distinct(Merged(g, comments))
      BY <1>3, <3>1, <3>2, MergedFits
    <3>4. /\ first \o Merged(g, comments) \in Seq(ScanComments)
          /\ Len(first \o Merged(g, comments)) \in Nat
          /\ batchStart <= Len(first \o Merged(g, comments))
          /\ Held(first \o Merged(g, comments)) = Held(first \o comments)
          /\ Distinct(first \o Merged(g, comments))
      BY <1>3, <2>1, <3>3, Replaced
    <3> QED BY <1>1, <1>3, <3>1, <3>4
  <2> QED BY <1>4, <2>2, <2>3
<1>6. Held(located)' = Held(located') /\ Distinct(located)' = Distinct(located')
  BY DEF Held, Distinct
<1>7. Pooled' = Pooled
  BY <1>2 DEF Pooled
<1> QED BY <1>2, <1>5, <1>6, <1>7 DEF FindingsFit

\* No step loses a finding or has it twice.
LEMMA FindingsStep ==
  ASSUME ScanTyped, DispatchFits, FindingsFit, [ScanNext]_scanVars
  PROVE  FindingsFit'
<1>1. CASE \/ EnumerateFiles \/ NextBatch \/ BudgetGate \/ StartSubtask \/ StopDispatch
           \/ BatchDrained \/ Summarize \/ CancelScan
           \/ (\E f \in ScanFiles : EndSubtask(f)) \/ UNCHANGED scanVars
  <2>1. UNCHANGED <<located, unlocated, uttered>>
    BY <1>1 DEF EnumerateFiles, NextBatch, BudgetGate, StartSubtask, StopDispatch,
                BatchDrained, Summarize, CancelScan, EndSubtask, scanVars, counters
  <2> QED BY <2>1 DEF FindingsFit, Held, Pooled, Distinct
<1> QED BY <1>1, FindingsReuse, FindingsSaid, FindingsAdded, FindingsMerged DEF ScanNext

-----------------------------------------------------------------------------
(* The theorems. *)

\* The first state has its types.
LEMMA ScanTypedStarts ==
  ScanInit => ScanTyped
<1> SUFFICES ASSUME ScanInit PROVE ScanTyped
  OBVIOUS
<1>1. kinds \in [ScanFiles -> FileFacts]
  <2>1. kinds \in {k \in [ScanFiles -> UNION {KindsOfFile[f] : f \in ScanFiles}] :
                     \A f \in ScanFiles : k[f] \in KindsOfFile[f]}
    BY DEF ScanInit
  <2>2. \A f \in ScanFiles : kinds[f] \in KindsOfFile[f]
    BY <2>1
  <2>3. \A f \in ScanFiles : KindsOfFile[f] \in SUBSET FileFacts
    BY ScanAssumption
  <2>4. kinds = [f \in ScanFiles |-> kinds[f]]
    BY <2>1
  <2> HIDE DEF FileFacts
  <2>5. \A f \in ScanFiles : kinds[f] \in FileFacts
    BY <2>2, <2>3
  <2> QED BY <2>4, <2>5
<1>2. located \in Seq(ScanComments) /\ batchStart \in 0..Len(located)
  BY DEF ScanInit
<1> QED BY <1>1, <1>2 DEF ScanInit, ScanTyped, Stages, Batches

\* Every step keeps the types.
LEMMA ScanTypedStep ==
  ASSUME ScanTyped, DispatchFits, FindingsFit, [ScanNext]_scanVars
  PROVE  ScanTyped'
<1> USE DEF Batches
<1>1. CASE EnumerateFiles
  <2>1. Reviewable \in Batches
    BY DEF Reviewable
  <2>2. queue' \in SUBSET Batches
    <3>1. GroupBatches(Reviewable, strategy) \in SUBSET Batches
      BY <2>1, GroupBatchesPartition
    <3> QED BY <1>1, <3>1 DEF EnumerateFiles
  <2>3. /\ stage' \in Stages
        /\ UNCHANGED <<kinds, scanCtx, batch, admitted, active, located, unlocated, batchStart,
                       spent, late, dispatched, hardFailed, uttered, fileState>>
    BY <1>1 DEF EnumerateFiles, fixed, counters, Stages
  <2> QED BY <2>2, <2>3 DEF ScanTyped
<1>2. CASE NextBatch
  <2>1. batch' \in Batches /\ queue' \in SUBSET Batches
    <3>1. CASE queue # {} /\ ~budgetHit
      <4>1. batch' = FirstBatch(queue, strategy) /\ queue' = queue \ {batch'}
        BY <1>2, <3>1 DEF NextBatch
      <4>2. batch' \in queue
        BY <3>1, <4>1, FirstBatchInQueue DEF ScanTyped, DispatchFits
      <4> QED BY <4>1, <4>2 DEF ScanTyped
    <3>2. CASE ~(queue # {} /\ ~budgetHit)
      BY <1>2, <3>2 DEF NextBatch, ScanTyped
    <3> QED BY <3>1, <3>2
  <2>2. located' = located /\ batchStart' \in {batchStart, Len(located)} /\ stage' \in Stages
    BY <1>2 DEF NextBatch, Stages
  <2>3. batchStart' \in 0..Len(located')
    <3>1. Len(located) \in Nat
      BY DEF ScanTyped
    <3> QED BY <2>2, <3>1 DEF ScanTyped
  <2>4. UNCHANGED <<kinds, scanCtx, admitted, active, unlocated, spent, late, dispatched,
                    hardFailed, uttered, fileState>>
    BY <1>2 DEF NextBatch, fixed, counters
  <2> QED BY <2>1, <2>2, <2>3, <2>4 DEF ScanTyped
<1>3. CASE ReuseFile
  <2>1. /\ stage' = stage /\ batch' \in SUBSET batch
        /\ fileState' = [fileState EXCEPT ![FirstFile(batch)] = "reused"]
        /\ UNCHANGED <<kinds, scanCtx, queue, admitted, active, unlocated, batchStart,
                       spent, late, dispatched, hardFailed, uttered>>
    BY <1>3 DEF ReuseFile, fixed, counters
  <2>2. located' \in Seq(ScanComments) /\ Len(located) <= Len(located')
    BY <1>3, FindingsReuse
  <2>3. batchStart' \in 0..Len(located')
    BY <2>1, <2>2 DEF ScanTyped
  <2>4. fileState' \in [ScanFiles -> {"none", "reused", "completed", "failed"}]
    BY <2>1 DEF ScanTyped
  <2> QED BY <2>1, <2>2, <2>3, <2>4 DEF ScanTyped
<1>4. CASE BudgetGate \/ StopDispatch \/ BatchDrained \/ Summarize \/ CancelScan
           \/ UNCHANGED scanVars
  <2>1. /\ stage' \in Stages /\ scanCtx' \in {"live", "done"}
        /\ batch' \in SUBSET batch /\ queue' \in SUBSET queue /\ admitted' \in BOOLEAN
        /\ UNCHANGED <<kinds, active, located, unlocated, batchStart,
                       dispatched, hardFailed, uttered, fileState>>
    BY <1>4 DEF BudgetGate, StopDispatch, BatchDrained, Summarize, CancelScan, scanVars,
                fixed, counters, ScanTyped, Stages
  <2>2. spent' \in Nat /\ late' \in Nat
    <3>1. (spent' = spent /\ late' \in {0, late}) \/ CallCosts(CallTokens)
      BY <1>4 DEF BudgetGate, StopDispatch, BatchDrained, Summarize, CancelScan, scanVars, counters
    <3> QED BY <3>1, ScanAssumption DEF ScanTyped, CallCosts
  <2> QED BY <2>1, <2>2 DEF ScanTyped
<1>5. CASE StartSubtask
  <2>1. FirstFile(batch) \in ScanFiles
    BY <1>5, FirstRemaining DEF StartSubtask, DispatchFits
  <2>2. /\ batch' \in Batches /\ active' \in Batches /\ dispatched' \in Nat
        /\ admitted' \in BOOLEAN
    <3>1. /\ batch' = batch \ {FirstFile(batch)} /\ active' = active \union {FirstFile(batch)}
          /\ dispatched' = dispatched + 1 /\ admitted' = FALSE
      BY <1>5 DEF StartSubtask
    <3>2. batch \in SUBSET ScanFiles /\ active \in SUBSET ScanFiles /\ dispatched \in Nat
      BY DEF ScanTyped
    <3>3. dispatched' \in Nat
      BY <3>1, <3>2
    <3>4. batch' \in SUBSET ScanFiles /\ active' \in SUBSET ScanFiles
      BY <2>1, <3>1, <3>2
    <3> QED BY <3>1, <3>3, <3>4
  <2>3. UNCHANGED <<kinds, stage, scanCtx, queue, located, unlocated, batchStart, spent, late,
                    hardFailed, uttered, fileState>>
    BY <1>5 DEF StartSubtask, fixed
  <2> QED BY <2>2, <2>3 DEF ScanTyped
<1>6. CASE PoolAdds
  <2>1. /\ UNCHANGED <<kinds, stage, scanCtx, queue, batch, admitted, active, batchStart,
                       spent, late, dispatched, hardFailed, uttered, fileState>>
        /\ located' \in Seq(ScanComments) /\ unlocated' \in SUBSET ScanComments
        /\ Len(located) <= Len(located')
    BY <1>6, FindingsAdded DEF PoolAdds, fixed, counters
  <2>2. batchStart' \in 0..Len(located')
    BY <2>1 DEF ScanTyped
  <2> QED BY <2>1, <2>2 DEF ScanTyped
<1>7. CASE Dedup
  <2>1. /\ UNCHANGED <<kinds, scanCtx, queue, batch, admitted, active, batchStart, unlocated,
                       dispatched, hardFailed, uttered, fileState>>
        /\ stage' \in Stages /\ (UNCHANGED <<spent, late>> \/ CallCosts(CallTokens))
    BY <1>7 DEF Dedup, fixed, counters, Stages
  <2>2. located' \in Seq(ScanComments) /\ batchStart \in 0..Len(located')
    BY <1>7, FindingsMerged
  <2>3. batchStart' \in 0..Len(located')
    BY <2>1, <2>2
  <2>4. spent' \in Nat /\ late' \in Nat
    BY <2>1, ScanAssumption DEF ScanTyped, CallCosts
  <2> QED BY <2>1, <2>2, <2>3, <2>4 DEF ScanTyped
<1>8. CASE \E f \in ScanFiles : SaysComment(f)
  <2>1. PICK f \in ScanFiles : SaysComment(f)
    BY <1>8
  <2>2. unlocated' \in SUBSET ScanComments
    BY <2>1, FindingsSaid
  <2>3. /\ uttered' \in Nat
        /\ UNCHANGED <<kinds, stage, scanCtx, queue, batch, admitted, active, located,
                       batchStart, spent, late, dispatched, hardFailed, fileState>>
    BY <2>1 DEF SaysComment, ScanTyped, fixed
  <2> QED BY <2>2, <2>3 DEF ScanTyped
<1>9. CASE \E f \in ScanFiles : EndSubtask(f)
  <2>1. PICK f \in ScanFiles : EndSubtask(f)
    BY <1>9
  <2>2. Estimate(f) \in Nat
    <3>1. Estimates[f] = Estimate(f) /\ f \in 1..NumFiles
      BY DEF Estimates, ScanFiles
    <3> QED BY <3>1, BusyCosts DEF Costs
  <2>3. spent' \in Nat /\ hardFailed' \in Nat
    BY <2>1, <2>2 DEF EndSubtask, ScanTyped
  <2>4. fileState' \in [ScanFiles -> {"none", "reused", "completed", "failed"}]
    <3>1. fileState' = fileState \/ \E end \in {"completed", "failed"} :
            fileState' = [fileState EXCEPT ![f] = end]
      BY <2>1 DEF EndSubtask
    <3> QED BY <3>1 DEF ScanTyped
  <2>5. /\ active' \in SUBSET active
        /\ UNCHANGED <<kinds, stage, scanCtx, queue, batch, admitted, located, unlocated,
                       batchStart, late, dispatched, uttered>>
    BY <2>1 DEF EndSubtask, fixed
  <2> QED BY <2>3, <2>4, <2>5 DEF ScanTyped
<1> QED BY <1>1, <1>2, <1>3, <1>4, <1>5, <1>6, <1>7, <1>8, <1>9 DEF ScanNext

ScanInv == ScanTyped /\ DispatchFits /\ BudgetFits /\ CallsFit /\ FindingsFit

\* The invariant holds in every state of the scan.
THEOREM ScanIsSound ==
  ScanSpec => []ScanInv
<1>1. ScanInit => ScanInv
  <2>1. ScanInit => CallsFit
    BY ScanAssumption DEF ScanInit, CallsFit
  <2> QED BY <2>1, ScanTypedStarts, DispatchStarts, BudgetStarts, FindingsStart DEF ScanInv
<1>2. ScanInv /\ [ScanNext]_scanVars => ScanInv'
  BY ScanTypedStep, DispatchStep, BudgetStep, CallsStep, FindingsStep DEF ScanInv
<1> QED BY <1>1, <1>2, PTL DEF ScanSpec

\* The scan's budget is exceeded by no more than the dearest file for each slot
\* and the calls after the last file that passed the gate, for any repository,
\* any estimates, any batches and any number of slots; without checkpoints these
\* are no more than two.
THEOREM OverrunAlwaysBounded ==
  ScanSpec => []OverrunBounded
<1>1. ScanInv => OverrunBounded
  <2> SUFFICES ASSUME ScanInv PROVE OverrunBounded
    OBVIOUS
  <2>1. /\ spent \in Nat /\ late \in Nat /\ TokenBudget \in Nat /\ CallTokens \in Nat
        /\ Parallelism * Dearest \in Nat /\ Total(Estimates, Dearest, Busy) \in Nat
    BY BusyCosts, ScanAssumption DEF ScanInv, ScanTyped
  <2>2. TokenBudget > 0 => spent <= TokenBudget + Parallelism * Dearest + late
    <3>1. TokenBudget > 0 =>
            spent + Total(Estimates, Dearest, Busy) <= TokenBudget + Parallelism * Dearest + late
      BY DEF ScanInv, BudgetFits
    <3> QED BY <2>1, <3>1
  <2>3. reusable = {} => late <= 2 * CallTokens
    BY <2>1 DEF ScanInv, CallsFit
  <2> QED BY <2>2, <2>3 DEF OverrunBounded
<1> QED BY <1>1, ScanIsSound, PTL

\* No finding of a scan is lost, or counted twice, between the pool, the
\* collector and the merging of near-duplicates, whatever the model answers.
THEOREM ScanAlwaysKeepsFindings ==
  ScanSpec => []ScanKeepsFindings
<1>1. ScanInv => ScanKeepsFindings
  <2> SUFFICES ASSUME ScanInv PROVE ScanKeepsFindings
    OBVIOUS
  <2>1. ScanTypeOK
    <3>1. Cardinality(active) \in Nat /\ Cardinality(Remaining) \in Nat
      BY RemainingShrinks, FilesFinite DEF ScanInv, ScanTyped
    <3>2. dispatched \in 0..NumFiles /\ hardFailed \in 0..dispatched
      BY <3>1, ScanAssumption DEF ScanInv, ScanTyped, DispatchFits
    <3> QED BY <3>2 DEF ScanTypeOK, ScanInv, ScanTyped, DispatchFits, Batches
  <2>2. UNION {c.of : c \in ToSet(located) \union unlocated} = Held(located) \union Pooled
    BY DEF ToSet, Held, Pooled
  <2> QED BY <2>1, <2>2 DEF ScanKeepsFindings, ScanInv, FindingsFit, Distinct
<1> QED BY <1>1, ScanIsSound, PTL

-----------------------------------------------------------------------------
(* What the inputs' operators return. *)

\* A set of consecutive numbers' subset that is not empty has a greatest number.
LEMMA GreatestNumber ==
  ASSUME NEW n \in Nat, NEW S \in SUBSET (1..n), S # {}
  PROVE  Max(S) \in S
<1> DEFINE h == [i \in 1..n |-> IF i \in S THEN i ELSE 0]
<1>1. n \in Nat \ {0} /\ h \in [1..n -> Nat]
  <2>1. PICK i \in 1..n : i \in S
    OBVIOUS
  <2> QED BY <2>1
<1>2. \A i \in 1..n : h[i] = IF i \in S THEN i ELSE 0
  OBVIOUS
<1> HIDE DEF h
<1>3. PICK g \in 1..n : \A f \in 1..n : h[f] <= h[g]
  BY <1>1, GreatestValue
<1>4. PICK i \in 1..n : i \in S
  OBVIOUS
<1>5. g \in S
  BY <1>2, <1>3, <1>4
<1>6. \A f \in S : g >= f
  <2> TAKE f \in S
  <2>1. f \in 1..n /\ h[f] = f /\ h[g] = g
    BY <1>2, <1>5
  <2> QED BY <1>3, <2>1
<1> QED BY <1>5, <1>6 DEF Max

\* Of the sessions found the latest is one of them.
LEMMA LatestIsFound ==
  ASSUME NEW n \in Nat, NEW ids, NEW found \in SUBSET (1..n), found # {},
         \A i \in found : ids[i] \in Nat
  PROVE  Latest(ids, found) \in found
<1> DEFINE h == [i \in 1..n |-> IF i \in found THEN ids[i] + 1 ELSE 0]
<1>1. n \in Nat \ {0} /\ h \in [1..n -> Nat]
  <2>1. PICK i \in 1..n : i \in found
    OBVIOUS
  <2>2. \A k \in 1..n : (IF k \in found THEN ids[k] + 1 ELSE 0) \in Nat
    OBVIOUS
  <2> QED BY <2>1, <2>2
<1>2. \A i \in 1..n : h[i] = IF i \in found THEN ids[i] + 1 ELSE 0
  OBVIOUS
<1> HIDE DEF h
<1>3. PICK g \in 1..n : \A f \in 1..n : h[f] <= h[g]
  BY <1>1, GreatestValue
<1>4. PICK i \in 1..n : i \in found
  OBVIOUS
<1>5. h[i] = ids[i] + 1 /\ ids[i] \in Nat /\ h[i] <= h[g]
  BY <1>2, <1>3, <1>4
<1>6. g \in found
  BY <1>2, <1>5
<1>7. \A f \in found : ids[f] <= ids[g]
  <2> TAKE f \in found
  <2>1. f \in 1..n /\ h[f] = ids[f] + 1 /\ h[g] = ids[g] + 1 /\ ids[f] \in Nat /\ ids[g] \in Nat
    BY <1>2, <1>6
  <2> QED BY <1>3, <2>1
<1> QED BY <1>6, <1>7 DEF Latest

\* A finite set is listed with each element once.
LEMMA ListedOnce ==
  ASSUME NEW S, IsFiniteSet(S)
  PROVE  /\ SetToSeq(S) \in Seq(S)
         /\ \A x \in S : \E i \in DOMAIN SetToSeq(S) :
              SetToSeq(S)[i] = x /\ \A k \in DOMAIN SetToSeq(S) : SetToSeq(S)[k] = x => k = i
<1> DEFINE n == Cardinality(S)
           s == SetToSeq(S)
<1>1. n \in Nat /\ IsFiniteSet(1..n) /\ Cardinality(1..n) = n
  <2>1. n \in Nat
    BY FS_CardinalityType
  <2>2. \A k \in Nat : IsFiniteSet(1..k) /\ Cardinality(1..k) = k
    BY FS_Interval
  <2> HIDE DEF n
  <2> QED BY <2>1, <2>2
<1>2. \E f \in [1..n -> S] : IsInjective(f)
  <2>1. PICK f : f \in Bijection(1..n, S)
    BY FS_CardinalityType DEF ExistsBijection
  <2> HIDE DEF n
  <2> QED BY <2>1 DEF Bijection, Injection, IsInjective
<1>3. s \in [1..n -> S] /\ IsInjective(s)
  BY <1>2 DEF SetToSeq
<1> HIDE DEF s, n
<1>4. s \in Injection(1..n, S)
  BY <1>3 DEF Injection, IsInjective
<1>5. s \in Surjection(1..n, S)
  <2>1. Cardinality(1..n) = Cardinality(S)
    BY <1>1 DEF n
  <2> QED BY <1>1, <1>4, <2>1, FS_Injection
<1>6. \A x \in S : \E i \in 1..n : s[i] = x
  BY <1>5 DEF Surjection
<1>7. DOMAIN s = 1..n /\ \A i, k \in 1..n : s[i] = s[k] => i = k
  BY <1>3 DEF IsInjective
<1>8. s \in Seq(S)
  BY <1>1, <1>3
<1>9. \A x \in S : \E i \in DOMAIN s : s[i] = x /\ \A k \in DOMAIN s : s[k] = x => k = i
  BY <1>6, <1>7
<1> QED BY <1>8, <1>9 DEF s

\* What the k-th line makes of the checkpoint before it.
LineReads(lines, item, k, before) ==
  IF lines[k].path # item THEN before ELSE Log!Applied(before, lines[k])

\* g has the checkpoint of item after each of the first n lines.
ReadsUpTo(g, lines, item, n) ==
  /\ g = [k \in 0..n |-> g[k]]
  /\ g[0] = NoItem
  /\ \A k \in 1..n : g[k] = LineReads(lines, item, k, g[k - 1])

\* There is one for any number of lines.
LEMMA ReadsExist ==
  ASSUME NEW lines, NEW item, NEW n \in Nat
  PROVE  \E g : ReadsUpTo(g, lines, item, n)
<1> DEFINE Lacks == {m \in Nat : ~ \E g : ReadsUpTo(g, lines, item, m)}
<1>1. SUFFICES ASSUME Lacks # {} PROVE FALSE
  OBVIOUS
<1>2. PICK m \in Lacks : \A j \in Lacks : m <= j
  <2>1. Lacks \in SUBSET Nat
    OBVIOUS
  <2> HIDE DEF Lacks
  <2> QED BY <1>1, <2>1, LeastNumber
<1>3. CASE m = 0
  <2> DEFINE g == [k \in 0..0 |-> NoItem]
  <2>1. g[0] = NoItem /\ g = [k \in 0..0 |-> g[k]] /\ 1..0 = {}
    OBVIOUS
  <2> HIDE DEF g
  <2>2. ReadsUpTo(g, lines, item, 0)
    BY <2>1 DEF ReadsUpTo
  <2> QED BY <1>2, <1>3, <2>2
<1>4. CASE m # 0
  <2>1. m - 1 \in Nat /\ m - 1 \notin Lacks /\ m \in Nat
    BY <1>2, <1>4
  <2>2. PICK g : ReadsUpTo(g, lines, item, m - 1)
    BY <2>1
  <2> DEFINE h == [k \in 0..m |-> IF k <= m - 1 THEN g[k]
                                  ELSE LineReads(lines, item, m, g[m - 1])]
  <2>3. h[0] = NoItem /\ h = [k \in 0..m |-> h[k]]
    BY <2>1, <2>2 DEF ReadsUpTo
  <2>4. ASSUME NEW k \in 1..m PROVE h[k] = LineReads(lines, item, k, h[k - 1])
    <3>1. k - 1 \in 0..m /\ k \in 0..m /\ k - 1 <= m - 1 /\ h[k - 1] = g[k - 1]
      BY <2>1
    <3>2. CASE k = m
      <4>1. h[k] = LineReads(lines, item, m, g[m - 1])
        BY <2>1, <3>2
      <4> QED BY <3>1, <3>2, <4>1
    <3>3. CASE k # m
      <4>1. h[k] = g[k] /\ k \in 1..(m - 1)
        BY <2>1, <3>1, <3>3
      <4>2. g[k] = LineReads(lines, item, k, g[k - 1])
        BY <2>2, <4>1 DEF ReadsUpTo
      <4> QED BY <3>1, <4>1, <4>2
    <3> QED BY <3>2, <3>3
  <2> HIDE DEF h
  <2>5. ReadsUpTo(h, lines, item, m)
    BY <2>3, <2>4 DEF ReadsUpTo
  <2> QED BY <1>2, <2>5
<1> QED BY <1>3, <1>4

\* A checkpoint is what a line of its item says.
LEMMA CheckpointIsALine ==
  ASSUME NEW lines, NEW item, Len(lines) \in Nat, Log!Checkpoint(lines, item) # NoItem,
         \A k \in 1..Len(lines) : lines[k].type \in {"done", "reused", "failed"}
  PROVE  \E k \in 1..Len(lines) :
           lines[k].path = item /\ Log!Checkpoint(lines, item) = lines[k].comments
<1> DEFINE n == Len(lines)
           Reading(h) == [k \in 0..n |->
                         IF k = 0 THEN NoItem
                         ELSE IF lines[k].path # item THEN h[k - 1]
                         ELSE Log!Applied(h[k - 1], lines[k])]
           after == CHOOSE h : h = Reading(h)
<1>1. Log!Checkpoint(lines, item) = after[n]
  BY DEF Log!Checkpoint
<1>2. PICK g : ReadsUpTo(g, lines, item, n)
  BY ReadsExist
<1>3. g = Reading(g)
  <2>1. ASSUME NEW k \in 0..n PROVE g[k] = Reading(g)[k]
    <3>1. Reading(g)[k] = IF k = 0 THEN NoItem ELSE LineReads(lines, item, k, g[k - 1])
      BY DEF LineReads
    <3> HIDE DEF Reading
    <3>2. k = 0 \/ k \in 1..n
      OBVIOUS
    <3> QED BY <1>2, <3>1, <3>2 DEF ReadsUpTo
  <2>2. g = [k \in 0..n |-> g[k]]
    BY <1>2 DEF ReadsUpTo
  <2>3. Reading(g) = [k \in 0..n |-> Reading(g)[k]]
    OBVIOUS
  <2> HIDE DEF Reading
  <2> QED BY <2>1, <2>2, <2>3
<1>4. after = Reading(after)
  <2> HIDE DEF Reading
  <2> QED BY <1>3
<1>5. /\ after[0] = NoItem
      /\ \A k \in 1..n : after[k] = LineReads(lines, item, k, after[k - 1])
  <2> HIDE DEF after
  <2>1. ASSUME NEW k \in 0..n
        PROVE  after[k] = IF k = 0 THEN NoItem ELSE LineReads(lines, item, k, after[k - 1])
    <3>1. Reading(after)[k] = IF k = 0 THEN NoItem ELSE LineReads(lines, item, k, after[k - 1])
      BY DEF LineReads
    <3> HIDE DEF Reading
    <3>2. after[k] = Reading(after)[k]
      BY <1>4
    <3> QED BY <3>1, <3>2
  <2>2. 0 \in 0..n /\ \A k \in 1..n : k \in 0..n /\ k # 0
    OBVIOUS
  <2> HIDE DEF Reading
  <2> QED BY <2>1, <2>2
<1> HIDE DEF after, Reading
<1> DEFINE IsALine(m) == \E k \in 1..n : lines[k].path = item /\ after[m] = lines[k].comments
           Bad == {m \in 0..n : after[m] # NoItem /\ ~IsALine(m)}
<1>6. Bad = {}
  <2> SUFFICES ASSUME Bad # {} PROVE FALSE
    OBVIOUS
  <2>1. PICK m \in Bad : \A j \in Bad : m <= j
    <3>1. Bad \in SUBSET Nat
      OBVIOUS
    <3> HIDE DEF Bad
    <3> QED BY <3>1, LeastNumber
  <2>2. m \in 1..n /\ m - 1 \in 0..n /\ after[m] # NoItem /\ ~IsALine(m)
    <3>1. m \in 0..n /\ m # 0
      BY <1>5, <2>1
    <3> QED BY <2>1, <3>1
  <2>3. after[m - 1] = NoItem \/ IsALine(m - 1)
    <3>1. m - 1 \notin Bad
      <4> HIDE DEF Bad
      <4> QED BY <2>1, <2>2
    <3> QED BY <2>2, <3>1
  <2>4. after[m] = LineReads(lines, item, m, after[m - 1])
    BY <1>5, <2>2
  <2>5. lines[m].type \in {"done", "reused", "failed"}
    BY <2>2
  <2>6. \/ after[m] = after[m - 1]
        \/ lines[m].path = item /\ after[m] = lines[m].comments
    BY <2>2, <2>4, <2>5 DEF LineReads, Log!Applied
  <2> QED BY <2>2, <2>3, <2>6
<1>7. n \in 0..n
  OBVIOUS
<1>8. IsALine(n)
  BY <1>1, <1>6, <1>7
<1> QED BY <1>1, <1>8

-----------------------------------------------------------------------------
(* Checkpoints are reused under the rules of the target branch. *)

\* A row of review_job; resume has the listed sessions with their times.
JobRow ==
  [mr : MRs, head : HeadTree, headSHA : Nat, targetSHA : Nat,
   ruleSHA : TargetFiles \union {Missing}, stamp : Nat,
   resume : UNION {[S -> Nat] : S \in SUBSET Nat},
   state : {"waiting", "review", "over"}]

RunRecord ==
  [job : Nat, selected : SUBSET Paths, todo : SUBSET Paths, completed : SUBSET Paths]

InputTyped ==
  /\ target \in [file : TargetFiles \union {Missing}, sha : Nat]
  /\ heads \in [MRs -> [tree : HeadTrees, sha : Nat]]
  /\ clock \in Nat
  /\ jobs \in Seq(JobRow)
  /\ sessions \in Seq(Seq(ItemLine) \union {NoRun})
  /\ Len(sessions) = Len(jobs)
  /\ run # NoRun =>
       run \in RunRecord /\ run.job \in 1..Len(jobs) /\ sessions[run.job] # NoRun

\* A job lists sessions of jobs under its own rule file.
ListsFit(rows, logs) ==
  \A j \in 1..Len(rows) : \A i \in DOMAIN rows[j].resume :
    /\ i \in 1..Len(rows) /\ logs[i] # NoRun /\ rows[i].ruleSHA = rows[j].ruleSHA

\* A finding in job j's session was made under j's rule file for the same diff.
FindingFits(rows, j, f, finding) ==
  /\ finding.file = f /\ finding.job \in 1..Len(rows)
  /\ rows[finding.job].ruleSHA = rows[j].ruleSHA
  /\ rows[finding.job].head.diff[f] = rows[j].head.diff[f]

LineFits(rows, j, line) ==
  \E f \in Paths :
    /\ line.path = <<f, rows[j].head.diff[f]>>
    /\ \A k \in 1..Len(line.comments) : FindingFits(rows, j, f, line.comments[k])

SessionsFit(rows, logs) ==
  \A j \in 1..Len(rows) : logs[j] # NoRun =>
    \A i \in 1..Len(logs[j]) : LineFits(rows, j, logs[j][i])

ReuseFits == ListsFit(jobs, sessions) /\ SessionsFit(jobs, sessions)

\* The jobs of rows are in more with what they were claimed with.
RowsKept(rows, more) ==
  /\ Len(rows) \in Nat /\ Len(more) \in Nat /\ Len(rows) <= Len(more)
  /\ \A j \in 1..Len(rows) : /\ more[j].ruleSHA = rows[j].ruleSHA
                             /\ more[j].head = rows[j].head
                             /\ more[j].resume = rows[j].resume

\* What a line says stays right.
LEMMA LineStays ==
  ASSUME NEW rows, NEW more, RowsKept(rows, more), NEW j \in 1..Len(rows), NEW line,
         LineFits(rows, j, line)
  PROVE  LineFits(more, j, line)
<1>1. PICK f \in Paths :
        /\ line.path = <<f, rows[j].head.diff[f]>>
        /\ \A k \in 1..Len(line.comments) : FindingFits(rows, j, f, line.comments[k])
  BY DEF LineFits
<1>2. /\ more[j].head = rows[j].head /\ more[j].ruleSHA = rows[j].ruleSHA
      /\ 1..Len(rows) \subseteq 1..Len(more)
  BY DEF RowsKept
<1>3. ASSUME NEW finding, FindingFits(rows, j, f, finding)
      PROVE  FindingFits(more, j, f, finding)
  <2>1. /\ more[finding.job].head = rows[finding.job].head
        /\ more[finding.job].ruleSHA = rows[finding.job].ruleSHA
    BY <1>3 DEF FindingFits, RowsKept
  <2> QED BY <1>2, <1>3, <2>1 DEF FindingFits
<1> QED BY <1>1, <1>2, <1>3 DEF LineFits

\* Nothing is recorded.
LEMMA ReuseFitsQuiet ==
  ASSUME NEW rows, NEW more, NEW logs, RowsKept(rows, more), Len(more) = Len(rows),
         ListsFit(rows, logs), SessionsFit(rows, logs)
  PROVE  ListsFit(more, logs) /\ SessionsFit(more, logs)
<1>1. ListsFit(more, logs)
  BY DEF ListsFit, RowsKept
<1>2. SessionsFit(more, logs)
  BY LineStays DEF SessionsFit
<1> QED BY <1>1, <1>2

\* A further job, without a session.
LEMMA ReuseFitsAppended ==
  ASSUME NEW rows \in Seq(JobRow), NEW row \in JobRow,
         NEW logs \in Seq(Seq(ItemLine) \union {NoRun}), Len(logs) = Len(rows),
         ListsFit(rows, logs), SessionsFit(rows, logs),
         \A i \in DOMAIN row.resume :
           i \in 1..Len(rows) /\ logs[i] # NoRun /\ rows[i].ruleSHA = row.ruleSHA
  PROVE  /\ ListsFit(Append(rows, row), Append(logs, NoRun))
         /\ SessionsFit(Append(rows, row), Append(logs, NoRun))
<1> DEFINE more == Append(rows, row)
           after == Append(logs, NoRun)
           n == Len(rows)
<1>1. /\ n \in Nat /\ Len(more) = n + 1 /\ more[n + 1] = row
      /\ \A j \in 1..n : more[j] = rows[j]
  OBVIOUS
<1>2. after[n + 1] = NoRun /\ \A j \in 1..n : after[j] = logs[j]
  OBVIOUS
<1> HIDE DEF more, after
<1>3. RowsKept(rows, more)
  BY <1>1 DEF RowsKept
<1> HIDE DEF n
<1>4. \A j \in 1..(n + 1) : j \in 1..n \/ j = n + 1
  BY <1>1
<1>5. \A j \in 1..n : j \in 1..(n + 1)
  BY <1>1
<1>6. ListsFit(more, after)
  <2>1. ASSUME NEW j \in 1..(n + 1), NEW i \in DOMAIN more[j].resume
        PROVE  i \in 1..(n + 1) /\ after[i] # NoRun /\ more[i].ruleSHA = more[j].ruleSHA
    <3>1. i \in 1..n /\ logs[i] # NoRun /\ rows[i].ruleSHA = more[j].ruleSHA
      <4>1. CASE j \in 1..n
        BY <1>1, <2>1, <4>1 DEF ListsFit, n
      <4>2. CASE j = n + 1
        BY <1>1, <2>1, <4>2 DEF n
      <4> QED BY <1>4, <4>1, <4>2
    <3> QED BY <1>1, <1>2, <1>5, <3>1
  <2> QED BY <1>1, <2>1 DEF ListsFit
<1>7. SessionsFit(more, after)
  <2>1. ASSUME NEW j \in 1..(n + 1), after[j] # NoRun, NEW i \in 1..Len(after[j])
        PROVE  LineFits(more, j, after[j][i])
    <3>1. j \in 1..n /\ after[j] = logs[j]
      BY <1>2, <1>4, <2>1
    <3>2. LineFits(rows, j, logs[j][i])
      BY <2>1, <3>1 DEF SessionsFit, n
    <3> QED BY <1>3, <3>1, <3>2, LineStays DEF n
  <2> QED BY <1>1, <2>1 DEF SessionsFit
<1> QED BY <1>6, <1>7 DEF more, after

\* One session has other lines.
LEMMA ReuseFitsWritten ==
  ASSUME NEW rows \in Seq(JobRow),
         NEW logs \in Seq(Seq(ItemLine) \union {NoRun}), Len(logs) = Len(rows),
         ListsFit(rows, logs), SessionsFit(rows, logs),
         NEW j \in 1..Len(rows), NEW lines \in Seq(ItemLine),
         \A i \in 1..Len(lines) : LineFits(rows, j, lines[i])
  PROVE  /\ ListsFit(rows, [logs EXCEPT ![j] = lines])
         /\ SessionsFit(rows, [logs EXCEPT ![j] = lines])
<1> DEFINE after == [logs EXCEPT ![j] = lines]
<1>1. lines # NoRun
  BY InputAssumption
<1>2. after[j] = lines /\ \A i \in 1..Len(rows) : i # j => after[i] = logs[i]
  OBVIOUS
<1> HIDE DEF after
<1>3. ListsFit(rows, after)
  BY <1>1, <1>2 DEF ListsFit
<1>4. SessionsFit(rows, after)
  <2>1. ASSUME NEW i \in 1..Len(rows), after[i] # NoRun, NEW k \in 1..Len(after[i])
        PROVE  LineFits(rows, i, after[i][k])
    <3>1. CASE i = j
      BY <1>2, <2>1, <3>1
    <3>2. CASE i # j
      BY <1>2, <2>1, <3>2 DEF SessionsFit
    <3> QED BY <3>1, <3>2
  <2> QED BY <2>1 DEF SessionsFit
<1> QED BY <1>3, <1>4 DEF after


\* A job that is over keeps what it was claimed with.
LEMMA OverKeepsRows ==
  ASSUME InputTyped, NEW j \in 1..Len(jobs), Over(j)
  PROVE  /\ jobs' \in Seq(JobRow) /\ Len(jobs') = Len(jobs) /\ clock' \in Nat
         /\ RowsKept(jobs, jobs')
<1> DEFINE row == [jobs[j] EXCEPT !.state = "over", !.stamp = clock]
<1>1. jobs \in Seq(JobRow) /\ clock \in Nat /\ Len(jobs) \in Nat
  BY DEF InputTyped
<1>2. jobs[j] \in JobRow
  BY <1>1
<1>3. /\ row \in JobRow /\ row.ruleSHA = jobs[j].ruleSHA /\ row.head = jobs[j].head
      /\ row.resume = jobs[j].resume
  BY <1>1, <1>2 DEF JobRow
<1>4. jobs' = [jobs EXCEPT ![j] = row] /\ clock' = clock + 1
  BY DEF Over
<1> HIDE DEF row
<1>5. jobs' \in Seq(JobRow) /\ Len(jobs') = Len(jobs)
  BY <1>1, <1>3, <1>4
<1>6. jobs'[j] = row /\ \A k \in 1..Len(jobs) : k # j => jobs'[k] = jobs[k]
  BY <1>1, <1>4
<1>7. RowsKept(jobs, jobs')
  BY <1>1, <1>3, <1>5, <1>6 DEF RowsKept
<1> QED BY <1>1, <1>4, <1>5, <1>7

\* What is listed are sessions of jobs under the rule file, with times.
LEMMA ListedSessions ==
  ASSUME InputTyped, NEW ruleSHA
  PROVE  /\ ListReusableSessions(ruleSHA) \in UNION {[S -> Nat] : S \in SUBSET Nat}
         /\ \A i \in DOMAIN ListReusableSessions(ruleSHA) :
              i \in 1..Len(jobs) /\ sessions[i] # NoRun /\ jobs[i].ruleSHA = ruleSHA
<1> DEFINE S == {i \in DOMAIN jobs : sessions[i] # NoRun /\ jobs[i].ruleSHA = ruleSHA}
<1>1. jobs \in Seq(JobRow) /\ DOMAIN jobs = 1..Len(jobs) /\ Len(jobs) \in Nat
  BY DEF InputTyped
<1>2. \A i \in 1..Len(jobs) : jobs[i].stamp \in Nat
  <2> TAKE i \in 1..Len(jobs)
  <2>1. jobs[i] \in JobRow
    BY <1>1
  <2> QED BY <2>1 DEF JobRow
<1>3. S \in SUBSET Nat /\ \A i \in S : i \in 1..Len(jobs) /\ sessions[i] # NoRun /\ jobs[i].ruleSHA = ruleSHA
  BY <1>1
<1>4. ListReusableSessions(ruleSHA) = [i \in S |-> jobs[i].stamp]
  BY DEF ListReusableSessions
<1> HIDE DEF S
<1>5. ListReusableSessions(ruleSHA) \in [S -> Nat]
  BY <1>2, <1>3, <1>4
<1>6. DOMAIN ListReusableSessions(ruleSHA) = S
  BY <1>4
<1> QED BY <1>3, <1>5, <1>6

\* No sessions are listed for a rejected job.
LEMMA NoneListed == <<>> \in UNION {[S -> Nat] : S \in SUBSET Nat} /\ DOMAIN <<>> = {}
<1>1. <<>> \in [{} -> Nat]
  OBVIOUS
<1>2. {} \in SUBSET Nat
  OBVIOUS
<1> QED BY <1>1, <1>2

\* The row of a job before its lock.
LEMMA PreflightRow ==
  ASSUME InputTyped, NEW mr \in MRs, Preflight(mr)
  PROVE  \E row \in JobRow :
           /\ jobs' = Append(jobs, row)
           /\ \A i \in DOMAIN row.resume :
                i \in 1..Len(jobs) /\ sessions[i] # NoRun /\ jobs[i].ruleSHA = row.ruleSHA
<1> DEFINE rejected == target.file # Missing /\ ~ValidRuleData(target.file)
           resume == IF rejected THEN <<>> ELSE ListReusableSessions(target.file)
           state == IF rejected THEN "over" ELSE "waiting"
           row == [mr |-> mr, head |-> heads[mr].tree, headSHA |-> heads[mr].sha,
                   targetSHA |-> target.sha, ruleSHA |-> target.file, stamp |-> clock,
                   resume |-> resume, state |-> state]
<1>1. jobs' = Append(jobs, row)
  BY DEF Preflight
<1>2. /\ resume \in UNION {[S -> Nat] : S \in SUBSET Nat}
      /\ \A i \in DOMAIN resume :
           i \in 1..Len(jobs) /\ sessions[i] # NoRun /\ jobs[i].ruleSHA = target.file
  BY ListedSessions, NoneListed
<1>3. state \in {"waiting", "review", "over"}
  OBVIOUS
<1> HIDE DEF resume, state
<1>4. /\ heads[mr].tree \in HeadTree /\ heads[mr].sha \in Nat /\ target.sha \in Nat
      /\ target.file \in TargetFiles \union {Missing} /\ clock \in Nat
  BY InputAssumption DEF InputTyped
<1>5. row \in JobRow
  BY <1>2, <1>3, <1>4 DEF JobRow
<1>6. row.resume = resume /\ row.ruleSHA = target.file
  OBVIOUS
<1> HIDE DEF row
<1> QED BY <1>1, <1>2, <1>5, <1>6

\* A reused checkpoint was recorded by a session the job lists.
LEMMA CheckpointIsListed ==
  ASSUME InputTyped, ReuseFits, NEW j \in 1..Len(jobs), NEW item,
         Checkpoint(jobs[j].resume, item) # NoItem
  PROVE  \E r \in DOMAIN jobs[j].resume :
           /\ r \in 1..Len(jobs) /\ sessions[r] \in Seq(ItemLine) /\ sessions[r] # NoRun
           /\ \E k \in 1..Len(sessions[r]) :
                /\ sessions[r][k].path = item
                /\ Checkpoint(jobs[j].resume, item) = sessions[r][k].comments
<1> DEFINE ids == jobs[j].resume
           found == {r \in DOMAIN ids : Log!Checkpoint(sessions[r], item) # NoItem}
<1>1. found # {} /\ Checkpoint(ids, item) = Log!Checkpoint(sessions[Latest(ids, found)], item)
  BY DEF Checkpoint
<1>2. /\ Len(jobs) \in Nat /\ jobs[j] \in JobRow
      /\ \A r \in 1..Len(jobs) : sessions[r] \in Seq(ItemLine) \union {NoRun}
  BY DEF InputTyped
<1>3. \A r \in DOMAIN ids : r \in 1..Len(jobs) /\ sessions[r] # NoRun
  BY DEF ReuseFits, ListsFit
<1>4. \A r \in DOMAIN ids : ids[r] \in Nat
  <2>1. ids \in UNION {[S -> Nat] : S \in SUBSET Nat}
    BY <1>2 DEF JobRow
  <2> QED BY ONLY <2>1
<1>5. found \in SUBSET (1..Len(jobs)) /\ \A r \in found : ids[r] \in Nat
  BY <1>3, <1>4
<1>6. \A r \in found : r \in DOMAIN ids /\ Log!Checkpoint(sessions[r], item) # NoItem
  OBVIOUS
<1> DEFINE r == Latest(ids, found)
<1> HIDE DEF found, ids
<1>7. r \in found
  BY <1>1, <1>2, <1>5, LatestIsFound
<1>8. /\ r \in DOMAIN ids /\ r \in 1..Len(jobs) /\ sessions[r] \in Seq(ItemLine)
      /\ sessions[r] # NoRun /\ Log!Checkpoint(sessions[r], item) # NoItem
  BY <1>2, <1>3, <1>6, <1>7
<1> HIDE DEF r
<1>9. /\ Len(sessions[r]) \in Nat
      /\ \A k \in 1..Len(sessions[r]) : sessions[r][k].type \in {"done", "reused", "failed"}
  <2>1. \A k \in 1..Len(sessions[r]) : sessions[r][k] \in ItemLine
    BY <1>8
  <2>2. \A line \in ItemLine : line.type \in {"done", "reused", "failed"}
    BY DEF ItemLine
  <2> QED BY <1>8, <2>1, <2>2
<1>10. \E k \in 1..Len(sessions[r]) :
         sessions[r][k].path = item /\ Log!Checkpoint(sessions[r], item) = sessions[r][k].comments
  BY <1>8, <1>9, CheckpointIsALine
<1> QED BY <1>1, <1>8, <1>10 DEF r, ids

\* The checkpoint of a file fits the job it is reused in.
LEMMA CheckpointFits ==
  ASSUME InputTyped, ReuseFits, NEW j \in 1..Len(jobs), NEW f \in Paths,
         Checkpoint(jobs[j].resume, Fingerprint(f, jobs[j].head.diff[f])) # NoItem
  PROVE  LET comments == Checkpoint(jobs[j].resume, Fingerprint(f, jobs[j].head.diff[f]))
         IN  /\ comments \in Seq(InputFinding)
             /\ \A k \in 1..Len(comments) : FindingFits(jobs, j, f, comments[k])
<1> DEFINE d == jobs[j].head.diff[f]
           item == Fingerprint(f, d)
           comments == Checkpoint(jobs[j].resume, item)
<1>1. item = <<f, d>>
  BY DEF Fingerprint
<1>12. comments # NoItem
  OBVIOUS
<1> HIDE DEF item
<1>2. PICK r \in DOMAIN jobs[j].resume :
        /\ r \in 1..Len(jobs) /\ sessions[r] \in Seq(ItemLine) /\ sessions[r] # NoRun
        /\ \E k \in 1..Len(sessions[r]) :
             sessions[r][k].path = item /\ comments = sessions[r][k].comments
  BY <1>12, CheckpointIsListed
<1> HIDE DEF comments, d
<1>3. PICK k \in 1..Len(sessions[r]) :
        sessions[r][k].path = <<f, d>> /\ comments = sessions[r][k].comments
  BY <1>1, <1>2
<1>4. comments \in Seq(InputFinding)
  <2>1. sessions[r][k] \in ItemLine
    BY <1>2, <1>3
  <2> QED BY <1>3, <2>1 DEF ItemLine
<1>5. LineFits(jobs, r, sessions[r][k])
  BY <1>2, <1>3 DEF ReuseFits, SessionsFit
<1>6. PICK g \in Paths :
        /\ sessions[r][k].path = <<g, jobs[r].head.diff[g]>>
        /\ \A i \in 1..Len(sessions[r][k].comments) :
             FindingFits(jobs, r, g, sessions[r][k].comments[i])
  BY <1>5 DEF LineFits
<1>7. g = f /\ jobs[r].head.diff[f] = d
  BY <1>3, <1>6
<1>8. jobs[r].ruleSHA = jobs[j].ruleSHA
  BY <1>2 DEF ReuseFits, ListsFit
<1>9. \A finding : FindingFits(jobs, r, f, finding) => FindingFits(jobs, j, f, finding)
  BY <1>7, <1>8 DEF FindingFits, d
<1>10. \A i \in 1..Len(comments) : FindingFits(jobs, j, f, comments[i])
  BY <1>3, <1>6, <1>7, <1>9
<1> QED BY <1>4, <1>10 DEF comments, item, d

\* So do the lines a resumed review begins its session with.
LEMMA ReusedLinesFit ==
  ASSUME InputTyped, ReuseFits, NEW j \in 1..Len(jobs), NEW reused \in SUBSET Paths,
         \A f \in reused :
           Checkpoint(jobs[j].resume, Fingerprint(f, jobs[j].head.diff[f])) # NoItem
  PROVE  /\ ReusedLines(jobs[j], reused) \in Seq(ItemLine)
         /\ \A i \in 1..Len(ReusedLines(jobs[j], reused)) :
              LineFits(jobs, j, ReusedLines(jobs[j], reused)[i])
<1> DEFINE files == SetToSeq(reused)
           comments(f) == Checkpoint(jobs[j].resume, Fingerprint(f, jobs[j].head.diff[f]))
           line(f) == [type |-> "reused", path |-> <<f, jobs[j].head.diff[f]>>,
                       comments |-> comments(f)]
           lines == ReusedLines(jobs[j], reused)
<1>1. lines = [i \in DOMAIN files |-> line(files[i])]
  BY DEF ReusedLines, Fingerprint
<1>2. files \in Seq(reused)
  <2>1. IsFiniteSet(reused)
    BY InputAssumption, FS_Subset
  <2> QED BY <2>1, ListedOnce
<1>3. jobs[j].head.diff \in [Paths -> Diffs \union {Gone, Absent}]
  <2>1. jobs[j] \in JobRow
    BY DEF InputTyped
  <2>2. jobs[j].head \in HeadTree
    BY <2>1 DEF JobRow
  <2> QED BY <2>2 DEF HeadTree
<1>4. ASSUME NEW f \in reused PROVE line(f) \in ItemLine /\ LineFits(jobs, j, line(f))
  <2>1. /\ f \in Paths /\ comments(f) \in Seq(InputFinding)
        /\ \A k \in 1..Len(comments(f)) : FindingFits(jobs, j, f, comments(f)[k])
    BY CheckpointFits
  <2>2. <<f, jobs[j].head.diff[f]>> \in Paths \X (Diffs \union {Gone, Absent})
    BY <1>3, <2>1
  <2> HIDE DEF comments
  <2>3. line(f) \in ItemLine
    BY <2>1, <2>2 DEF ItemLine
  <2>4. line(f).path = <<f, jobs[j].head.diff[f]>> /\ line(f).comments = comments(f)
    OBVIOUS
  <2> HIDE DEF line
  <2> QED BY <2>1, <2>3, <2>4 DEF LineFits
<1> HIDE DEF line, files, lines
<1>5. DOMAIN files = 1..Len(files) /\ Len(files) \in Nat /\ \A i \in 1..Len(files) : files[i] \in reused
  BY <1>2
<1>6. lines = [i \in 1..Len(files) |-> line(files[i])] /\ \A i \in 1..Len(files) : line(files[i]) \in ItemLine
  BY <1>1, <1>4, <1>5
<1>7. lines \in Seq(ItemLine) /\ Len(lines) = Len(files) /\ \A i \in 1..Len(files) : lines[i] = line(files[i])
  BY <1>5, <1>6
<1>8. \A i \in 1..Len(lines) : LineFits(jobs, j, lines[i])
  BY <1>4, <1>5, <1>7
<1> QED BY <1>7, <1>8 DEF lines

\* A line of the file the review is at.
LEMMA ReviewedLineFits ==
  ASSUME InputTyped, NEW j \in 1..Len(jobs), NEW f \in Paths,
         NEW type \in {"done", "failed"},
         NEW comments \in {<<>>, <<[file |-> f, job |-> j]>>},
         NEW line, line = [type |-> type, path |-> Fingerprint(f, jobs[j].head.diff[f]),
                           comments |-> comments]
  PROVE  line \in ItemLine /\ LineFits(jobs, j, line)
<1>1. jobs[j] \in JobRow /\ Len(jobs) \in Nat
  BY DEF InputTyped
<1>2. jobs[j].head \in HeadTree
  BY <1>1 DEF JobRow
<1>3. jobs[j].head.diff[f] \in Diffs \union {Gone, Absent}
  BY <1>2 DEF HeadTree
<1>4. [file |-> f, job |-> j] \in InputFinding
  BY <1>1 DEF InputFinding
<1>5. comments \in Seq(InputFinding)
  <2> DEFINE finding == [file |-> f, job |-> j]
  <2>1. comments = <<>> \/ comments = <<finding>>
    OBVIOUS
  <2>2. finding \in InputFinding
    BY <1>4
  <2> HIDE DEF finding
  <2>3. <<>> \in Seq(InputFinding) /\ <<finding>> \in Seq(InputFinding)
    BY <2>2
  <2> QED BY <2>1, <2>3
<1>6. line = [type |-> type, path |-> <<f, jobs[j].head.diff[f]>>, comments |-> comments]
  BY DEF Fingerprint
<1>7. line \in ItemLine
  BY <1>3, <1>5, <1>6 DEF ItemLine
<1>8. \A k \in 1..Len(comments) : comments[k] = [file |-> f, job |-> j]
  OBVIOUS
<1>9. FindingFits(jobs, j, f, [file |-> f, job |-> j])
  BY DEF FindingFits
<1>10. line.path = <<f, jobs[j].head.diff[f]>> /\ line.comments = comments
  BY <1>6
<1>11. LineFits(jobs, j, line)
  BY <1>8, <1>9, <1>10 DEF LineFits
<1> QED BY <1>7, <1>11

\* Another set of lines in a session that is open, or is opened by the review.
LEMMA SessionsTyped ==
  ASSUME InputTyped, NEW j \in 1..Len(jobs), NEW lines \in Seq(ItemLine),
         sessions' = [sessions EXCEPT ![j] = lines]
  PROVE  /\ sessions' \in Seq(Seq(ItemLine) \union {NoRun})
         /\ Len(sessions') = Len(jobs) /\ sessions'[j] # NoRun
         /\ \A i \in 1..Len(jobs) : sessions[i] # NoRun => sessions'[i] # NoRun
<1>1. /\ sessions \in Seq(Seq(ItemLine) \union {NoRun}) /\ Len(sessions) = Len(jobs)
      /\ Len(jobs) \in Nat
  BY DEF InputTyped
<1>2. lines # NoRun
  BY InputAssumption
<1> QED BY <1>1, <1>2

\* The inputs start with no job.
LEMMA InputTypedInitially == InputInit => InputTyped /\ ReuseFits
<1> SUFFICES ASSUME InputInit PROVE InputTyped /\ ReuseFits
  OBVIOUS
<1>1. target \in [file : TargetFiles \union {Missing}, sha : Nat]
  BY DEF InputInit
<1>2. heads \in [MRs -> [tree : HeadTrees, sha : Nat]]
  <2>1. [tree : HeadTrees, sha : {0}] \subseteq [tree : HeadTrees, sha : Nat]
    OBVIOUS
  <2> QED BY <2>1 DEF InputInit
<1>3. /\ clock \in Nat /\ jobs \in Seq(JobRow) /\ run = NoRun
      /\ sessions \in Seq(Seq(ItemLine) \union {NoRun}) /\ Len(sessions) = Len(jobs)
  BY DEF InputInit
<1>4. 1..Len(jobs) = {}
  BY DEF InputInit
<1>5. ReuseFits
  BY <1>4 DEF ReuseFits, ListsFit, SessionsFit
<1> QED BY <1>1, <1>2, <1>3, <1>5 DEF InputTyped

\* A step that ends a job, or changes nothing of the jobs.
LEMMA InputQuiet ==
  ASSUME InputTyped, ReuseFits, sessions' = sessions, target' = target, heads' = heads,
         run' = NoRun \/ run' = run, NEW j \in 1..Len(jobs), Over(j)
  PROVE  InputTyped' /\ ReuseFits'
<1>1. /\ jobs' \in Seq(JobRow) /\ Len(jobs') = Len(jobs) /\ clock' \in Nat
      /\ RowsKept(jobs, jobs')
  BY OverKeepsRows
<1>2. InputTyped'
  BY <1>1 DEF InputTyped
<1>3. ListsFit(jobs', sessions) /\ SessionsFit(jobs', sessions)
  BY <1>1, ReuseFitsQuiet DEF ReuseFits
<1> QED BY <1>2, <1>3 DEF ReuseFits

\* The review of a file adds a line to its job's session.
LEMMA InputReviewed ==
  ASSUME InputTyped, ReuseFits, NEW f \in Paths, ReviewFile(f)
  PROVE  InputTyped' /\ ReuseFits'
<1> DEFINE j == run.job
<1>1. /\ run # NoRun /\ run \in RunRecord /\ j \in 1..Len(jobs) /\ sessions[j] # NoRun
      /\ sessions \in Seq(Seq(ItemLine) \union {NoRun}) /\ Len(sessions) = Len(jobs)
  BY DEF ReviewFile, InputTyped
<1>2. sessions[j] \in Seq(ItemLine)
  BY <1>1
<1>3. PICK type \in {"done", "failed"}, comments \in {<<>>, <<[file |-> f, job |-> j]>>} :
        /\ sessions' = [sessions EXCEPT ![j] =
             Append(@, [type |-> type, path |-> Fingerprint(f, jobs[j].head.diff[f]),
                        comments |-> comments])]
        /\ \/ run' = [run EXCEPT !.todo = @ \ {f}, !.completed = @ \union {f}]
           \/ run' = [run EXCEPT !.todo = @ \ {f}]
  BY DEF ReviewFile
<1> DEFINE line == [type |-> type, path |-> Fingerprint(f, jobs[j].head.diff[f]),
                    comments |-> comments]
           lines == Append(sessions[j], line)
<1>4. line \in ItemLine /\ LineFits(jobs, j, line)
  BY <1>1, ReviewedLineFits
<1>5. sessions' = [sessions EXCEPT ![j] = lines]
  BY <1>3
<1> HIDE DEF line
<1>6. lines \in Seq(ItemLine) /\ Len(lines) = Len(sessions[j]) + 1 /\ Len(sessions[j]) \in Nat
  BY <1>2, <1>4
<1>7. \A i \in 1..Len(lines) : LineFits(jobs, j, lines[i])
  <2> TAKE i \in 1..Len(lines)
  <2>1. CASE i = Len(sessions[j]) + 1
    <3>1. lines[i] = line
      BY <1>2, <1>4, <2>1
    <3> QED BY <1>4, <3>1
  <2>2. CASE i # Len(sessions[j]) + 1
    <3>1. i \in 1..Len(sessions[j]) /\ lines[i] = sessions[j][i]
      BY <1>2, <1>4, <1>6, <2>2
    <3>2. LineFits(jobs, j, sessions[j][i])
      BY <1>1, <3>1 DEF ReuseFits, SessionsFit
    <3> QED BY <3>1, <3>2
  <2> QED BY <2>1, <2>2
<1>8. run' \in RunRecord /\ run'.job = j
  <2>1. run.todo \ {f} \in SUBSET Paths /\ run.completed \union {f} \in SUBSET Paths
    BY <1>1 DEF RunRecord
  <2>2. CASE run' = [run EXCEPT !.todo = @ \ {f}, !.completed = @ \union {f}]
    BY <1>1, <2>1, <2>2 DEF RunRecord
  <2>3. CASE run' = [run EXCEPT !.todo = @ \ {f}]
    BY <1>1, <2>1, <2>3 DEF RunRecord
  <2> QED BY <1>3, <2>2, <2>3
<1> HIDE DEF j, lines
<1>9. UNCHANGED <<target, heads, clock, jobs>>
  BY DEF ReviewFile
<1>10. /\ sessions' \in Seq(Seq(ItemLine) \union {NoRun})
       /\ Len(sessions') = Len(jobs) /\ sessions'[j] # NoRun
  BY <1>1, <1>5, <1>6, SessionsTyped
<1>11. InputTyped'
  BY <1>1, <1>8, <1>9, <1>10 DEF InputTyped
<1>12. jobs \in Seq(JobRow)
  BY DEF InputTyped
<1>13. ListsFit(jobs, sessions') /\ SessionsFit(jobs, sessions')
  BY <1>1, <1>5, <1>6, <1>7, <1>12, ReuseFitsWritten DEF ReuseFits
<1> QED BY <1>9, <1>11, <1>13 DEF ReuseFits

\* A review begins its session with the files it reuses.
LEMMA InputStarted ==
  ASSUME InputTyped, ReuseFits, NEW j \in 1..Len(jobs), StartReview(j)
  PROVE  InputTyped' /\ ReuseFits'
<1> DEFINE selected == Selected(jobs[j])
           reused == {f \in selected :
             Checkpoint(jobs[j].resume, Fingerprint(f, jobs[j].head.diff[f])) # NoItem}
           lines == ReusedLines(jobs[j], reused)
           row == [jobs[j] EXCEPT !.state = "review"]
<1>1. /\ run' = [job |-> j, selected |-> selected, todo |-> selected \ reused,
                 completed |-> {}]
      /\ sessions' = [sessions EXCEPT ![j] = lines]
      /\ jobs' = [jobs EXCEPT ![j] = row]
      /\ UNCHANGED <<target, heads, clock>>
  BY DEF StartReview
<1>2. /\ sessions \in Seq(Seq(ItemLine) \union {NoRun}) /\ Len(sessions) = Len(jobs)
      /\ jobs \in Seq(JobRow) /\ Len(jobs) \in Nat
  BY DEF InputTyped
<1>3. selected \in SUBSET Paths
  BY DEF Selected
<1>4. /\ reused \in SUBSET Paths
      /\ \A f \in reused :
           Checkpoint(jobs[j].resume, Fingerprint(f, jobs[j].head.diff[f])) # NoItem
  BY <1>3
<1> HIDE DEF selected, reused
<1>5. lines \in Seq(ItemLine) /\ \A i \in 1..Len(lines) : LineFits(jobs, j, lines[i])
  BY <1>4, ReusedLinesFit
<1> HIDE DEF lines
<1>6. row \in JobRow /\ row.ruleSHA = jobs[j].ruleSHA /\ row.head = jobs[j].head /\ row.resume = jobs[j].resume
  <2>1. jobs[j] \in JobRow
    BY <1>2
  <2> QED BY <2>1 DEF JobRow
<1> HIDE DEF row
<1>7. /\ jobs' \in Seq(JobRow) /\ Len(jobs') = Len(jobs) /\ jobs'[j] = row
      /\ \A k \in 1..Len(jobs) : k # j => jobs'[k] = jobs[k]
  BY <1>1, <1>2, <1>6
<1>8. RowsKept(jobs, jobs')
  <2>1. Len(jobs') \in Nat /\ Len(jobs) <= Len(jobs')
    BY <1>2, <1>7
  <2>2. ASSUME NEW k \in 1..Len(jobs)
        PROVE  /\ jobs'[k].ruleSHA = jobs[k].ruleSHA /\ jobs'[k].head = jobs[k].head
               /\ jobs'[k].resume = jobs[k].resume
    <3>1. CASE k = j
      BY <1>6, <1>7, <3>1
    <3>2. CASE k # j
      BY <1>7, <3>2
    <3> QED BY <3>1, <3>2
  <2> QED BY <1>2, <2>1, <2>2 DEF RowsKept
<1>9. /\ sessions' \in Seq(Seq(ItemLine) \union {NoRun})
      /\ Len(sessions') = Len(jobs) /\ sessions'[j] # NoRun
  BY <1>1, <1>5, SessionsTyped
<1>10. run' \in RunRecord /\ run'.job = j
  BY <1>1, <1>2, <1>3 DEF RunRecord
<1>11. InputTyped'
  BY <1>1, <1>7, <1>9, <1>10 DEF InputTyped
<1>12. ListsFit(jobs, sessions') /\ SessionsFit(jobs, sessions')
  BY <1>1, <1>2, <1>5, ReuseFitsWritten DEF ReuseFits
<1>13. ListsFit(jobs', sessions') /\ SessionsFit(jobs', sessions')
  BY <1>7, <1>8, <1>12, ReuseFitsQuiet
<1> QED BY <1>11, <1>13 DEF ReuseFits

\* A job is claimed, and lists the sessions it may reuse.
LEMMA InputClaimed ==
  ASSUME InputTyped, ReuseFits, NEW mr \in MRs, Preflight(mr)
  PROVE  InputTyped' /\ ReuseFits'
<1>1. PICK row \in JobRow :
        /\ jobs' = Append(jobs, row)
        /\ \A i \in DOMAIN row.resume :
             i \in 1..Len(jobs) /\ sessions[i] # NoRun /\ jobs[i].ruleSHA = row.ruleSHA
  BY PreflightRow
<1>2. /\ sessions' = Append(sessions, NoRun) /\ clock' = clock + 1
      /\ UNCHANGED <<target, heads, run>>
  BY DEF Preflight
<1>3. /\ jobs \in Seq(JobRow) /\ sessions \in Seq(Seq(ItemLine) \union {NoRun})
      /\ Len(sessions) = Len(jobs) /\ clock \in Nat /\ Len(jobs) \in Nat
      /\ run # NoRun => run \in RunRecord /\ run.job \in 1..Len(jobs) /\ sessions[run.job] # NoRun
  BY DEF InputTyped
<1>4. /\ jobs' \in Seq(JobRow) /\ Len(jobs') = Len(jobs) + 1 /\ clock' \in Nat
      /\ sessions' \in Seq(Seq(ItemLine) \union {NoRun}) /\ Len(sessions') = Len(jobs')
      /\ \A k \in 1..Len(jobs) : sessions'[k] = sessions[k] /\ k \in 1..Len(jobs')
  BY <1>1, <1>2, <1>3
<1>5. run' # NoRun =>
        run' \in RunRecord /\ run'.job \in 1..Len(jobs') /\ sessions'[run'.job] # NoRun
  BY <1>2, <1>3, <1>4
<1>6. InputTyped'
  BY <1>2, <1>4, <1>5 DEF InputTyped
<1>7. ListsFit(jobs', sessions') /\ SessionsFit(jobs', sessions')
  BY <1>1, <1>2, <1>3, ReuseFitsAppended DEF ReuseFits
<1> QED BY <1>6, <1>7 DEF ReuseFits

\* Every step keeps the types and the fit.
LEMMA InputStep ==
  ASSUME InputTyped, ReuseFits, [InputNext]_inputVars
  PROVE  InputTyped' /\ ReuseFits'
<1>1. CASE UNCHANGED inputVars
  BY <1>1 DEF inputVars, InputTyped, ReuseFits
<1>2. CASE PushTarget
  <2>1. /\ UNCHANGED <<heads, clock, jobs, sessions, run>>
        /\ target' \in [file : TargetFiles \union {Missing}, sha : Nat]
    BY <1>2 DEF PushTarget, InputTyped
  <2> QED BY <2>1 DEF InputTyped, ReuseFits
<1>3. ASSUME NEW mr \in MRs, PushHead(mr) PROVE InputTyped' /\ ReuseFits'
  <2>1. /\ UNCHANGED <<target, clock, jobs, sessions, run>>
        /\ heads' \in [MRs -> [tree : HeadTrees, sha : Nat]]
    BY <1>3 DEF PushHead, InputTyped
  <2> QED BY <2>1 DEF InputTyped, ReuseFits
<1>4. CASE Stop
  <2>1. /\ UNCHANGED <<target, heads, sessions>> /\ run' = NoRun /\ Over(run.job)
        /\ run.job \in 1..Len(jobs)
    BY <1>4 DEF Stop, InputTyped
  <2> QED BY <2>1, InputQuiet
<1>5. CASE FinishReview
  <2>1. /\ UNCHANGED <<target, heads, sessions>> /\ run' = NoRun /\ Over(run.job)
        /\ run.job \in 1..Len(jobs)
    BY <1>5 DEF FinishReview, InputTyped
  <2> QED BY <2>1, InputQuiet
<1>6. ASSUME NEW j \in DOMAIN jobs, GoesStale(j) \/ ResolverFails(j)
      PROVE  InputTyped' /\ ReuseFits'
  <2>1. /\ UNCHANGED <<target, heads, sessions, run>> /\ Over(j) /\ j \in 1..Len(jobs)
    BY <1>6 DEF GoesStale, ResolverFails, InputTyped
  <2> QED BY <2>1, InputQuiet
<1>7. ASSUME NEW j \in DOMAIN jobs, StartReview(j) PROVE InputTyped' /\ ReuseFits'
  <2>1. j \in 1..Len(jobs)
    BY DEF InputTyped
  <2> QED BY <1>7, <2>1, InputStarted
<1> QED BY <1>1, <1>2, <1>3, <1>4, <1>5, <1>6, <1>7, InputClaimed, InputReviewed
      DEF InputNext

\* Every finding of a session, also one reused over several jobs, comes from a
\* review of the same diff under the same rule file of the target branch.
THEOREM ReuseAlwaysUnderTargetRules == InputSpec => []ReusedUnderTargetRules
<1>1. InputTyped /\ ReuseFits => ReusedUnderTargetRules
  <2> SUFFICES ASSUME InputTyped, ReuseFits, NEW j \in DOMAIN jobs, sessions[j] # NoRun,
                      NEW i \in DOMAIN sessions[j], NEW k \in DOMAIN sessions[j][i].comments
               PROVE  LET finding == sessions[j][i].comments[k] IN
                        /\ jobs[finding.job].ruleSHA = jobs[j].ruleSHA
                        /\ jobs[finding.job].head.diff[finding.file] =
                             jobs[j].head.diff[finding.file]
    BY DEF ReusedUnderTargetRules
  <2>1. j \in 1..Len(jobs) /\ sessions[j] \in Seq(ItemLine)
    BY DEF InputTyped
  <2>2. i \in 1..Len(sessions[j]) /\ sessions[j][i] \in ItemLine
    BY <2>1
  <2>3. k \in 1..Len(sessions[j][i].comments)
    <3>1. sessions[j][i].comments \in Seq(InputFinding)
      BY <2>2 DEF ItemLine
    <3> QED BY <3>1
  <2>4. LineFits(jobs, j, sessions[j][i])
    BY <2>1, <2>2 DEF ReuseFits, SessionsFit
  <2>5. \E f \in Paths : FindingFits(jobs, j, f, sessions[j][i].comments[k])
    BY <2>3, <2>4 DEF LineFits
  <2> QED BY <2>5 DEF FindingFits
<1>2. InputTyped /\ ReuseFits /\ [InputNext]_inputVars => (InputTyped /\ ReuseFits)'
  BY InputStep
<1> QED BY <1>1, <1>2, InputTypedInitially, PTL DEF InputSpec

-----------------------------------------------------------------------------
(* Each finding is decided once. *)

\* One element of s is in S; none is.
HasOne(s, S) == \E i \in 1..Len(s) : s[i] \in S /\ \A k \in 1..Len(s) : s[k] \in S => k = i

HasNone(s, S) == \A k \in 1..Len(s) : s[k] \notin S

\* A place of a concatenation is one of its parts'.
LEMMA PlacesOfConcat ==
  ASSUME NEW T, NEW a \in Seq(T), NEW b \in Seq(T)
  PROVE  /\ a \o b \in Seq(T) /\ Len(a) \in Nat /\ Len(b) \in Nat
         /\ Len(a \o b) = Len(a) + Len(b)
         /\ \A i \in 1..Len(a) : (a \o b)[i] = a[i]
         /\ \A i \in 1..Len(b) : (a \o b)[Len(a) + i] = b[i]
         /\ \A k \in 1..Len(a \o b) :
              k \in 1..Len(a) \/ \E i \in 1..Len(b) : k = Len(a) + i
<1>1. /\ a \o b \in Seq(T) /\ Len(a) \in Nat /\ Len(b) \in Nat
      /\ Len(a \o b) = Len(a) + Len(b)
  OBVIOUS
<1>2. \A i \in 1..Len(a) : (a \o b)[i] = a[i]
  OBVIOUS
<1>3. \A i \in 1..Len(b) : (a \o b)[Len(a) + i] = b[i]
  OBVIOUS
<1>4. ASSUME NEW k \in 1..Len(a \o b), k \notin 1..Len(a)
      PROVE  \E i \in 1..Len(b) : k = Len(a) + i
  <2>1. k - Len(a) \in 1..Len(b) /\ k = Len(a) + (k - Len(a))
    BY <1>1, <1>4
  <2> QED BY <2>1
<1> QED BY <1>1, <1>2, <1>3, <1>4

\* One of a concatenation is one of the first or of the second part.
LEMMA OneOfConcat ==
  ASSUME NEW T, NEW a \in Seq(T), NEW b \in Seq(T), NEW S
  PROVE  /\ HasNone(a, S) /\ HasNone(b, S) => HasNone(a \o b, S)
         /\ HasOne(a, S) /\ HasNone(b, S) => HasOne(a \o b, S)
         /\ HasNone(a, S) /\ HasOne(b, S) => HasOne(a \o b, S)
<1> DEFINE c == a \o b
<1>1. /\ Len(a) \in Nat /\ Len(b) \in Nat /\ Len(c) = Len(a) + Len(b)
      /\ \A i \in 1..Len(a) : c[i] = a[i]
      /\ \A i \in 1..Len(b) : c[Len(a) + i] = b[i]
      /\ \A k \in 1..Len(c) : k \in 1..Len(a) \/ \E i \in 1..Len(b) : k = Len(a) + i
  BY PlacesOfConcat
<1> HIDE DEF c
<1>2. \A i \in 1..Len(a) : i \in 1..Len(c)
  BY <1>1
<1>3. \A i \in 1..Len(b) : Len(a) + i \in 1..Len(c)
  BY <1>1
<1>4. ASSUME HasNone(a, S), HasNone(b, S) PROVE HasNone(c, S)
  BY <1>1, <1>4 DEF HasNone
<1>5. ASSUME HasOne(a, S), HasNone(b, S) PROVE HasOne(c, S)
  <2>1. PICK i \in 1..Len(a) : a[i] \in S /\ \A k \in 1..Len(a) : a[k] \in S => k = i
    BY <1>5 DEF HasOne
  <2>2. i \in 1..Len(c) /\ c[i] \in S
    BY <1>1, <1>2, <2>1
  <2>3. \A k \in 1..Len(c) : c[k] \in S => k = i
    BY <1>1, <1>5, <2>1 DEF HasNone
  <2> QED BY <2>2, <2>3 DEF HasOne
<1>6. ASSUME HasNone(a, S), HasOne(b, S) PROVE HasOne(c, S)
  <2>1. PICK i \in 1..Len(b) : b[i] \in S /\ \A k \in 1..Len(b) : b[k] \in S => k = i
    BY <1>6 DEF HasOne
  <2>2. Len(a) + i \in 1..Len(c) /\ c[Len(a) + i] \in S
    BY <1>1, <1>3, <2>1
  <2>3. \A k \in 1..Len(c) : c[k] \in S => k = Len(a) + i
    BY <1>1, <1>6, <2>1 DEF HasNone
  <2> QED BY <2>2, <2>3 DEF HasOne
<1> QED BY <1>4, <1>5, <1>6 DEF c

\* u is the one element of U that is in S.
Sole(S, U, u) == \A v \in U : v \in S <=> v = u

\* What is listed of a finite set has its element once.
LEMMA OneOfListed ==
  ASSUME NEW U, IsFiniteSet(U), NEW S
  PROVE  /\ SetToSeq(U) \in Seq(U)
         /\ (\A u \in U : u \notin S) => HasNone(SetToSeq(U), S)
         /\ \A u \in U : Sole(S, U, u) => HasOne(SetToSeq(U), S)
<1> DEFINE s == SetToSeq(U)
<1>1. s \in Seq(U) /\ \A x \in U : \E i \in DOMAIN s :
        s[i] = x /\ \A k \in DOMAIN s : s[k] = x => k = i
  BY ListedOnce
<1> HIDE DEF s
<1>2. DOMAIN s = 1..Len(s) /\ \A k \in 1..Len(s) : s[k] \in U
  BY <1>1
<1>3. (\A u \in U : u \notin S) => HasNone(s, S)
  BY <1>2 DEF HasNone
<1>4. ASSUME NEW u \in U, Sole(S, U, u) PROVE HasOne(s, S)
  <2>1. PICK i \in 1..Len(s) : s[i] = u /\ \A k \in 1..Len(s) : s[k] = u => k = i
    BY <1>1, <1>2
  <2>2. s[i] \in S /\ \A k \in 1..Len(s) : s[k] \in S => k = i
    BY <1>2, <1>4, <2>1 DEF Sole
  <2> QED BY <2>2 DEF HasOne
<1> QED BY <1>1, <1>3, <1>4 DEF s

\* One element of a set is one place of it.
LEMMA OneIsCounted ==
  ASSUME NEW s, NEW S, HasOne(s, S), DOMAIN s = 1..Len(s)
  PROVE  Cardinality({i \in DOMAIN s : s[i] \in S}) = 1
<1>1. PICK i \in 1..Len(s) : s[i] \in S /\ \A k \in 1..Len(s) : s[k] \in S => k = i
  BY DEF HasOne
<1>2. {k \in DOMAIN s : s[k] \in S} = {i}
  BY <1>1
<1> QED BY <1>2, FS_Singleton

\* The image of a finite set is finite.
LEMMA ImageIsFinite ==
  ASSUME NEW S, IsFiniteSet(S), NEW f, f = [x \in S |-> f[x]]
  PROVE  IsFiniteSet({f[x] : x \in S})
<1> DEFINE T == {f[x] : x \in S}
<1>1. f \in [S -> T]
  OBVIOUS
<1>2. f \in Surjection(S, T)
  BY <1>1 DEF Surjection
<1> QED BY <1>2, FS_Surjection

\* Decisions about H and C, those about one of them, and those that name one.
DecisionsOf(H, C) == [old : H \union {Nobody}, new : C \union {Nobody}, status : Statuses]

About(H, C, h) == {d \in DecisionsOf(H, C) : d.old = h}

Naming(H, C, c) == {d \in DecisionsOf(H, C) : d.new = c}

\* What a reply may hold.
Replied(H, C) == [old : H \union {Nobody, Stranger}, new : C \union {Nobody, Stranger},
                  status : Statuses \union {"other"}]

\* What was accepted decides nothing twice.
Accepted(acc, H, C) ==
  /\ acc \in Seq(DecisionsOf(H, C))
  /\ \A i, k \in 1..Len(acc) :
       /\ acc[i].old = acc[k].old /\ acc[i].old # Nobody => i = k
       /\ acc[i].new = acc[k].new /\ acc[i].new # Nobody => i = k

\* What acc leaves undecided.
Undecided(acc, H) == {x \in H : \A i \in DOMAIN acc : acc[i].old # x}

Unmatched(acc, C) == {x \in C : \A i \in DOMAIN acc : acc[i].new # x}

\* A finding that is decided is decided by one, another by none.
LEMMA AcceptedOnce ==
  ASSUME NEW H \in SUBSET InputFinding, NEW C \in SUBSET InputFinding, NEW acc,
         Accepted(acc, H, C)
  PROVE  /\ \A h \in H : IF h \in Undecided(acc, H)
                         THEN HasNone(acc, About(H, C, h)) ELSE HasOne(acc, About(H, C, h))
         /\ \A c \in C : IF c \in Unmatched(acc, C)
                         THEN HasNone(acc, Naming(H, C, c)) ELSE HasOne(acc, Naming(H, C, c))
<1>1. DOMAIN acc = 1..Len(acc) /\ \A i \in 1..Len(acc) : acc[i] \in DecisionsOf(H, C)
  BY DEF Accepted
<1>2. Nobody \notin H /\ Nobody \notin C
  BY InputAssumption
<1>3. ASSUME NEW h \in H PROVE IF h \in Undecided(acc, H)
             THEN HasNone(acc, About(H, C, h)) ELSE HasOne(acc, About(H, C, h))
  <2>1. \A k \in 1..Len(acc) : acc[k] \in About(H, C, h) <=> acc[k].old = h
    BY <1>1 DEF About
  <2>2. CASE h \in Undecided(acc, H)
    BY <1>1, <2>1, <2>2 DEF HasNone, Undecided
  <2>3. CASE h \notin Undecided(acc, H)
    <3>1. PICK i \in 1..Len(acc) : acc[i].old = h
      BY <1>1, <2>3 DEF Undecided
    <3>2. \A k \in 1..Len(acc) : acc[k].old = h => k = i
      BY <1>2, <3>1 DEF Accepted
    <3>3. HasOne(acc, About(H, C, h))
      BY <1>1, <2>1, <3>1, <3>2 DEF HasOne
    <3> QED BY <2>3, <3>3
  <2> QED BY <2>2, <2>3
<1>4. ASSUME NEW c \in C PROVE IF c \in Unmatched(acc, C)
             THEN HasNone(acc, Naming(H, C, c)) ELSE HasOne(acc, Naming(H, C, c))
  <2>1. \A k \in 1..Len(acc) : acc[k] \in Naming(H, C, c) <=> acc[k].new = c
    BY <1>1 DEF Naming
  <2>2. CASE c \in Unmatched(acc, C)
    BY <1>1, <2>1, <2>2 DEF HasNone, Unmatched
  <2>3. CASE c \notin Unmatched(acc, C)
    <3>1. PICK i \in 1..Len(acc) : acc[i].new = c
      BY <1>1, <2>3 DEF Unmatched
    <3>2. \A k \in 1..Len(acc) : acc[k].new = c => k = i
      BY <1>2, <3>1 DEF Accepted
    <3>3. HasOne(acc, Naming(H, C, c))
      BY <1>1, <2>1, <3>1, <3>2 DEF HasOne
    <3> QED BY <2>3, <3>3
  <2> QED BY <2>2, <2>3
<1> QED BY <1>3, <1>4

\* What is kept open, and what is new, is decided once.
LEMMA OpenOnce ==
  ASSUME NEW H \in SUBSET InputFinding, NEW C \in SUBSET InputFinding,
         NEW open \in SUBSET H, IsFiniteSet(open)
  PROVE  LET s == SetToSeq({Decision(h, Nobody, "unfixed") : h \in open})
         IN  /\ s \in Seq(DecisionsOf(H, C))
             /\ \A h \in H : IF h \in open THEN HasOne(s, About(H, C, h))
                                           ELSE HasNone(s, About(H, C, h))
             /\ \A c \in C : HasNone(s, Naming(H, C, c))
<1> DEFINE f == [h \in open |-> Decision(h, Nobody, "unfixed")]
           U == {f[h] : h \in open}
           V == {Decision(h, Nobody, "unfixed") : h \in open}
           s == SetToSeq(U)
<1>1. IsFiniteSet(U) /\ U = V
  <2>1. U = V
    OBVIOUS
  <2>2. f = [h \in open |-> f[h]]
    OBVIOUS
  <2> HIDE DEF f
  <2> QED BY <2>1, <2>2, ImageIsFinite
<1>2. Nobody \notin H /\ Nobody \notin C
  BY InputAssumption
<1>3. \A h \in open : /\ f[h] \in DecisionsOf(H, C) /\ f[h].old = h /\ f[h].new = Nobody
  BY DEF Decision, DecisionsOf, Statuses
<1>4. \A u \in U : \E h \in open : u = f[h]
  OBVIOUS
<1>5. \A h \in open : f[h] \in U
  OBVIOUS
<1> HIDE DEF f, U
<1>6. s \in Seq(U) /\ \A u \in U : u \in DecisionsOf(H, C)
  <2>1. s \in Seq(U)
    BY <1>1, OneOfListed
  <2> QED BY <1>3, <1>4, <2>1
<1>7. s \in Seq(DecisionsOf(H, C))
  BY <1>6
<1>8. ASSUME NEW c \in C PROVE HasNone(s, Naming(H, C, c))
  <2>1. \A u \in U : u \notin Naming(H, C, c)
    BY <1>2, <1>3, <1>4 DEF Naming
  <2> QED BY <1>1, <2>1, OneOfListed
<1>9. ASSUME NEW h \in H, h \in open PROVE HasOne(s, About(H, C, h))
  <2>1. PICK u \in U : u = f[h]
    BY <1>5, <1>9
  <2>2. Sole(About(H, C, h), U, u)
    BY <1>3, <1>4, <1>9, <2>1 DEF About, Sole
  <2> QED BY <1>1, <2>2, OneOfListed
<1>10. ASSUME NEW h \in H, h \notin open PROVE HasNone(s, About(H, C, h))
  <2>1. \A u \in U : u \notin About(H, C, h)
    BY <1>3, <1>4, <1>10 DEF About
  <2> QED BY <1>1, <2>1, OneOfListed
<1>11. SetToSeq(V) = s
  BY <1>1
<1> HIDE DEF s, V
<1>12. \A h \in H : IF h \in open THEN HasOne(s, About(H, C, h)) ELSE HasNone(s, About(H, C, h))
  BY <1>9, <1>10
<1> QED BY <1>7, <1>8, <1>11, <1>12 DEF V

\* A current finding nobody matched is listed as new, once.
LEMMA NewOnce ==
  ASSUME NEW H \in SUBSET InputFinding, NEW C \in SUBSET InputFinding,
         NEW fresh \in SUBSET C, IsFiniteSet(fresh)
  PROVE  LET s == SetToSeq({Decision(Nobody, c, "new") : c \in fresh})
         IN  /\ s \in Seq(DecisionsOf(H, C))
             /\ \A c \in C : IF c \in fresh THEN HasOne(s, Naming(H, C, c))
                                            ELSE HasNone(s, Naming(H, C, c))
             /\ \A h \in H : HasNone(s, About(H, C, h))
<1> DEFINE f == [c \in fresh |-> Decision(Nobody, c, "new")]
           U == {f[c] : c \in fresh}
           V == {Decision(Nobody, c, "new") : c \in fresh}
           s == SetToSeq(U)
<1>1. IsFiniteSet(U) /\ U = V
  <2>1. U = V
    OBVIOUS
  <2>2. f = [c \in fresh |-> f[c]]
    OBVIOUS
  <2> HIDE DEF f
  <2> QED BY <2>1, <2>2, ImageIsFinite
<1>2. Nobody \notin H /\ Nobody \notin C
  BY InputAssumption
<1>3. \A c \in fresh : /\ f[c] \in DecisionsOf(H, C) /\ f[c].new = c /\ f[c].old = Nobody
  BY DEF Decision, DecisionsOf, Statuses
<1>4. \A u \in U : \E c \in fresh : u = f[c]
  OBVIOUS
<1>5. \A c \in fresh : f[c] \in U
  OBVIOUS
<1> HIDE DEF f, U
<1>6. s \in Seq(U) /\ \A u \in U : u \in DecisionsOf(H, C)
  <2>1. s \in Seq(U)
    BY <1>1, OneOfListed
  <2> QED BY <1>3, <1>4, <2>1
<1>7. s \in Seq(DecisionsOf(H, C))
  BY <1>6
<1>8. ASSUME NEW h \in H PROVE HasNone(s, About(H, C, h))
  <2>1. \A u \in U : u \notin About(H, C, h)
    BY <1>2, <1>3, <1>4 DEF About
  <2> QED BY <1>1, <2>1, OneOfListed
<1>9. ASSUME NEW c \in C, c \in fresh PROVE HasOne(s, Naming(H, C, c))
  <2>1. PICK u \in U : u = f[c]
    BY <1>5, <1>9
  <2>2. Sole(Naming(H, C, c), U, u)
    BY <1>3, <1>4, <1>9, <2>1 DEF Naming, Sole
  <2> QED BY <1>1, <2>2, OneOfListed
<1>10. ASSUME NEW c \in C, c \notin fresh PROVE HasNone(s, Naming(H, C, c))
  <2>1. \A u \in U : u \notin Naming(H, C, c)
    BY <1>3, <1>4, <1>10 DEF Naming
  <2> QED BY <1>1, <2>1, OneOfListed
<1>11. SetToSeq(V) = s
  BY <1>1
<1> HIDE DEF s, V
<1>12. \A c \in C : IF c \in fresh THEN HasOne(s, Naming(H, C, c)) ELSE HasNone(s, Naming(H, C, c))
  BY <1>9, <1>10
<1> QED BY <1>7, <1>8, <1>11, <1>12 DEF V

\* KeptOpen decides the rest.
LEMMA KeptOpenOnce ==
  ASSUME NEW H \in SUBSET InputFinding, NEW C \in SUBSET InputFinding,
         IsFiniteSet(H), IsFiniteSet(C), NEW acc, Accepted(acc, H, C)
  PROVE  /\ KeptOpen(acc, H, C) \in Seq(DecisionsOf(H, C))
         /\ \A h \in H : HasOne(KeptOpen(acc, H, C), About(H, C, h))
         /\ \A c \in C : HasOne(KeptOpen(acc, H, C), Naming(H, C, c))
<1> DEFINE open == Undecided(acc, H)
           fresh == Unmatched(acc, C)
           s == SetToSeq({Decision(h, Nobody, "unfixed") : h \in open})
           t == SetToSeq({Decision(Nobody, c, "new") : c \in fresh})
           D == DecisionsOf(H, C)
<1>1. KeptOpen(acc, H, C) = acc \o s \o t
  BY DEF KeptOpen, Undecided, Unmatched
<1>2. /\ \A h \in H : IF h \in open THEN HasNone(acc, About(H, C, h))
                                    ELSE HasOne(acc, About(H, C, h))
      /\ \A c \in C : IF c \in fresh THEN HasNone(acc, Naming(H, C, c))
                                     ELSE HasOne(acc, Naming(H, C, c))
  BY AcceptedOnce
<1>3. /\ open \in SUBSET H /\ IsFiniteSet(open)
      /\ fresh \in SUBSET C /\ IsFiniteSet(fresh)
  <2>1. open \in SUBSET H /\ fresh \in SUBSET C
    BY DEF Undecided, Unmatched
  <2> HIDE DEF open, fresh
  <2> QED BY <2>1, FS_Subset
<1> HIDE DEF open, fresh
<1>4. /\ s \in Seq(D)
      /\ \A h \in H : IF h \in open THEN HasOne(s, About(H, C, h))
                                    ELSE HasNone(s, About(H, C, h))
      /\ \A c \in C : HasNone(s, Naming(H, C, c))
  BY <1>3, OpenOnce
<1>5. /\ t \in Seq(D)
      /\ \A c \in C : IF c \in fresh THEN HasOne(t, Naming(H, C, c))
                                     ELSE HasNone(t, Naming(H, C, c))
      /\ \A h \in H : HasNone(t, About(H, C, h))
  BY <1>3, NewOnce
<1>6. acc \in Seq(D)
  BY DEF Accepted
<1> HIDE DEF s, t, D
<1>7. acc \o s \in Seq(D) /\ (acc \o s) \o t \in Seq(D)
  BY <1>4, <1>5, <1>6
<1>8. \A h \in H : HasOne((acc \o s) \o t, About(H, C, h))
  <2>1. \A h \in H : HasOne(acc \o s, About(H, C, h))
    BY <1>2, <1>4, <1>6, OneOfConcat
  <2> QED BY <1>5, <1>7, <2>1, OneOfConcat
<1>9. \A c \in C : HasOne((acc \o s) \o t, Naming(H, C, c))
  <2>1. \A c \in C : IF c \in fresh THEN HasNone(acc \o s, Naming(H, C, c))
                                    ELSE HasOne(acc \o s, Naming(H, C, c))
    BY <1>2, <1>4, <1>6, OneOfConcat
  <2> QED BY <1>5, <1>7, <2>1, OneOfConcat
<1> QED BY <1>1, <1>7, <1>8, <1>9 DEF D

\* What the n-th decision of an answer makes of those accepted before it.
Takes(decisions, H, C, n, before) ==
  IF Admissible(decisions[n], before, H, C) THEN Append(before, decisions[n]) ELSE before

\* g has what is accepted of the first n decisions.
TakesUpTo(g, decisions, H, C, n) ==
  /\ g = [k \in 0..n |-> g[k]]
  /\ g[0] = <<>>
  /\ \A k \in 1..n : g[k] = Takes(decisions, H, C, k, g[k - 1])

\* There is one for any number of decisions.
LEMMA TakesExist ==
  ASSUME NEW decisions, NEW H, NEW C, NEW n \in Nat
  PROVE  \E g : TakesUpTo(g, decisions, H, C, n)
<1> DEFINE Lacks == {m \in Nat : ~ \E g : TakesUpTo(g, decisions, H, C, m)}
<1>1. SUFFICES ASSUME Lacks # {} PROVE FALSE
  OBVIOUS
<1>2. PICK m \in Lacks : \A j \in Lacks : m <= j
  <2>1. Lacks \in SUBSET Nat
    OBVIOUS
  <2> HIDE DEF Lacks
  <2> QED BY <1>1, <2>1, LeastNumber
<1>3. CASE m = 0
  <2> DEFINE g == [k \in 0..0 |-> <<>>]
  <2>1. g[0] = <<>> /\ g = [k \in 0..0 |-> g[k]] /\ 1..0 = {}
    OBVIOUS
  <2> HIDE DEF g
  <2>2. TakesUpTo(g, decisions, H, C, 0)
    BY <2>1 DEF TakesUpTo
  <2> QED BY <1>2, <1>3, <2>2
<1>4. CASE m # 0
  <2>1. m - 1 \in Nat /\ m - 1 \notin Lacks /\ m \in Nat
    BY <1>2, <1>4
  <2>2. PICK g : TakesUpTo(g, decisions, H, C, m - 1)
    BY <2>1
  <2> DEFINE h == [k \in 0..m |-> IF k <= m - 1 THEN g[k]
                                  ELSE Takes(decisions, H, C, m, g[m - 1])]
  <2>3. h[0] = <<>> /\ h = [k \in 0..m |-> h[k]]
    BY <2>1, <2>2 DEF TakesUpTo
  <2>4. ASSUME NEW k \in 1..m PROVE h[k] = Takes(decisions, H, C, k, h[k - 1])
    <3>1. k - 1 \in 0..m /\ k \in 0..m /\ k - 1 <= m - 1 /\ h[k - 1] = g[k - 1]
      BY <2>1
    <3>2. CASE k = m
      <4>1. h[k] = Takes(decisions, H, C, m, g[m - 1])
        BY <2>1, <3>2
      <4> QED BY <3>1, <3>2, <4>1
    <3>3. CASE k # m
      <4>1. h[k] = g[k] /\ k \in 1..(m - 1)
        BY <2>1, <3>1, <3>3
      <4>2. g[k] = Takes(decisions, H, C, k, g[k - 1])
        BY <2>2, <4>1 DEF TakesUpTo
      <4> QED BY <3>1, <4>1, <4>2
    <3> QED BY <3>2, <3>3
  <2> HIDE DEF h
  <2>5. TakesUpTo(h, decisions, H, C, m)
    BY <2>3, <2>4 DEF TakesUpTo
  <2> QED BY <1>2, <2>5
<1> QED BY <1>3, <1>4

\* Nothing accepted is decided twice.
LEMMA NothingAccepted ==
  ASSUME NEW H, NEW C
  PROVE  Accepted(<<>>, H, C)
<1>1. <<>> \in Seq(DecisionsOf(H, C)) /\ 1..Len(<<>>) = {}
  OBVIOUS
<1> QED BY <1>1 DEF Accepted

\* A decision that is admitted is about something that is not decided yet.
LEMMA AcceptedStays ==
  ASSUME NEW H \in SUBSET InputFinding, NEW C \in SUBSET InputFinding, NEW acc,
         Accepted(acc, H, C), NEW d \in Replied(H, C), Admissible(d, acc, H, C)
  PROVE  Accepted(Append(acc, d), H, C)
<1> DEFINE more == Append(acc, d)
           n == Len(acc)
<1>1. d \in DecisionsOf(H, C)
  BY DEF DecisionsOf, Replied, Admissible
<1>2. acc \in Seq(DecisionsOf(H, C))
  BY DEF Accepted
<1>3. /\ more \in Seq(DecisionsOf(H, C)) /\ n \in Nat /\ Len(more) = n + 1
      /\ more[n + 1] = d /\ \A i \in 1..n : more[i] = acc[i]
      /\ DOMAIN acc = 1..n
  BY <1>1, <1>2
<1> HIDE DEF more
<1>4. /\ \A i \in 1..n : d.old = Nobody \/ acc[i].old # d.old
      /\ \A i \in 1..n : d.new = Nobody \/ acc[i].new # d.new
  BY <1>3 DEF Admissible
<1>5. \A i \in 1..Len(more) : i \in 1..n \/ i = n + 1
  BY <1>3
<1>6. ASSUME NEW i \in 1..Len(more), NEW k \in 1..Len(more)
      PROVE  /\ more[i].old = more[k].old /\ more[i].old # Nobody => i = k
             /\ more[i].new = more[k].new /\ more[i].new # Nobody => i = k
  <2>1. CASE i \in 1..n /\ k \in 1..n
    BY <1>3, <2>1 DEF Accepted
  <2>2. CASE i \in 1..n /\ k = n + 1
    BY <1>3, <1>4, <2>2
  <2>3. CASE i = n + 1 /\ k \in 1..n
    BY <1>3, <1>4, <2>3
  <2>4. CASE i = n + 1 /\ k = n + 1
    BY <2>4
  <2> QED BY <1>5, <2>1, <2>2, <2>3, <2>4
<1> QED BY <1>3, <1>6 DEF Accepted, more

\* Whatever is answered, what is accepted of it decides nothing twice.
LEMMA ValidatedOnce ==
  ASSUME NEW H \in SUBSET InputFinding, NEW C \in SUBSET InputFinding,
         NEW decisions \in Seq(Replied(H, C))
  PROVE  \E acc : /\ Accepted(acc, H, C)
                  /\ ValidateReconciliation(decisions, H, C) = KeptOpen(acc, H, C)
<1> DEFINE n == Len(decisions)
           Reading(h) == [k \in 0..n |->
                         IF k = 0 THEN <<>>
                         ELSE IF Admissible(decisions[k], h[k - 1], H, C)
                              THEN Append(h[k - 1], decisions[k]) ELSE h[k - 1]]
           after == CHOOSE h : h = Reading(h)
<1>1. ValidateReconciliation(decisions, H, C) = KeptOpen(after[n], H, C)
  BY DEF ValidateReconciliation
<1>2. n \in Nat /\ \A k \in 1..n : decisions[k] \in Replied(H, C)
  OBVIOUS
<1>3. PICK g : TakesUpTo(g, decisions, H, C, n)
  BY <1>2, TakesExist
<1>4. g = Reading(g)
  <2>1. ASSUME NEW k \in 0..n PROVE g[k] = Reading(g)[k]
    <3>1. Reading(g)[k] = IF k = 0 THEN <<>> ELSE Takes(decisions, H, C, k, g[k - 1])
      BY DEF Takes
    <3> HIDE DEF Reading
    <3>2. k = 0 \/ k \in 1..n
      BY <1>2
    <3> QED BY <1>3, <3>1, <3>2 DEF TakesUpTo
  <2>2. g = [k \in 0..n |-> g[k]]
    BY <1>3 DEF TakesUpTo
  <2>3. Reading(g) = [k \in 0..n |-> Reading(g)[k]]
    OBVIOUS
  <2> HIDE DEF Reading
  <2> QED BY <2>1, <2>2, <2>3
<1>5. after = Reading(after)
  <2> HIDE DEF Reading
  <2> QED BY <1>4
<1>6. /\ after[0] = <<>>
      /\ \A k \in 1..n : after[k] = Takes(decisions, H, C, k, after[k - 1])
  <2> HIDE DEF after
  <2>1. ASSUME NEW k \in 0..n
        PROVE  after[k] = IF k = 0 THEN <<>> ELSE Takes(decisions, H, C, k, after[k - 1])
    <3>1. Reading(after)[k] = IF k = 0 THEN <<>> ELSE Takes(decisions, H, C, k, after[k - 1])
      BY DEF Takes
    <3> HIDE DEF Reading
    <3>2. after[k] = Reading(after)[k]
      BY <1>5
    <3> QED BY <3>1, <3>2
  <2>2. 0 \in 0..n /\ \A k \in 1..n : k \in 0..n /\ k # 0
    BY <1>2
  <2> HIDE DEF Reading
  <2> QED BY <2>1, <2>2
<1> HIDE DEF after, Reading, n
<1> DEFINE Bad == {m \in 0..n : ~Accepted(after[m], H, C)}
<1>7. Bad = {}
  <2> SUFFICES ASSUME Bad # {} PROVE FALSE
    OBVIOUS
  <2>1. PICK m \in Bad : \A j \in Bad : m <= j
    <3>1. Bad \in SUBSET Nat
      BY <1>2
    <3> HIDE DEF Bad
    <3> QED BY <3>1, LeastNumber
  <2>2. m \in 0..n /\ ~Accepted(after[m], H, C)
    BY <2>1
  <2>3. m # 0
    BY <1>6, <2>2, NothingAccepted
  <2>4. m \in 1..n /\ m - 1 \in 0..n
    BY <1>2, <2>2, <2>3
  <2>5. Accepted(after[m - 1], H, C)
    <3>1. m - 1 \notin Bad
      <4> HIDE DEF Bad
      <4> QED BY <1>2, <2>1, <2>4
    <3> QED BY <2>4, <3>1
  <2>6. after[m] = Takes(decisions, H, C, m, after[m - 1])
    BY <1>6, <2>4
  <2>7. decisions[m] \in Replied(H, C)
    BY <1>2, <2>4
  <2>8. CASE Admissible(decisions[m], after[m - 1], H, C)
    <3>1. after[m] = Append(after[m - 1], decisions[m])
      BY <2>6, <2>8 DEF Takes
    <3> QED BY <2>2, <2>5, <2>7, <2>8, <3>1, AcceptedStays
  <2>9. CASE ~Admissible(decisions[m], after[m - 1], H, C)
    BY <2>2, <2>5, <2>6, <2>9 DEF Takes
  <2> QED BY <2>8, <2>9
<1>8. n \in 0..n
  BY <1>2
<1>9. Accepted(after[n], H, C)
  BY <1>7, <1>8
<1> QED BY <1>1, <1>9 DEF n

\* What a line of its session says of a file are findings.
LEMMA LatestCommentsTyped ==
  ASSUME InputTyped, ReuseFits, NEW j \in 1..Len(jobs), NEW f
  PROVE  LatestComments(jobs[j].resume, f) \in Seq(InputFinding)
<1> DEFINE ids == jobs[j].resume
           found == {r \in DOMAIN ids : Mentions(sessions[r], f) # {}}
           r == Latest(ids, found)
           lines == sessions[r]
           k == Max(Mentions(lines, f))
<1>1. LatestComments(ids, f) = IF found = {} THEN <<>> ELSE lines[k].comments
  BY DEF LatestComments
<1>2. CASE found = {}
  BY <1>1, <1>2
<1>3. CASE found # {}
  <2>1. /\ Len(jobs) \in Nat /\ jobs[j] \in JobRow
        /\ \A i \in 1..Len(jobs) : sessions[i] \in Seq(ItemLine) \union {NoRun}
    BY DEF InputTyped
  <2>2. \A i \in DOMAIN ids : i \in 1..Len(jobs) /\ sessions[i] # NoRun
    BY DEF ReuseFits, ListsFit
  <2>3. \A i \in DOMAIN ids : ids[i] \in Nat
    <3>1. ids \in UNION {[S -> Nat] : S \in SUBSET Nat}
      BY <2>1 DEF JobRow
    <3> HIDE DEF ids
    <3>2. PICK S \in SUBSET Nat : ids \in [S -> Nat]
      BY <3>1
    <3> QED BY <3>2
  <2>4. found \in SUBSET (1..Len(jobs)) /\ \A i \in found : ids[i] \in Nat
    BY <2>2, <2>3
  <2>5. \A i \in found : i \in DOMAIN ids /\ Mentions(sessions[i], f) # {}
    OBVIOUS
  <2> HIDE DEF found, ids
  <2>6. r \in found
    BY <1>3, <2>1, <2>4, LatestIsFound
  <2> HIDE DEF r
  <2>7. lines \in Seq(ItemLine) /\ Mentions(lines, f) # {}
    BY <2>1, <2>2, <2>5, <2>6
  <2>8. Mentions(lines, f) \in SUBSET (1..Len(lines)) /\ Len(lines) \in Nat
    BY <2>7 DEF Mentions
  <2> HIDE DEF lines
  <2>9. k \in 1..Len(lines)
    BY <2>7, <2>8, GreatestNumber
  <2>10. lines[k] \in ItemLine
    BY <2>7, <2>9
  <2> HIDE DEF k
  <2>11. lines[k].comments \in Seq(InputFinding)
    BY <2>10 DEF ItemLine
  <2> QED BY <1>1, <1>3, <2>11 DEF ids
<1> QED BY <1>2, <1>3

\* The elements of a sequence are finitely many.
LEMMA ElementsAreFinite ==
  ASSUME NEW T, NEW s \in Seq(T)
  PROVE  ToSet(s) \in SUBSET T /\ IsFiniteSet(ToSet(s))
<1>1. DOMAIN s = 1..Len(s) /\ Len(s) \in Nat /\ s = [i \in 1..Len(s) |-> s[i]]
  OBVIOUS
<1>2. \A n \in Nat : IsFiniteSet(1..n)
  BY FS_Interval
<1>3. IsFiniteSet({s[i] : i \in 1..Len(s)})
  BY <1>1, <1>2, ImageIsFinite
<1>4. ToSet(s) = {s[i] : i \in 1..Len(s)}
  BY <1>1 DEF ToSet
<1>5. {s[i] : i \in 1..Len(s)} \in SUBSET T
  OBVIOUS
<1> QED BY <1>3, <1>4, <1>5

\* The findings a review compares are finitely many.
LEMMA ComparedFindings ==
  ASSUME InputTyped, ReuseFits, run # NoRun
  PROVE  /\ HistoricalFindings \in SUBSET InputFinding /\ IsFiniteSet(HistoricalFindings)
         /\ CurrentFindings \in SUBSET InputFinding /\ IsFiniteSet(CurrentFindings)
<1>1. run.job \in 1..Len(jobs) /\ run \in RunRecord /\ run.job \in Nat
  BY DEF InputTyped, RunRecord
<1>2. run.completed \in SUBSET Paths /\ IsFiniteSet(run.completed)
  <2>1. run.completed \in SUBSET Paths
    BY <1>1 DEF RunRecord
  <2> QED BY <2>1, InputAssumption, FS_Subset
<1>3. HistoricalFindings \in SUBSET InputFinding /\ IsFiniteSet(HistoricalFindings)
  <2> DEFINE told == [f \in run.completed |-> ToSet(LatestComments(jobs[run.job].resume, f))]
             all == {told[f] : f \in run.completed}
  <2>1. HistoricalFindings = UNION all
    BY DEF HistoricalFindings
  <2>2. \A f \in run.completed : told[f] \in SUBSET InputFinding /\ IsFiniteSet(told[f])
    <3> TAKE f \in run.completed
    <3>1. LatestComments(jobs[run.job].resume, f) \in Seq(InputFinding)
      BY <1>1, LatestCommentsTyped
    <3> QED BY <3>1, ElementsAreFinite
  <2>3. told = [f \in run.completed |-> told[f]]
    OBVIOUS
  <2> HIDE DEF told
  <2>4. IsFiniteSet(all)
    BY <1>2, <2>3, ImageIsFinite
  <2>5. \A S \in all : S \in SUBSET InputFinding /\ IsFiniteSet(S)
    BY <2>2
  <2> HIDE DEF all
  <2>6. IsFiniteSet(UNION all)
    BY <2>4, <2>5, FS_UNION
  <2> QED BY <2>1, <2>5, <2>6
<1>4. CurrentFindings \in SUBSET InputFinding /\ IsFiniteSet(CurrentFindings)
  <2> DEFINE files == {g \in run.completed : \E i \in DOMAIN sessions[run.job] :
                /\ sessions[run.job][i].path[1] = g
                /\ sessions[run.job][i].comments # <<>>}
             made == [f \in files |-> [file |-> f, job |-> run.job]]
  <2>1. CurrentFindings = {made[f] : f \in files}
    BY DEF CurrentFindings
  <2>2. files \in SUBSET run.completed
    OBVIOUS
  <2> HIDE DEF files
  <2>3. IsFiniteSet(files)
    BY <1>2, <2>2, FS_Subset
  <2>4. \A f \in files : made[f] \in InputFinding
    BY <1>1, <1>2, <2>2 DEF InputFinding
  <2>5. made = [f \in files |-> made[f]]
    OBVIOUS
  <2> HIDE DEF made
  <2>6. IsFiniteSet({made[f] : f \in files})
    BY <2>3, <2>5, ImageIsFinite
  <2> QED BY <2>1, <2>4, <2>6
<1> QED BY <1>3, <1>4

\* What may be recorded decides each finding once.
LEMMA DecisionsOnce ==
  ASSUME NEW H \in SUBSET InputFinding, NEW C \in SUBSET InputFinding,
         IsFiniteSet(H), IsFiniteSet(C), NEW decisions \in Decisions(H, C)
  PROVE  /\ decisions \in Seq(DecisionsOf(H, C))
         /\ \A h \in H : HasOne(decisions, About(H, C, h))
         /\ \A c \in C : HasOne(decisions, Naming(H, C, c))
<1>1. \E acc : Accepted(acc, H, C) /\ decisions = KeptOpen(acc, H, C)
  <2>1. CASE decisions = ConservativeReconciliation(H, C)
    BY <2>1, NothingAccepted DEF ConservativeReconciliation
  <2>2. CASE decisions # ConservativeReconciliation(H, C)
    <3> DEFINE R == Replied(H, C)
    <3>1. PICK reply \in SeqOf(R, MaxDecisions) :
            decisions = ValidateReconciliation(reply, H, C)
      BY <2>2 DEF Decisions, Replies, Replied
    <3>2. reply \in Seq(R)
      <4>1. MaxDecisions \in Nat
        BY InputAssumption
      <4> HIDE DEF R
      <4>2. PICK m \in 0..MaxDecisions : reply \in [1..m -> R]
        BY <3>1 DEF SeqOf
      <4> QED BY <4>1, <4>2
    <3> QED BY <3>1, <3>2, ValidatedOnce
  <2> QED BY <2>1, <2>2
<1> QED BY <1>1, KeptOpenOnce

\* What a review records decides each finding once.
LEMMA DecidedWhenFinished ==
  ASSUME InputTyped, ReuseFits, FinishReview
  PROVE  DecidedOnce'
<1>1. CASE run.completed = {}
  BY <1>1 DEF FinishReview, DecidedOnce
<1>2. CASE run.completed # {}
  <2> DEFINE H == HistoricalFindings
             C == CurrentFindings
  <2>1. /\ H \in SUBSET InputFinding /\ IsFiniteSet(H)
        /\ C \in SUBSET InputFinding /\ IsFiniteSet(C)
    BY ComparedFindings DEF FinishReview
  <2>2. PICK decisions \in Decisions(H, C) :
          timeline' = [historical |-> H, current |-> C, decisions |-> decisions]
    BY <1>2 DEF FinishReview
  <2> HIDE DEF H, C
  <2>3. /\ decisions \in Seq(DecisionsOf(H, C))
        /\ \A h \in H : HasOne(decisions, About(H, C, h))
        /\ \A c \in C : HasOne(decisions, Naming(H, C, c))
    BY <2>1, <2>2, DecisionsOnce
  <2>4. /\ DOMAIN decisions = 1..Len(decisions)
        /\ \A i \in DOMAIN decisions : decisions[i] \in DecisionsOf(H, C)
    BY <2>3
  <2>5. ASSUME NEW h \in H
        PROVE  Cardinality({i \in DOMAIN decisions : decisions[i].old = h}) = 1
    <3>1. {i \in DOMAIN decisions : decisions[i] \in About(H, C, h)} =
            {i \in DOMAIN decisions : decisions[i].old = h}
      BY <2>4 DEF About
    <3>2. Cardinality({i \in DOMAIN decisions : decisions[i] \in About(H, C, h)}) = 1
      BY <2>3, <2>4, OneIsCounted
    <3> QED BY <3>1, <3>2
  <2>6. ASSUME NEW c \in C
        PROVE  Cardinality({i \in DOMAIN decisions : decisions[i].new = c}) = 1
    <3>1. {i \in DOMAIN decisions : decisions[i] \in Naming(H, C, c)} =
            {i \in DOMAIN decisions : decisions[i].new = c}
      BY <2>4 DEF Naming
    <3>2. Cardinality({i \in DOMAIN decisions : decisions[i] \in Naming(H, C, c)}) = 1
      BY <2>3, <2>4, OneIsCounted
    <3> QED BY <3>1, <3>2
  <2>7. \A i \in DOMAIN decisions : /\ decisions[i].old \in H \union {Nobody}
                                    /\ decisions[i].new \in C \union {Nobody}
    BY <2>4 DEF DecisionsOf
  <2>8. timeline'.historical = H /\ timeline'.current = C /\ timeline'.decisions = decisions
    BY <2>2
  <2> QED BY <2>5, <2>6, <2>7, <2>8 DEF DecidedOnce
<1> QED BY <1>1, <1>2

\* Whatever the model answers, each historical and each current finding is
\* decided exactly once, and nothing else is.
THEOREM AlwaysDecidedOnce == InputSpec => []DecidedOnce
<1>1. InputInit => DecidedOnce
  BY DEF InputInit, DecidedOnce
<1>2. ASSUME InputTyped, ReuseFits, DecidedOnce, [InputNext]_inputVars
      PROVE  DecidedOnce'
  <2>1. CASE FinishReview
    BY <1>2, <2>1, DecidedWhenFinished
  <2>2. CASE timeline' = NoRun
    BY <2>2 DEF DecidedOnce
  <2>3. CASE UNCHANGED inputVars
    BY <1>2, <2>3 DEF inputVars, DecidedOnce
  <2>4. FinishReview \/ timeline' = NoRun \/ UNCHANGED inputVars
    BY <1>2 DEF InputNext, PushTarget, PushHead, Stop, Preflight, GoesStale, ResolverFails,
                StartReview, ReviewFile
  <2> QED BY <2>1, <2>2, <2>3, <2>4
<1>3. InputTyped /\ ReuseFits /\ [InputNext]_inputVars => (InputTyped /\ ReuseFits)'
  BY InputStep
<1> QED BY <1>1, <1>2, <1>3, InputTypedInitially, PTL DEF InputSpec

-----------------------------------------------------------------------------
(* The digests of the manifest identify what was reviewed. *)

\* Two sequences made of a part with a tag and a part without are equal only
\* part by part.
LEMMA TaggedParts ==
  ASSUME NEW T, NEW S, NEW a \in Seq(T), NEW b \in Seq(T), NEW p \in Seq(T), NEW q \in Seq(T),
         \A i \in 1..Len(a) : a[i] \in S, \A i \in 1..Len(b) : b[i] \in S,
         HasNone(p, S), HasNone(q, S), a \o p = b \o q
  PROVE  a = b /\ p = q
<1>1. /\ Len(a) \in Nat /\ Len(b) \in Nat /\ Len(p) \in Nat /\ Len(q) \in Nat
      /\ Len(a) + Len(p) = Len(b) + Len(q)
      /\ \A i \in 1..Len(a) : (a \o p)[i] = a[i]
      /\ \A i \in 1..Len(b) : (a \o p)[i] = b[i]
      /\ \A i \in 1..Len(p) : (a \o p)[Len(a) + i] = p[i]
      /\ \A i \in 1..Len(q) : (a \o p)[Len(b) + i] = q[i]
  <2>1. /\ Len(a) \in Nat /\ Len(p) \in Nat /\ Len(a \o p) = Len(a) + Len(p)
        /\ \A i \in 1..Len(a) : (a \o p)[i] = a[i]
        /\ \A i \in 1..Len(p) : (a \o p)[Len(a) + i] = p[i]
    BY ONLY a \in Seq(T), p \in Seq(T), PlacesOfConcat
  <2>2. /\ Len(b) \in Nat /\ Len(q) \in Nat /\ Len(b \o q) = Len(b) + Len(q)
        /\ \A i \in 1..Len(b) : (b \o q)[i] = b[i]
        /\ \A i \in 1..Len(q) : (b \o q)[Len(b) + i] = q[i]
    BY ONLY b \in Seq(T), q \in Seq(T), PlacesOfConcat
  <2> DEFINE c == a \o p
  <2>3. b \o q = c
    OBVIOUS
  <2> HIDE DEF c
  <2> QED BY <2>1, <2>2, <2>3 DEF c
<1>2. Len(a) <= Len(b)
  <2> SUFFICES ASSUME Len(b) < Len(a) PROVE FALSE
    BY <1>1
  <2>1. Len(b) + 1 \in 1..Len(a) /\ 1 \in 1..Len(q)
    BY <1>1
  <2>2. a[Len(b) + 1] = q[1]
    BY <1>1, <2>1
  <2> QED BY <2>1, <2>2 DEF HasNone
<1>3. Len(b) <= Len(a)
  <2> SUFFICES ASSUME Len(a) < Len(b) PROVE FALSE
    BY <1>1
  <2>1. Len(a) + 1 \in 1..Len(b) /\ 1 \in 1..Len(p)
    BY <1>1
  <2>2. b[Len(a) + 1] = p[1]
    BY <1>1, <2>1
  <2> QED BY <2>1, <2>2 DEF HasNone
<1>4. Len(a) = Len(b) /\ Len(p) = Len(q)
  BY <1>1, <1>2, <1>3
<1>5. \A i \in 1..Len(a) : a[i] = b[i]
  BY <1>1, <1>4
<1>6. \A i \in 1..Len(p) : p[i] = q[i]
  BY <1>1, <1>4
<1> QED BY <1>4, <1>5, <1>6, SeqEqual

\* The rule entries of layers that are hashed alike, but for the file they
\* were read from.
SameEntries(k, l) ==
  /\ DOMAIN k.rules = DOMAIN l.rules
  /\ \A i \in DOMAIN k.rules : /\ k.rules[i].path = l.rules[i].path
                               /\ k.rules[i].rule = l.rules[i].rule
                               /\ k.rules[i].merge = l.rules[i].merge

\* A place that is first.
LEMMA FirstPlaceIsOne ==
  ASSUME NEW n \in Nat, NEW places \in SUBSET ((1..n) \X Nat), places # {}
  PROVE  FirstPlace(places) \in places
<1> DEFINE rows == {p[1] : p \in places}
<1>1. rows \in SUBSET Nat /\ rows # {}
  OBVIOUS
<1>2. PICK r \in rows : \A s \in rows : r <= s
  <2> HIDE DEF rows
  <2> QED BY <1>1, LeastNumber
<1> DEFINE columns == {p[2] : p \in {q \in places : q[1] = r}}
<1>3. columns \in SUBSET Nat /\ columns # {}
  BY <1>2
<1>4. PICK c \in columns : \A d \in columns : c <= d
  <2> HIDE DEF columns
  <2> QED BY <1>3, LeastNumber
<1>5. PICK p \in places : p[1] = r /\ p[2] = c
  BY <1>4
<1>6. ASSUME NEW q \in places PROVE p[1] < q[1] \/ (p[1] = q[1] /\ p[2] <= q[2])
  <2>1. q[1] \in rows /\ q[1] \in Nat /\ r \in Nat /\ r <= q[1]
    BY <1>1, <1>2
  <2>2. CASE q[1] = r
    <3>1. q[2] \in columns
      BY <2>2
    <3> QED BY <1>4, <1>5, <2>2, <3>1
  <2>3. CASE q[1] # r
    BY <1>5, <2>1, <2>3
  <2> QED BY <2>2, <2>3
<1> QED BY <1>5, <1>6 DEF FirstPlace

\* Layers with the same entries give each path the same rule.
LEMMA SameRule ==
  ASSUME NEW K, NEW L, NEW f, DOMAIN K = 1..3, DOMAIN L = 1..3,
         \A l \in 1..3 : DOMAIN K[l].rules \in SUBSET Nat,
         \A l \in 1..3 : SameEntries(K[l], L[l])
  PROVE  Resolve(K, f) = Resolve(L, f)
<1>1. ASSUME NEW l \in 1..3, NEW i \in DOMAIN K[l].rules
      PROVE  Matches(K[l].rules[i], f) <=> Matches(L[l].rules[i], f)
  BY DEF SameEntries, Matches
<1>2. \A l \in 1..3 : DOMAIN K[l].rules = DOMAIN L[l].rules
  BY DEF SameEntries
<1> DEFINE places == Matching(K, f)
           p == FirstPlace(places)
<1>3. \A q : q \in places <=> \E l \in 1..3 : \E i \in DOMAIN K[l].rules :
               q = <<l, i>> /\ Matches(K[l].rules[i], f)
  BY DEF Matching
<1>4. \A q : q \in Matching(L, f) <=> \E l \in 1..3 : \E i \in DOMAIN L[l].rules :
               q = <<l, i>> /\ Matches(L[l].rules[i], f)
  BY DEF Matching
<1> HIDE DEF places
<1>5. Matching(L, f) = places
  BY <1>1, <1>2, <1>3, <1>4
<1>6. CASE places = {}
  BY <1>5, <1>6 DEF Resolve, places
<1>7. CASE places # {}
  <2>1. places \in SUBSET ((1..3) \X Nat)
    BY <1>3
  <2>2. p \in places
    BY <1>7, <2>1, FirstPlaceIsOne
  <2> HIDE DEF p
  <2>3. \E l \in 1..3 : \E i \in DOMAIN K[l].rules : p = <<l, i>>
    BY <1>3, <2>2
  <2>4. /\ K[p[1]].rules[p[2]].rule = L[p[1]].rules[p[2]].rule
        /\ K[p[1]].rules[p[2]].merge = L[p[1]].rules[p[2]].merge
    BY <2>3 DEF SameEntries
  <2>5. Resolve(K, f) = IF K[p[1]].rules[p[2]].merge
                        THEN MergeWithSystemRule(f, K[p[1]].rules[p[2]].rule)
                        ELSE K[p[1]].rules[p[2]].rule
    BY <1>7 DEF Resolve, p, places
  <2>6. Resolve(L, f) = IF L[p[1]].rules[p[2]].merge
                        THEN MergeWithSystemRule(f, L[p[1]].rules[p[2]].rule)
                        ELSE L[p[1]].rules[p[2]].rule
    BY <1>5, <1>7 DEF Resolve, p
  <2> QED BY <2>4, <2>5, <2>6
<1> QED BY <1>6, <1>7

\* Fields, and those of one layer.
LayerNames == {"custom", "project", "global"}

Fields == LayerNames \X (SUBSET Paths) \X Seq(STRING) \X BOOLEAN

FieldsOf(name) == {t \in Fields : t[1] = name}

\* The fields of a layer carry its name.
LEMMA FieldsTagged ==
  ASSUME NEW name \in LayerNames, NEW layer \in ProjectRule
  PROVE  /\ LayerFields(name, layer) \in Seq(Fields)
         /\ DOMAIN layer.rules = 1..Len(LayerFields(name, layer))
         /\ \A i \in 1..Len(LayerFields(name, layer)) :
              LayerFields(name, layer)[i] \in FieldsOf(name)
         /\ \A other \in LayerNames \ {name} :
              HasNone(LayerFields(name, layer), FieldsOf(other))
<1> DEFINE fields == LayerFields(name, layer)
           n == Len(layer.rules)
<1>1. /\ DOMAIN layer.rules = 1..n /\ n \in Nat
      /\ \A i \in 1..n : layer.rules[i] \in Entry
  <2>1. layer.rules \in Seq(Entry)
    BY DEF ProjectRule
  <2> QED BY <2>1
<1>2. \A e \in Entry : EntryFields(name, e) \in Fields /\ EntryFields(name, e)[1] = name
  BY DEF Entry, EntryFields, Fields
<1> HIDE DEF n
<1>3. fields = [i \in 1..n |-> EntryFields(name, layer.rules[i])]
  BY <1>1 DEF LayerFields
<1>4. \A i \in 1..n : EntryFields(name, layer.rules[i]) \in Fields
  BY <1>1, <1>2
<1> HIDE DEF fields
<1>5. fields \in Seq(Fields) /\ Len(fields) = n
  BY <1>1, <1>3, <1>4
<1>6. \A i \in 1..n : fields[i] \in Fields /\ fields[i][1] = name
  BY <1>1, <1>2, <1>3
<1>7. \A i \in 1..n : fields[i] \in FieldsOf(name)
  BY <1>6 DEF FieldsOf
<1>8. \A other \in LayerNames \ {name} : HasNone(fields, FieldsOf(other))
  BY <1>5, <1>6 DEF FieldsOf, HasNone
<1> QED BY <1>1, <1>5, <1>7, <1>8 DEF fields

\* Layers with the same fields have the same entries.
LEMMA SameFields ==
  ASSUME NEW name \in LayerNames, NEW k \in ProjectRule, NEW l \in ProjectRule,
         LayerFields(name, k) = LayerFields(name, l)
  PROVE  SameEntries(k, l)
<1>1. DOMAIN k.rules = DOMAIN l.rules
  BY FieldsTagged
<1>2. ASSUME NEW i \in DOMAIN k.rules
      PROVE  EntryFields(name, k.rules[i]) = EntryFields(name, l.rules[i])
  <2>1. LayerFields(name, k)[i] = EntryFields(name, k.rules[i])
    BY DEF LayerFields
  <2>2. LayerFields(name, l)[i] = EntryFields(name, l.rules[i])
    BY <1>1 DEF LayerFields
  <2> QED BY <2>1, <2>2
<1>3. \A d, e : EntryFields(name, d) = EntryFields(name, e) =>
                d.path = e.path /\ d.rule = e.rule /\ d.merge = e.merge
  BY DEF EntryFields
<1> QED BY <1>1, <1>2, <1>3 DEF SameEntries

\* Joining fields in any grouping.
LEMMA FieldsAssociate ==
  \A s, t, u \in Seq(Fields) : (s \o t) \o u = s \o (t \o u) /\ t \o u \in Seq(Fields)
<1>1. \A s, t, u \in Seq(Fields) : (s \o t) \o u = s \o (t \o u)
  BY ConcatAssociative
<1>2. \A t, u \in Seq(Fields) : t \o u \in Seq(Fields)
  OBVIOUS
<1> QED BY <1>1, <1>2

\* The hashed fields tell the layers apart.
LEMMA ConfigIdentifies ==
  ASSUME NEW K, NEW L, NEW u, NEW v, DOMAIN K = 1..3, DOMAIN L = 1..3,
         \A i \in 1..3 : K[i] \in ProjectRule /\ L[i] \in ProjectRule,
         RuleConfig(K, u) = RuleConfig(L, v)
  PROVE  u = v /\ \A l \in 1..3 : SameEntries(K[l], L[l])
<1> DEFINE a == LayerFields("custom", K[1])
           b == LayerFields("project", K[2])
           c == LayerFields("global", K[3])
           x == LayerFields("custom", L[1])
           y == LayerFields("project", L[2])
           z == LayerFields("global", L[3])
           C == FieldsOf("custom")
           P == FieldsOf("project")
<1>1. u = v /\ a \o b \o c = x \o y \o z
  BY DEF RuleConfig
<1>2. /\ K[1] \in ProjectRule /\ K[2] \in ProjectRule /\ K[3] \in ProjectRule
      /\ L[1] \in ProjectRule /\ L[2] \in ProjectRule /\ L[3] \in ProjectRule
  OBVIOUS
<1>3. /\ "custom" \in LayerNames /\ "project" \in LayerNames /\ "global" \in LayerNames
      /\ "custom" \in LayerNames \ {"project"} /\ "custom" \in LayerNames \ {"global"}
      /\ "project" \in LayerNames \ {"global"}
  BY DEF LayerNames
<1>4. a \in Seq(Fields) /\ b \in Seq(Fields) /\ c \in Seq(Fields)
  BY <1>2, <1>3, FieldsTagged
<1>14. x \in Seq(Fields) /\ y \in Seq(Fields) /\ z \in Seq(Fields)
  BY <1>2, <1>3, FieldsTagged
<1>5. /\ \A i \in 1..Len(a) : a[i] \in C
      /\ \A i \in 1..Len(x) : x[i] \in C
  BY <1>2, <1>3, FieldsTagged
<1>6. /\ \A i \in 1..Len(b) : b[i] \in P
      /\ \A i \in 1..Len(y) : y[i] \in P
  BY <1>2, <1>3, FieldsTagged
<1>7. HasNone(b, C) /\ HasNone(y, C) /\ HasNone(c, C) /\ HasNone(z, C)
  BY <1>2, <1>3, FieldsTagged
<1>8. HasNone(c, P) /\ HasNone(z, P)
  BY <1>2, <1>3, FieldsTagged
<1> HIDE DEF a, b, c, x, y, z, C, P
<1>9. b \o c \in Seq(Fields) /\ y \o z \in Seq(Fields) /\ a \o (b \o c) = x \o (y \o z)
  <2>1. a \o (b \o c) = (a \o b) \o c /\ b \o c \in Seq(Fields)
    BY ONLY <1>4, FieldsAssociate
  <2>2. x \o (y \o z) = (x \o y) \o z /\ y \o z \in Seq(Fields)
    BY ONLY <1>14, FieldsAssociate
  <2> QED BY <1>1, <2>1, <2>2
<1>10. HasNone(b \o c, C) /\ HasNone(y \o z, C)
  BY <1>4, <1>7, <1>14, OneOfConcat
<1>11. a = x /\ b \o c = y \o z
  BY <1>4, <1>5, <1>9, <1>10, <1>14, TaggedParts
<1>12. b = y /\ c = z
  BY <1>4, <1>6, <1>8, <1>11, <1>14, TaggedParts
<1>13. SameEntries(K[1], L[1]) /\ SameEntries(K[2], L[2]) /\ SameEntries(K[3], L[3])
  BY <1>2, <1>3, <1>11, <1>12, SameFields DEF a, b, c, x, y, z
<1>15. \A l \in 1..3 : l = 1 \/ l = 2 \/ l = 3
  OBVIOUS
<1> QED BY <1>1, <1>13, <1>15


\* A job with a session had rules that could be read.
RulesRead(rows, logs) ==
  \A j \in 1..Len(rows) : logs[j] # NoRun => rows[j].head.rules # Broken

\* What is loaded of a layer is one.
LEMMA LoadedIsALayer ==
  ASSUME NEW layer \in ProjectRule, NEW dir \in [Docs -> Seq(STRING)]
  PROVE  Loaded(layer, dir) \in ProjectRule
<1> DEFINE read(e) == IF e.ref = Inline THEN e ELSE [e EXCEPT !.rule = dir[e.ref]]
           n == Len(layer.rules)
           rules == [i \in DOMAIN layer.rules |-> read(layer.rules[i])]
<1>1. layer.rules \in Seq(Entry)
  BY DEF ProjectRule
<1>2. DOMAIN layer.rules = 1..n /\ n \in Nat /\ \A i \in 1..n : layer.rules[i] \in Entry
  BY <1>1
<1>3. ASSUME NEW e \in Entry PROVE read(e) \in Entry
  <2>1. CASE e.ref = Inline
    BY <2>1
  <2>2. CASE e.ref # Inline
    <3>1. dir[e.ref] \in Seq(STRING)
      BY <2>2 DEF Entry
    <3>2. read(e) = [e EXCEPT !.rule = dir[e.ref]]
      BY <2>2
    <3> HIDE DEF read
    <3> QED BY <3>1, <3>2 DEF Entry
  <2> QED BY <2>1, <2>2
<1>4. Loaded(layer, dir) = [layer EXCEPT !.rules = rules]
  BY DEF Loaded
<1> HIDE DEF read, n
<1>5. rules \in Seq(Entry)
  BY <1>2, <1>3
<1> HIDE DEF rules
<1> QED BY <1>4, <1>5 DEF ProjectRule

\* The layers of a job whose rules could be read.
LEMMA LayersTyped ==
  ASSUME NEW job \in JobRow, job.head.rules # Broken
  PROVE  /\ DOMAIN Layers(job) = 1..3
         /\ \A l \in 1..3 : Layers(job)[l] \in ProjectRule
<1>1. NoLayer \in ProjectRule
  <2>1. <<>> \in Seq(Entry) /\ {} \in SUBSET SUBSET Paths
    OBVIOUS
  <2> QED BY <2>1 DEF NoLayer, ProjectRule
<1>2. GlobalLayer \in ProjectRule /\ RuleFiles \subseteq ProjectRule /\ TargetFiles \subseteq RuleFiles
  BY InputAssumption
<1>3. CustomLayer(job) \in ProjectRule
  <2> DEFINE dir == [d \in Docs |-> NoText]
  <2>1. dir \in [Docs -> Seq(STRING)]
    BY DEF NoText
  <2> HIDE DEF dir
  <2>2. job.ruleSHA = Missing \/ job.ruleSHA \in ProjectRule
    BY <1>2 DEF JobRow
  <2> QED BY <1>1, <2>1, <2>2, LoadedIsALayer DEF CustomLayer, dir
<1>4. ProjectLayer(job) \in ProjectRule
  <2>1. job.head \in HeadTree
    BY DEF JobRow
  <2>2. /\ job.head.rules = Missing \/ job.head.rules \in ProjectRule
        /\ job.head.docs \in [Docs -> Seq(STRING)]
    BY <1>2, <2>1 DEF HeadTree
  <2> QED BY <1>1, <2>2, LoadedIsALayer DEF ProjectLayer
<1>5. Layers(job) = <<CustomLayer(job), ProjectLayer(job), GlobalLayer>>
  BY DEF Layers
<1> QED BY <1>2, <1>3, <1>4, <1>5

\* What two manifests with equal digests have in common.
LEMMA ManifestIdentifies ==
  ASSUME NEW a \in JobRow, NEW b \in JobRow,
         a.head.rules # Broken, b.head.rules # Broken
  PROVE  LET m == ManifestOf(a)
             n == ManifestOf(b)
         IN  /\ m.ruleConfig = n.ruleConfig => m.under = n.under /\ m.reviewable = n.reviewable
             /\ m.artifact = n.artifact => m.diffs = n.diffs
<1> DEFINE m == ManifestOf(a)
           n == ManifestOf(b)
           s == Selected(a)
           t == Selected(b)
           u == BuildFileFilter(Layers(a))
           v == BuildFileFilter(Layers(b))
<1>1. /\ m.ruleConfig = RuleConfig(Layers(a), u)
      /\ m.artifact = SourceArtifact(a, s)
      /\ m.under = [f \in Paths |-> Resolve(Layers(a), f)]
      /\ m.reviewable = {f \in Paths : IsReviewable(u, f)}
      /\ m.diffs = [f \in s |-> a.head.diff[f]]
  BY DEF ManifestOf
<1>2. /\ n.ruleConfig = RuleConfig(Layers(b), v)
      /\ n.artifact = SourceArtifact(b, t)
      /\ n.under = [f \in Paths |-> Resolve(Layers(b), f)]
      /\ n.reviewable = {f \in Paths : IsReviewable(v, f)}
      /\ n.diffs = [f \in t |-> b.head.diff[f]]
  BY DEF ManifestOf
<1> HIDE DEF m, n, s, t, u, v
<1>3. ASSUME m.ruleConfig = n.ruleConfig
      PROVE  m.under = n.under /\ m.reviewable = n.reviewable
  <2>1. /\ DOMAIN Layers(a) = 1..3 /\ DOMAIN Layers(b) = 1..3
        /\ \A l \in 1..3 : Layers(a)[l] \in ProjectRule /\ Layers(b)[l] \in ProjectRule
    BY LayersTyped
  <2>2. u = v /\ \A l \in 1..3 : SameEntries(Layers(a)[l], Layers(b)[l])
    <3> DEFINE K == Layers(a)
               L == Layers(b)
    <3>1. /\ DOMAIN K = 1..3 /\ DOMAIN L = 1..3
          /\ \A i \in 1..3 : K[i] \in ProjectRule /\ L[i] \in ProjectRule
      BY <2>1
    <3>2. RuleConfig(K, u) = RuleConfig(L, v)
      BY <1>1, <1>2, <1>3
    <3> HIDE DEF K, L
    <3>3. u = v /\ \A l \in 1..3 : SameEntries(K[l], L[l])
      BY ONLY <3>1, <3>2, ConfigIdentifies
    <3> QED BY <3>3 DEF K, L
  <2>3. \A l \in 1..3 : DOMAIN Layers(a)[l].rules \in SUBSET Nat
    <3> TAKE l \in 1..3
    <3>1. Layers(a)[l].rules \in Seq(Entry)
      BY <2>1 DEF ProjectRule
    <3> QED BY <3>1
  <2>4. \A f \in Paths : Resolve(Layers(a), f) = Resolve(Layers(b), f)
    BY <2>1, <2>2, <2>3, SameRule
  <2> QED BY <1>1, <1>2, <2>2, <2>4
<1>4. ASSUME m.artifact = n.artifact PROVE m.diffs = n.diffs
  <2>1. {<<f, a.head.diff[f]>> : f \in s} = {<<f, b.head.diff[f]>> : f \in t}
    BY <1>1, <1>2, <1>4 DEF SourceArtifact, Fingerprint
  <2>2. ASSUME NEW f \in s PROVE f \in t /\ a.head.diff[f] = b.head.diff[f]
    <3>1. <<f, a.head.diff[f]>> \in {<<g, b.head.diff[g]>> : g \in t}
      BY <2>1
    <3> QED BY <3>1
  <2>3. ASSUME NEW f \in t PROVE f \in s
    <3>1. <<f, b.head.diff[f]>> \in {<<g, a.head.diff[g]>> : g \in s}
      BY <2>1
    <3> QED BY <3>1
  <2> QED BY <1>1, <1>2, <2>2, <2>3
<1> QED BY <1>3, <1>4 DEF m, n

\* A session is opened by a review that could read the rules.
LEMMA RulesReadStep ==
  ASSUME InputTyped, ReuseFits, RulesRead(jobs, sessions), [InputNext]_inputVars
  PROVE  RulesRead(jobs', sessions')
<1>1. ASSUME RowsKept(jobs, jobs'), Len(jobs') = Len(jobs), sessions' = sessions
      PROVE  RulesRead(jobs', sessions')
  BY <1>1 DEF RowsKept, RulesRead
<1>2. ASSUME NEW j \in 1..Len(jobs), Over(j), sessions' = sessions
      PROVE  RulesRead(jobs', sessions')
  BY <1>1, <1>2, OverKeepsRows
<1>3. CASE jobs' = jobs /\ sessions' = sessions
  BY <1>3
<1>4. CASE Stop \/ FinishReview
  <2>1. run.job \in 1..Len(jobs) /\ Over(run.job) /\ sessions' = sessions
    BY <1>4 DEF Stop, FinishReview, InputTyped
  <2> QED BY <1>2, <2>1
<1>5. ASSUME NEW j \in DOMAIN jobs, GoesStale(j) \/ ResolverFails(j)
      PROVE  RulesRead(jobs', sessions')
  <2>1. j \in 1..Len(jobs) /\ Over(j) /\ sessions' = sessions
    BY <1>5 DEF GoesStale, ResolverFails, InputTyped
  <2> QED BY <1>2, <2>1
<1>6. ASSUME NEW mr \in MRs, Preflight(mr) PROVE RulesRead(jobs', sessions')
  <2>1. PICK row \in JobRow : jobs' = Append(jobs, row)
    BY <1>6, PreflightRow
  <2>2. /\ sessions' = Append(sessions, NoRun) /\ jobs \in Seq(JobRow)
        /\ sessions \in Seq(Seq(ItemLine) \union {NoRun}) /\ Len(sessions) = Len(jobs)
        /\ Len(jobs) \in Nat
    BY <1>6 DEF Preflight, InputTyped
  <2>3. /\ Len(jobs') = Len(jobs) + 1 /\ sessions'[Len(jobs) + 1] = NoRun
        /\ \A j \in 1..Len(jobs) : jobs'[j] = jobs[j] /\ sessions'[j] = sessions[j]
    BY <2>1, <2>2
  <2>4. \A j \in 1..Len(jobs') : j \in 1..Len(jobs) \/ j = Len(jobs) + 1
    BY <2>2, <2>3
  <2> QED BY <2>3, <2>4 DEF RulesRead
<1>7. ASSUME NEW j \in DOMAIN jobs, StartReview(j) PROVE RulesRead(jobs', sessions')
  <2>1. /\ jobs \in Seq(JobRow) /\ Len(jobs) \in Nat /\ j \in 1..Len(jobs)
        /\ sessions \in Seq(Seq(ItemLine) \union {NoRun}) /\ Len(sessions) = Len(jobs)
    BY DEF InputTyped
  <2>2. /\ jobs[j].head.rules # Broken /\ jobs' = [jobs EXCEPT ![j].state = "review"]
        /\ \A i \in 1..Len(jobs) : i # j => sessions'[i] = sessions[i]
    BY <1>7, <2>1 DEF StartReview
  <2>3. /\ Len(jobs') = Len(jobs) /\ jobs'[j] = [jobs[j] EXCEPT !.state = "review"]
        /\ \A i \in 1..Len(jobs) : i # j => jobs'[i] = jobs[i]
    BY <2>1, <2>2
  <2>4. jobs'[j].head = jobs[j].head
    <3>1. jobs[j] \in JobRow
      BY <2>1
    <3> QED BY <2>3, <3>1 DEF JobRow
  <2> QED BY <2>2, <2>3, <2>4 DEF RulesRead
<1>8. ASSUME NEW f \in Paths, ReviewFile(f) PROVE RulesRead(jobs', sessions')
  <2>1. /\ run.job \in 1..Len(jobs) /\ sessions[run.job] # NoRun /\ jobs' = jobs
        /\ sessions \in Seq(Seq(ItemLine) \union {NoRun}) /\ Len(sessions) = Len(jobs)
    BY <1>8 DEF ReviewFile, InputTyped
  <2>2. \A i \in 1..Len(jobs) : i # run.job => sessions'[i] = sessions[i]
    BY <1>8, <2>1 DEF ReviewFile
  <2> QED BY <2>1, <2>2 DEF RulesRead
<1>9. PushTarget \/ (\E mr \in MRs : PushHead(mr)) \/ UNCHANGED inputVars =>
        jobs' = jobs /\ sessions' = sessions
  BY DEF PushTarget, PushHead, inputVars
<1> QED BY <1>3, <1>4, <1>5, <1>6, <1>7, <1>8, <1>9 DEF InputNext

\* The manifest of a review has the rule_config_sha256 of another one only if
\* both have the same rule for every path and the same filter, and the
\* source_artifact_sha256 only if both have the same diffs.
THEOREM DigestsAlwaysIdentify == InputSpec => []DigestsIdentify
<1> DEFINE Inv == InputTyped /\ ReuseFits /\ RulesRead(jobs, sessions)
<1>1. InputInit => Inv
  <2>1. InputInit => RulesRead(jobs, sessions)
    <3> SUFFICES ASSUME InputInit PROVE RulesRead(jobs, sessions)
      OBVIOUS
    <3>1. 1..Len(jobs) = {}
      BY DEF InputInit
    <3> QED BY <3>1 DEF RulesRead
  <2> QED BY <2>1, InputTypedInitially
<1>2. Inv /\ [InputNext]_inputVars => Inv'
  BY InputStep, RulesReadStep
<1>3. Inv => DigestsIdentify
  <2> SUFFICES ASSUME Inv, run # NoRun, NEW j \in DOMAIN jobs, sessions[j] # NoRun
               PROVE  LET m == ManifestOf(jobs[run.job])
                          n == ManifestOf(jobs[j])
                      IN  /\ m.ruleConfig = n.ruleConfig =>
                               m.under = n.under /\ m.reviewable = n.reviewable
                          /\ m.artifact = n.artifact => m.diffs = n.diffs
    BY DEF DigestsIdentify
  <2>1. /\ run.job \in 1..Len(jobs) /\ sessions[run.job] # NoRun
        /\ j \in 1..Len(jobs) /\ \A i \in 1..Len(jobs) : jobs[i] \in JobRow
    BY DEF InputTyped
  <2>2. jobs[run.job].head.rules # Broken /\ jobs[j].head.rules # Broken
    BY <2>1 DEF RulesRead
  <2> QED BY <2>1, <2>2, ManifestIdentifies
<1> QED BY <1>1, <1>2, <1>3, PTL DEF InputSpec

-----------------------------------------------------------------------------
(* The usage of an answer. *)

\* The fields that are looked for, and where.
UsageField ==
  {"prompt_tokens", "input_tokens", "completion_tokens", "output_tokens",
   "total_tokens", "cache_read_input_tokens", "cache_creation_input_tokens",
   "prompt_tokens_details_cached_tokens", "input_tokens_details_cached_tokens",
   "prompt_tokens_details_cache_creation_tokens"}

UsagePath == {"usage", "root", "data.usage"} \X UsageField

\* The first path that a body has is the one probed.
LEMMA ProbeTakesFirst ==
  ASSUME NEW body, NEW paths \in Seq(UsagePath), NEW n \in 1 .. Len(paths),
         paths[n] \in DOMAIN body, \A m \in 1 .. n - 1 : paths[m] \notin DOMAIN body
  PROVE  /\ ProbeIndex(body, paths) = n
         /\ Probe(body, paths) = body[paths[n]]
<1> DEFINE hits == {i \in 1 .. Len(paths) : paths[i] \in DOMAIN body}
<1>1. ProbeIndex(body, paths) = IF hits # {} THEN Min(hits) ELSE 0
  BY DEF ProbeIndex, SelectInSeq
<1>2. n \in hits /\ \A m \in hits : n <= m
  OBVIOUS
<1>3. Min(hits) = n
  <2> HIDE DEF hits
  <2>1. hits \subseteq Nat
    BY DEF hits
  <2> QED BY <1>2, <2>1 DEF Min
<1>4. ProbeIndex(body, paths) = n
  BY <1>1, <1>2, <1>3
<1> HIDE DEF hits
<1> QED BY <1>4 DEF Probe

\* A body that has none of the paths gives zero.
LEMMA ProbeFindsNothing ==
  ASSUME NEW body, NEW paths \in Seq(UsagePath),
         \A m \in 1 .. Len(paths) : paths[m] \notin DOMAIN body
  PROVE  ProbeIndex(body, paths) = 0 /\ Probe(body, paths) = 0
<1>1. ProbeIndex(body, paths) = 0
  <2> DEFINE hits == {i \in 1 .. Len(paths) : paths[i] \in DOMAIN body}
  <2>1. ProbeIndex(body, paths) = IF hits # {} THEN Min(hits) ELSE 0
    BY DEF ProbeIndex, SelectInSeq
  <2>2. hits = {}
    OBVIOUS
  <2> QED BY <2>1, <2>2
<1> QED BY <1>1 DEF Probe
\* A body with the fields of F in a place.
BodyOf(F, place) == [p \in {place} \X DOMAIN F |-> F[p[2]]]

\* A field is found wherever the body has it, when no field is looked for
\* before it.
LEMMA FieldEverywhere ==
  ASSUME NEW F, NEW place \in {"usage", "root", "data.usage"}, NEW field \in UsageField,
         NEW rest \in Seq(UsagePath), field \in DOMAIN F
  PROVE  LET paths == Everywhere(field) \o rest
         IN  /\ ProbeIndex(BodyOf(F, place), paths) \in 1 .. 3
             /\ Probe(BodyOf(F, place), paths) = F[field]
<1> DEFINE paths == Everywhere(field) \o rest
<1>1. paths \in Seq(UsagePath)
  BY DEF Everywhere, In, UsagePath
<1>2. /\ Len(paths) >= 3 /\ paths[1] = <<"usage", field>>
      /\ paths[2] = <<"root", field>> /\ paths[3] = <<"data.usage", field>>
  BY DEF Everywhere, In, UsagePath
<1>3. PICK n \in 1 .. 3 : paths[n] = <<place, field>> /\ \A m \in 1 .. n - 1 : paths[m][1] # place
  BY <1>2
<1> HIDE DEF paths
<1>4. paths[n] \in DOMAIN BodyOf(F, place) /\ BodyOf(F, place)[paths[n]] = F[field]
  BY <1>3 DEF BodyOf
<1>5. \A m \in 1 .. n - 1 : paths[m] \notin DOMAIN BodyOf(F, place)
  BY <1>3 DEF BodyOf
<1>6. n \in 1 .. Len(paths)
  BY <1>1, <1>2
<1>7. ProbeIndex(BodyOf(F, place), paths) = n /\ Probe(BodyOf(F, place), paths) = F[field]
  BY <1>1, <1>4, <1>5, <1>6, ProbeTakesFirst
<1> QED BY <1>7 DEF paths

\* A field that the body has not is passed over.
LEMMA FieldNowhere ==
  ASSUME NEW F, NEW place \in {"usage", "root", "data.usage"}, NEW field \in UsageField,
         NEW rest \in Seq(UsagePath), field \notin DOMAIN F
  PROVE  LET paths == Everywhere(field) \o rest
         IN  /\ ProbeIndex(BodyOf(F, place), paths) \notin 1 .. 3
             /\ Probe(BodyOf(F, place), paths) = Probe(BodyOf(F, place), rest)
<1> DEFINE paths == Everywhere(field) \o rest
           body == BodyOf(F, place)
           hits(s) == {i \in 1 .. Len(s) : s[i] \in DOMAIN body}
<1>1. /\ Len(paths) = 3 + Len(rest) /\ paths[1] = <<"usage", field>>
      /\ paths[2] = <<"root", field>> /\ paths[3] = <<"data.usage", field>>
      /\ \A i \in 1 .. Len(rest) : paths[3 + i] = rest[i]
  BY DEF Everywhere, In, UsagePath
<1>2. \A i \in 1 .. 3 : paths[i] \notin DOMAIN body
  BY <1>1 DEF BodyOf
<1>3. /\ ProbeIndex(body, paths) = IF hits(paths) # {} THEN Min(hits(paths)) ELSE 0
      /\ ProbeIndex(body, rest) = IF hits(rest) # {} THEN Min(hits(rest)) ELSE 0
  BY DEF ProbeIndex, SelectInSeq
<1> HIDE DEF paths, body
<1>4. hits(paths) = {3 + i : i \in hits(rest)}
  <2>1. \A i \in hits(paths) : i > 3 /\ i - 3 \in hits(rest)
    <3> TAKE i \in hits(paths)
    <3>1. i > 3
      BY <1>2
    <3>2. i - 3 \in 1 .. Len(rest) /\ paths[3 + (i - 3)] = paths[i]
      BY <1>1, <3>1
    <3> QED BY <1>1, <3>1, <3>2
  <2>2. \A i \in hits(rest) : 3 + i \in hits(paths)
    BY <1>1
  <2>3. \A i \in hits(paths) : i = 3 + (i - 3)
    OBVIOUS
  <2> QED BY <2>1, <2>2, <2>3
<1>5. CASE hits(rest) = {}
  <2>1. hits(paths) = {}
    BY <1>4, <1>5
  <2> HIDE DEF hits
  <2> QED BY <1>3, <1>5, <2>1 DEF Probe, paths, body
<1>6. CASE hits(rest) # {}
  <2>1. hits(rest) \subseteq Nat
    OBVIOUS
  <2> HIDE DEF hits
  <2>2. PICK k \in hits(rest) : \A i \in hits(rest) : k <= i
    BY <1>6, <2>1, LeastNumber
  <2>3. Min(hits(rest)) = k
    BY <2>1, <2>2 DEF Min
  <2>4. 3 + k \in hits(paths) /\ \A i \in hits(paths) : 3 + k <= i
    BY <1>4, <2>1, <2>2
  <2>5. Min(hits(paths)) = 3 + k
    BY <1>4, <2>1, <2>4 DEF Min
  <2>6. k \in 1 .. Len(rest)
    BY <2>2 DEF hits
  <2>7. ProbeIndex(body, paths) = 3 + k /\ ProbeIndex(body, rest) = k
    BY <1>3, <1>6, <2>3, <2>4, <2>5
  <2>8. Probe(body, paths) = body[rest[k]] /\ Probe(body, rest) = body[rest[k]]
    BY <1>1, <2>6, <2>7 DEF Probe
  <2> QED BY <2>6, <2>7, <2>8 DEF paths, body
<1> QED BY <1>5, <1>6

\* No path but those of the field's own places is looked for.
LEMMA OneField ==
  ASSUME NEW F, NEW place \in {"usage", "root", "data.usage"}, NEW field \in UsageField
  PROVE  Probe(BodyOf(F, place), Everywhere(field)) =
           IF field \in DOMAIN F THEN F[field] ELSE 0
<1>1. <<>> \in Seq(UsagePath) /\ Everywhere(field) \o <<>> = Everywhere(field)
  BY DEF Everywhere, In, UsagePath
<1>2. Probe(BodyOf(F, place), <<>>) = 0
  <2>1. \A m \in 1 .. Len(<<>>) : <<>>[m] \notin DOMAIN BodyOf(F, place)
    OBVIOUS
  <2> QED BY <1>1, <2>1, ProbeFindsNothing
<1>3. CASE field \in DOMAIN F
  <2>1. Probe(BodyOf(F, place), Everywhere(field) \o <<>>) = F[field]
    BY <1>1, <1>3, FieldEverywhere
  <2> QED BY <1>1, <1>3, <2>1
<1>4. CASE field \notin DOMAIN F
  <2>1. Probe(BodyOf(F, place), Everywhere(field) \o <<>>) = Probe(BodyOf(F, place), <<>>)
    BY ONLY <1>1, <1>4, FieldNowhere, place \in {"usage", "root", "data.usage"},
            field \in UsageField
  <2>2. Probe(BodyOf(F, place), Everywhere(field) \o <<>>) = 0
    BY <1>2, <2>1
  <2> QED BY <1>1, <1>4, <2>2
<1> QED BY <1>3, <1>4

\* Of two names of a count the first that the body uses is taken.
LEMMA TwoFields ==
  ASSUME NEW F, NEW place \in {"usage", "root", "data.usage"},
         NEW field \in UsageField, NEW other \in UsageField
  PROVE  Probe(BodyOf(F, place), Everywhere(field) \o Everywhere(other)) =
           IF field \in DOMAIN F THEN F[field]
           ELSE IF other \in DOMAIN F THEN F[other] ELSE 0
<1>1. Everywhere(other) \in Seq(UsagePath)
  BY DEF Everywhere, In, UsagePath
<1> QED BY <1>1, OneField, FieldEverywhere, FieldNowhere

\* Cache tokens are added only when the body has the field that leaves them
\* out of the prompt.
LEMMA ApartOfField ==
  ASSUME NEW F, NEW place \in {"usage", "root", "data.usage"},
         NEW field \in UsageField, NEW rest \in Seq(UsagePath)
  PROVE  Apart(BodyOf(F, place), Everywhere(field) \o rest) =
           IF field \in DOMAIN F THEN F[field] ELSE 0
BY FieldEverywhere, FieldNowhere DEF Apart, AnthropicPathCount

\* The usage of a body, from the fields it has.
LEMMA UsageOfFields ==
  ASSUME NEW F, NEW place \in {"usage", "root", "data.usage"}
  PROVE  LET at(field) == IF field \in DOMAIN F THEN F[field] ELSE 0
             prompt == IF "prompt_tokens" \in DOMAIN F THEN F["prompt_tokens"]
                       ELSE at("input_tokens")
             completion == IF "completion_tokens" \in DOMAIN F
                           THEN F["completion_tokens"] ELSE at("output_tokens")
         IN  ResolveUsage(BodyOf(F, place)) =
               IF at("total_tokens") = 0 /\ prompt + completion > 0
               THEN prompt + completion + at("cache_read_input_tokens")
                      + at("cache_creation_input_tokens")
               ELSE at("total_tokens")
<1>1. \A s, u \in UsageField : Nested(s) \o Nested(u) \in Seq(UsagePath)
                           /\ Nested(s) \in Seq(UsagePath)
  BY DEF Nested, In, UsagePath
<1>2. cacheReadTokensPaths = Everywhere("cache_read_input_tokens")
        \o (Nested("prompt_tokens_details_cached_tokens")
              \o Nested("input_tokens_details_cached_tokens"))
  BY DEF cacheReadTokensPaths, Everywhere, Nested, In, UsagePath
<1>3. Apart(BodyOf(F, place), cacheReadTokensPaths) =
        IF "cache_read_input_tokens" \in DOMAIN F THEN F["cache_read_input_tokens"] ELSE 0
  <2> DEFINE rest == Nested("prompt_tokens_details_cached_tokens")
                       \o Nested("input_tokens_details_cached_tokens")
  <2>1. rest \in Seq(UsagePath) /\ "cache_read_input_tokens" \in UsageField
    BY <1>1 DEF UsageField
  <2>2. cacheReadTokensPaths = Everywhere("cache_read_input_tokens") \o rest
    BY <1>2
  <2> HIDE DEF rest
  <2>3. Apart(BodyOf(F, place), Everywhere("cache_read_input_tokens") \o rest) =
          IF "cache_read_input_tokens" \in DOMAIN F THEN F["cache_read_input_tokens"] ELSE 0
    BY <2>1, ApartOfField
  <2> QED BY <2>2, <2>3
<1>4. Apart(BodyOf(F, place), cacheWriteTokensPaths) =
        IF "cache_creation_input_tokens" \in DOMAIN F
        THEN F["cache_creation_input_tokens"] ELSE 0
  BY <1>1, ApartOfField DEF cacheWriteTokensPaths, UsageField
<1>5. Probe(BodyOf(F, place), totalTokensPaths) =
        IF "total_tokens" \in DOMAIN F THEN F["total_tokens"] ELSE 0
  BY OneField DEF totalTokensPaths, UsageField
<1>6. Probe(BodyOf(F, place), promptTokensPaths) =
        IF "prompt_tokens" \in DOMAIN F THEN F["prompt_tokens"]
        ELSE IF "input_tokens" \in DOMAIN F THEN F["input_tokens"] ELSE 0
  <2>1. "prompt_tokens" \in UsageField /\ "input_tokens" \in UsageField
    BY DEF UsageField
  <2> QED BY ONLY <2>1, TwoFields, place \in {"usage", "root", "data.usage"}
          DEF promptTokensPaths
<1>7. Probe(BodyOf(F, place), completionTokensPaths) =
        IF "completion_tokens" \in DOMAIN F THEN F["completion_tokens"]
        ELSE IF "output_tokens" \in DOMAIN F THEN F["output_tokens"] ELSE 0
  <2>1. "completion_tokens" \in UsageField /\ "output_tokens" \in UsageField
    BY DEF UsageField
  <2> QED BY ONLY <2>1, TwoFields, place \in {"usage", "root", "data.usage"}
          DEF completionTokensPaths
<1> QED BY <1>3, <1>4, <1>5, <1>6, <1>7 DEF ResolveUsage

\* Whatever the dialect and the place, the total is what was billed.
LEMMA UsageIsBilled ==
  ASSUME NEW shape \in Protocols, NEW place \in {"usage", "root", "data.usage"},
         NEW withTotal \in BOOLEAN, NEW t \in TokenCounts, shape = "anthropic" => ~withTotal
  PROVE  ResolveUsage(Report(shape, place, withTotal, t)) = Billed(t)
<1> DEFINE F == ReportedFields(shape, withTotal, t)
<1>1. Report(shape, place, withTotal, t) = BodyOf(F, place)
  BY DEF Report, BodyOf
<1>2. /\ {t.input, t.output, t.read, t.write} \subseteq Nat /\ t.output > 0
      /\ Billed(t) \in Nat /\ Billed(t) > 0
      /\ Billed(t) = t.input + t.output + t.read + t.write
  BY DEF TokenCounts, Billed
<1>3. ASSUME NEW G, DOMAIN G \subseteq UsageField, "total_tokens" \notin DOMAIN G,
             UsageFields(shape, t) = G
      PROVE  /\ DOMAIN F = DOMAIN G \union (IF withTotal THEN {"total_tokens"} ELSE {})
             /\ \A f \in DOMAIN G : F[f] = G[f]
             /\ withTotal => F["total_tokens"] = Billed(t)
  <2>1. CASE withTotal
    BY <1>3, <2>1 DEF ReportedFields
  <2>2. CASE ~withTotal
    BY <1>3, <2>2 DEF ReportedFields
  <2> QED BY <2>1, <2>2
<1>4. CASE shape = "anthropic"
  <2> DEFINE G == [input_tokens |-> t.input, output_tokens |-> t.output,
                   cache_read_input_tokens |-> t.read,
                   cache_creation_input_tokens |-> t.write]
  <2>1. UsageFields(shape, t) = G
    BY <1>4 DEF UsageFields
  <2>2. /\ DOMAIN G = {"input_tokens", "output_tokens", "cache_read_input_tokens",
                       "cache_creation_input_tokens"}
        /\ G["input_tokens"] = t.input /\ G["output_tokens"] = t.output
        /\ G["cache_read_input_tokens"] = t.read
        /\ G["cache_creation_input_tokens"] = t.write
    OBVIOUS
  <2>0. DOMAIN G \subseteq UsageField /\ "total_tokens" \notin DOMAIN G
    BY <2>2 DEF UsageField
  <2> HIDE DEF F, G
  <2>3. /\ DOMAIN F = {"input_tokens", "output_tokens", "cache_read_input_tokens",
                       "cache_creation_input_tokens"}
        /\ F["input_tokens"] = t.input /\ F["output_tokens"] = t.output
        /\ F["cache_read_input_tokens"] = t.read
        /\ F["cache_creation_input_tokens"] = t.write
    BY <1>3, <1>4, <2>1, <2>2, <2>0
  <2> QED BY <1>1, <1>2, <2>3, UsageOfFields
<1>5. CASE shape = "openai"
  <2> DEFINE G == [prompt_tokens |-> t.input + t.read + t.write,
                   completion_tokens |-> t.output,
                   prompt_tokens_details_cached_tokens |-> t.read,
                   prompt_tokens_details_cache_creation_tokens |-> t.write]
  <2>1. UsageFields(shape, t) = G
    BY <1>5 DEF UsageFields
  <2>2. /\ DOMAIN G = {"prompt_tokens", "completion_tokens",
                       "prompt_tokens_details_cached_tokens",
                       "prompt_tokens_details_cache_creation_tokens"}
        /\ G["prompt_tokens"] = t.input + t.read + t.write
        /\ G["completion_tokens"] = t.output
    OBVIOUS
  <2>0. DOMAIN G \subseteq UsageField /\ "total_tokens" \notin DOMAIN G
    BY <2>2 DEF UsageField
  <2> HIDE DEF F, G
  <2>3. /\ DOMAIN F = DOMAIN G \union (IF withTotal THEN {"total_tokens"} ELSE {})
        /\ F["prompt_tokens"] = t.input + t.read + t.write
        /\ F["completion_tokens"] = t.output
        /\ withTotal => F["total_tokens"] = Billed(t)
    BY <1>3, <2>0, <2>1, <2>2
  <2> QED BY <1>1, <1>2, <2>2, <2>3, UsageOfFields
<1>6. CASE shape = "openai-responses"
  <2> DEFINE G == [input_tokens |-> t.input + t.read + t.write,
                   output_tokens |-> t.output,
                   input_tokens_details_cached_tokens |-> t.read]
  <2>1. UsageFields(shape, t) = G
    BY <1>6 DEF UsageFields
  <2>2. /\ DOMAIN G = {"input_tokens", "output_tokens",
                       "input_tokens_details_cached_tokens"}
        /\ G["input_tokens"] = t.input + t.read + t.write
        /\ G["output_tokens"] = t.output
    OBVIOUS
  <2>0. DOMAIN G \subseteq UsageField /\ "total_tokens" \notin DOMAIN G
    BY <2>2 DEF UsageField
  <2> HIDE DEF F, G
  <2>3. /\ DOMAIN F = DOMAIN G \union (IF withTotal THEN {"total_tokens"} ELSE {})
        /\ F["input_tokens"] = t.input + t.read + t.write
        /\ F["output_tokens"] = t.output
        /\ withTotal => F["total_tokens"] = Billed(t)
    BY <1>3, <2>0, <2>1, <2>2
  <2> QED BY <1>1, <1>2, <2>2, <2>3, UsageOfFields
<1> QED BY <1>4, <1>5, <1>6 DEF Protocols

-----------------------------------------------------------------------------
(* The answer of an exchange. *)

ClientTyped ==
  /\ endpoint \in Endpoints
  /\ plan.tokens \in TokenCounts
  /\ exchange \in [state : {"idle", "sent", "stream", "answered", "failed"},
                   retries : Nat, second : BOOLEAN]
  /\ received \in [pieces : Nat, finished : BOOLEAN, total : Nat]

\* What is known of the total: nothing yet, or what was billed.
TotalFits(total) == total \in {0, Billed(plan.tokens)}

\* A request is sent before anything was received; a stream that has finished
\* brought every piece, and its usage if it brought one.
ExchangeFits ==
  /\ exchange.state \in {"idle", "sent"} => received = NothingYet
  /\ exchange.state = "stream" =>
       /\ endpoint.stream /\ TotalFits(received.total)
       /\ received.finished => received.pieces = plan.pieces

ClientInv == ClientTyped /\ ExchangeFits /\ AnswerIsWhole

\* The choice of a token count among those the model may be billed.
LEMMA PlansAreBilled ==
  /\ NoPlan.tokens \in TokenCounts
  /\ \A n : \A p \in Plans(n) : p.tokens \in TokenCounts
BY ClientAssumption DEF NoPlan, Plans

\* An answer in one body has its usage whole.
LEMMA BodyIsBilled ==
  ASSUME ClientTyped
  PROVE  /\ UsageTotal = Billed(plan.tokens)
         /\ ResolveUsage(Body) = Billed(plan.tokens)
<1>1. /\ endpoint.shape \in Protocols /\ endpoint.place \in {"usage", "root", "data.usage"}
      /\ endpoint.total \in BOOLEAN /\ (endpoint.shape = "anthropic" => ~endpoint.total)
  BY DEF ClientTyped, Endpoints
<1>2. ResolveUsage(Body) = Billed(plan.tokens)
  BY <1>1, UsageIsBilled DEF Body, ClientTyped
<1> QED BY <1>2 DEF UsageTotal

\* The client begins before any request.
LEMMA ClientStarts == ClientInit => ClientInv
BY PlansAreBilled
   DEF ClientInit, ClientInv, ClientTyped, ExchangeFits, AnswerIsWhole, Idle, NothingYet

\* Every step of an exchange keeps what is known of its answer.
LEMMA ClientKeeps == ClientInv /\ [ClientNext]_clientVars => ClientInv'
<1> SUFFICES ASSUME ClientInv, [ClientNext]_clientVars PROVE ClientInv'
  OBVIOUS
<1> USE DEF ClientInv, ClientTyped, ExchangeFits, AnswerIsWhole
<1>1. CASE Ask
  <2>1. CASE Unbuildable(history)
    <3>1. /\ exchange' = [Idle EXCEPT !.state = "failed"]
          /\ UNCHANGED <<endpoint, plan, received>>
      BY <1>1, <2>1 DEF Ask
    <3> QED BY <3>1 DEF Idle
  <2>2. CASE ~Unbuildable(history)
    <3>1. plan'.tokens \in TokenCounts
      BY <1>1, <2>2, PlansAreBilled DEF Ask
    <3>2. /\ exchange.state = "idle" /\ exchange' = [Idle EXCEPT !.state = "sent"]
          /\ UNCHANGED <<endpoint, received>>
      BY <1>1, <2>2 DEF Ask
    <3> QED BY <3>1, <3>2 DEF Idle
  <2> QED BY <2>1, <2>2
<1>2. CASE SDKRetries
  BY <1>2 DEF SDKRetries
<1>3. CASE Fails
  BY <1>3 DEF Fails
<1>4. CASE CutOnce
  BY <1>4 DEF CutOnce
<1>5. CASE AnswerArrives
  BY <1>5, BodyIsBilled DEF AnswerArrives, Answers
<1>6. CASE StreamOpens
  BY <1>6 DEF StreamOpens, NothingYet, TotalFits
<1>7. CASE Chunk
  <2>1. /\ exchange.state = "stream" /\ received.pieces + 1 \in Nat
        /\ (received.pieces + 1 = plan.pieces) \in BOOLEAN
        /\ received' = [received EXCEPT !.pieces = received.pieces + 1,
                          !.finished = received.pieces + 1 = plan.pieces]
        /\ UNCHANGED <<endpoint, exchange, plan, answer>>
    BY <1>7 DEF Chunk
  <2>2. /\ received'.pieces = received.pieces + 1 /\ received'.total = received.total
        /\ received'.finished = (received.pieces + 1 = plan.pieces)
        /\ received' \in [pieces : Nat, finished : BOOLEAN, total : Nat]
    BY <2>1
  <2> QED BY <2>1, <2>2 DEF TotalFits
<1>8. CASE UsageChunk
  <2>1. /\ exchange.state = "stream"
        /\ received' = [received EXCEPT !.total = Billed(plan.tokens)]
        /\ UNCHANGED <<endpoint, exchange, plan, answer>>
    BY <1>8, BodyIsBilled DEF UsageChunk
  <2>2. Billed(plan.tokens) \in Nat
    BY DEF Billed, TokenCounts
  <2> QED BY <2>1, <2>2 DEF TotalFits
<1>9. CASE StreamEnds
  BY <1>9 DEF StreamEnds, StreamComplete, Answers, TotalFits
<1>10. CASE StreamBreaks
  BY <1>10 DEF StreamBreaks
<1>11. CASE GoOn
  BY <1>11, PlansAreBilled DEF GoOn, Idle, NothingYet
<1>12. CASE UNCHANGED clientVars
  BY <1>12 DEF clientVars, TotalFits
<1> QED BY <1>1, <1>2, <1>3, <1>4, <1>5, <1>6, <1>7, <1>8, <1>9, <1>10, <1>11, <1>12
        DEF ClientNext

\* What the loop goes on with is all the server had to say, and its usage is
\* what was billed in every dialect (client.go:435, usage_resolver.go:73).
THEOREM AnswersStayWhole == ClientSpec => []AnswerIsWhole
<1>1. ClientInv => AnswerIsWhole
  BY DEF ClientInv
<1> QED BY <1>1, ClientStarts, ClientKeeps, PTL DEF ClientSpec

-----------------------------------------------------------------------------
(* The calls on the wire. *)

CallId == (Nat \X Nat) \union {<<>>}

OneCall == [id : CallId, args : Arguments]

Calls == Seq(OneCall)

Message == [role : {"system", "user", "assistant", "tool"}, text : BOOLEAN,
            calls : Calls, id : CallId]

WireBlock == [kind : {"text", "call", "result"}, id : CallId]

\* The calls of a message are answered by as many tool messages that follow it,
\* and every tool message is one of them.
HistoryFits(h) ==
  /\ h \in Seq(Message)
  /\ \A i \in DOMAIN h : h[i].role # "assistant" => h[i].calls = <<>>
  /\ \A i \in DOMAIN h : \A c \in DOMAIN h[i].calls :
       i + c <= Len(h) /\ h[i + c].role = "tool" /\ h[i + c].id = h[i].calls[c].id
  /\ \A j \in DOMAIN h : h[j].role = "tool" =>
       \E i \in 1 .. j - 1 : j - i \in DOMAIN h[i].calls

\* Calls are numbered from 1.
LEMMA CallsNumbered ==
  ASSUME NEW calls \in Calls
  PROVE  /\ Len(calls) \in Nat /\ DOMAIN calls = 1 .. Len(calls)
         /\ \A c \in DOMAIN calls : c \in Nat /\ c >= 1 /\ calls[c].id \in CallId
<1>1. /\ Len(calls) \in Nat /\ DOMAIN calls = 1 .. Len(calls)
      /\ \A c \in 1 .. Len(calls) : calls[c] \in OneCall
  BY DEF Calls
<1>2. \A call \in OneCall : call.id \in CallId
  BY DEF OneCall
<1> QED BY <1>1, <1>2

\* The blocks of a message: a result, or the text and then the calls.
TextOf(m) == IF m.text THEN 1 ELSE 0

\* What a message says, block by block.
LEMMA SaidBlocks ==
  ASSUME NEW m \in Message
  PROVE  /\ Said(m) \in Seq(WireBlock)
         /\ m.role = "tool" => Said(m) = <<Block("result", m.id)>>
         /\ m.role # "tool" =>
              /\ Len(Said(m)) = TextOf(m) + Len(m.calls)
              /\ \A k \in 1 .. Len(Said(m)) :
                   \/ k = 1 /\ m.text /\ Said(m)[k] = Block("text", <<>>)
                   \/ /\ k - TextOf(m) \in DOMAIN m.calls
                      /\ Said(m)[k] = Block("call", m.calls[k - TextOf(m)].id)
              /\ \A c \in DOMAIN m.calls :
                   /\ TextOf(m) + c \in 1 .. Len(Said(m))
                   /\ Said(m)[TextOf(m) + c] = Block("call", m.calls[c].id)
<1>1. /\ m.calls \in Calls /\ m.text \in BOOLEAN /\ m.id \in CallId
      /\ Len(m.calls) \in Nat /\ DOMAIN m.calls = 1 .. Len(m.calls)
      /\ \A c \in 1 .. Len(m.calls) : m.calls[c].id \in CallId
  <2>1. m.calls \in Calls /\ m.text \in BOOLEAN /\ m.id \in CallId
    BY DEF Message
  <2> QED BY <2>1, CallsNumbered
<1>2. \A id \in CallId : /\ Block("result", id) \in WireBlock
                         /\ Block("call", id) \in WireBlock
                         /\ Block("text", <<>>) \in WireBlock
  BY DEF Block, WireBlock, CallId
<1>3. CASE m.role = "tool"
  BY <1>1, <1>2, <1>3 DEF Said
<1>4. CASE m.role # "tool"
  <2> DEFINE t == TextBlocks(m)
             b == CallBlocks(m)
  <2>1. Said(m) = t \o b
    BY <1>4 DEF Said
  <2>2. /\ t \in Seq(WireBlock) /\ Len(t) = TextOf(m)
        /\ (m.text => t[1] = Block("text", <<>>))
    BY <1>1, <1>2 DEF TextBlocks, TextOf
  <2>3. /\ b \in Seq(WireBlock) /\ Len(b) = Len(m.calls)
        /\ \A c \in 1 .. Len(m.calls) : b[c] = Block("call", m.calls[c].id)
    BY <1>1, <1>2 DEF CallBlocks
  <2>4. TextOf(m) \in {0, 1} /\ (m.text <=> TextOf(m) = 1)
    BY <1>1 DEF TextOf
  <2> HIDE DEF t, b
  <2>5. Said(m) \in Seq(WireBlock) /\ Len(Said(m)) = TextOf(m) + Len(m.calls)
    <3>1. t \in Seq(WireBlock) /\ b \in Seq(WireBlock)
      BY <2>2, <2>3
    <3>2. t \o b \in Seq(WireBlock) /\ Len(t \o b) = Len(t) + Len(b)
      BY <3>1
    <3> QED BY <2>1, <2>2, <2>3, <3>2
  <2>6. ASSUME NEW k \in 1 .. Len(Said(m))
        PROVE  \/ k = 1 /\ m.text /\ Said(m)[k] = Block("text", <<>>)
               \/ /\ k - TextOf(m) \in DOMAIN m.calls
                  /\ Said(m)[k] = Block("call", m.calls[k - TextOf(m)].id)
    <3>1. CASE k <= TextOf(m)
      <4>1. k = 1 /\ m.text /\ Said(m)[k] = t[k]
        BY <2>1, <2>2, <2>3, <2>4, <3>1
      <4> QED BY <4>1, <2>2
    <3>2. CASE k > TextOf(m)
      <4>1. k - TextOf(m) \in 1 .. Len(m.calls) /\ Said(m)[k] = b[k - TextOf(m)]
        <5>1. k \in 1 .. Len(t) + Len(b) /\ ~(k <= Len(t)) /\ k - TextOf(m) \in 1 .. Len(m.calls)
              /\ k - Len(t) = k - TextOf(m)
          BY <1>1, <2>2, <2>3, <2>4, <2>5, <3>2
        <5>2. t \in Seq(WireBlock) /\ b \in Seq(WireBlock)
          BY <2>2, <2>3
        <5>3. \A i \in 1 .. Len(t) + Len(b) : (t \o b)[i] = IF i <= Len(t) THEN t[i] ELSE b[i - Len(t)]
          BY ONLY <5>2, ConcatProperties
        <5>4. (t \o b)[k] = b[k - Len(t)]
          BY ONLY <5>1, <5>3
        <5> QED BY <2>1, <5>1, <5>4
      <4> QED BY <4>1, <1>1, <2>3
    <3> QED BY <2>4, <3>1, <3>2
  <2>7. ASSUME NEW c \in DOMAIN m.calls
        PROVE  /\ TextOf(m) + c \in 1 .. Len(Said(m))
               /\ Said(m)[TextOf(m) + c] = Block("call", m.calls[c].id)
    <3>1. TextOf(m) + c \in 1 .. Len(Said(m)) /\ Said(m)[TextOf(m) + c] = b[c]
      BY <1>1, <2>1, <2>2, <2>3, <2>4, <2>5
    <3> QED BY <3>1, <1>1, <2>3
  <2> QED BY <1>4, <2>5, <2>6, <2>7
<1> QED BY <1>3, <1>4

\* Every history of the loop is of this form.
HistoryInv ==
  /\ HistoryFits(history) /\ endpoint.protocol \in Protocols
  /\ plan.calls \in Calls /\ answer.calls \in Calls /\ turns \in Nat

\* An answer and the results of its calls keep the form.
LEMMA NextMessagesFit ==
  ASSUME NEW h, HistoryFits(h), NEW calls \in Calls, NEW text \in BOOLEAN
  PROVE  HistoryFits(h \o NextMessages(text, calls))
<1> DEFINE n == Len(h)
           answering == [role |-> "assistant", text |-> text, calls |-> calls, id |-> <<>>]
           results == [k \in DOMAIN calls |->
             [role |-> "tool", text |-> TRUE, calls |-> <<>>, id |-> calls[k].id]]
           more == NextMessages(text, calls)
           g == h \o more
<1>1. /\ h \in Seq(Message) /\ n \in Nat /\ DOMAIN h = 1 .. n
      /\ Len(calls) \in Nat /\ DOMAIN calls = 1 .. Len(calls)
      /\ \A c \in 1 .. Len(calls) : calls[c].id \in CallId
  BY CallsNumbered DEF HistoryFits
<1>2. answering \in Message
  BY DEF Message, CallId
<1>3. results \in Seq(Message) /\ Len(results) = Len(calls)
  <2>1. <<>> \in Calls
    BY DEF Calls
  <2> QED BY <1>1, <2>1 DEF Message
<1>4. /\ more \in Seq(Message) /\ Len(more) = 1 + Len(calls) /\ more[1] = answering
      /\ \A c \in 1 .. Len(calls) : more[1 + c] = results[c]
  <2>1. more = <<answering>> \o results
    BY DEF NextMessages
  <2> HIDE DEF more, answering, results
  <2> QED BY <1>1, <1>2, <1>3, <2>1
<1>5. \A c \in 1 .. Len(calls) : /\ results[c].role = "tool" /\ results[c].calls = <<>>
                                 /\ results[c].id = calls[c].id
  BY <1>1
<1>6. /\ answering.role = "assistant" /\ answering.calls = calls
  OBVIOUS
<1> HIDE DEF more, answering, results
<1>7. /\ g \in Seq(Message) /\ Len(g) = n + 1 + Len(calls)
      /\ \A i \in 1 .. n : g[i] = h[i]
      /\ g[n + 1] = answering
      /\ \A c \in 1 .. Len(calls) : g[n + 1 + c] = results[c]
  <2>1. /\ g \in Seq(Message) /\ Len(g) = n + (1 + Len(calls))
        /\ \A i \in 1 .. n : g[i] = h[i]
        /\ \A i \in 1 .. (1 + Len(calls)) : g[n + i] = more[i]
    <3>1. /\ g \in Seq(Message) /\ Len(g) = n + Len(more)
          /\ \A i \in 1 .. n + Len(more) : g[i] = IF i <= n THEN h[i] ELSE more[i - n]
      <4>1. h \in Seq(Message) /\ more \in Seq(Message)
        BY <1>1, <1>4
      <4> QED BY ONLY <4>1, ConcatProperties
    <3> HIDE DEF g
    <3>2. ASSUME NEW i \in 1 .. (1 + Len(calls)) PROVE g[n + i] = more[i]
      <4>1. n + i \in 1 .. n + Len(more) /\ ~(n + i <= n) /\ (n + i) - n = i
        BY <1>1, <1>4
      <4> QED BY <3>1, <4>1
    <3>3. \A i \in 1 .. n : i \in 1 .. n + Len(more) /\ i <= n
      BY <1>1, <1>4
    <3> QED BY <1>4, <3>1, <3>2, <3>3
  <2> HIDE DEF g
  <2>2. g[n + 1] = answering
    BY <1>1, <1>4, <2>1
  <2>3. ASSUME NEW c \in 1 .. Len(calls) PROVE g[n + 1 + c] = results[c]
    <3>1. 1 + c \in 1 .. (1 + Len(calls)) /\ n + (1 + c) = n + 1 + c
      BY <1>1
    <3> QED BY <1>4, <2>1, <3>1
  <2>4. n + (1 + Len(calls)) = n + 1 + Len(calls)
    BY <1>1
  <2> QED BY <2>1, <2>2, <2>3, <2>4
<1> HIDE DEF g
<1>8. \A j \in 1 .. Len(g) : j \in 1 .. n \/ j = n + 1
                             \/ \E c \in 1 .. Len(calls) : j = n + 1 + c
  <2> TAKE j \in 1 .. Len(g)
  <2>1. CASE j > n + 1
    <3>1. j - (n + 1) \in 1 .. Len(calls) /\ j = n + 1 + (j - (n + 1))
      BY <1>1, <1>7, <2>1
    <3> QED BY <3>1
  <2> QED BY <1>1, <2>1
<1>9. DOMAIN g = 1 .. Len(g) /\ Len(g) \in Nat
  BY <1>1, <1>7
<1>10. \A i \in DOMAIN g : g[i].role # "assistant" => g[i].calls = <<>>
  <2>1. \A i \in 1 .. n : g[i].role # "assistant" => g[i].calls = <<>>
    BY <1>1, <1>7 DEF HistoryFits
  <2>2. \A c \in 1 .. Len(calls) : g[n + 1 + c].calls = <<>>
    BY <1>5, <1>7
  <2>3. g[n + 1].role = "assistant"
    BY <1>6, <1>7
  <2> QED BY <1>8, <1>9, <2>1, <2>2, <2>3
<1>11. ASSUME NEW i \in DOMAIN g, NEW c \in DOMAIN g[i].calls
       PROVE  i + c <= Len(g) /\ g[i + c].role = "tool" /\ g[i + c].id = g[i].calls[c].id
  <2>1. CASE i \in 1 .. n
    <3>1. g[i] = h[i] /\ i + c <= n /\ h[i + c].role = "tool" /\ h[i + c].id = h[i].calls[c].id
      BY <1>1, <1>7, <2>1 DEF HistoryFits
    <3>2. c \in Nat /\ c >= 1
      <4>1. h[i].calls \in Calls /\ c \in DOMAIN h[i].calls
        <5>1. h[i] \in Message
          BY <1>1, <2>1
        <5> QED BY <3>1, <5>1 DEF Message
      <4> QED BY <4>1, CallsNumbered
    <3>3. i + c \in 1 .. n
      BY <1>1, <2>1, <3>1, <3>2
    <3> QED BY <1>1, <1>7, <3>1, <3>3
  <2>2. CASE i = n + 1
    BY <1>1, <1>5, <1>6, <1>7, <2>2
  <2>3. CASE \E d \in 1 .. Len(calls) : i = n + 1 + d
    BY <1>1, <1>5, <1>7, <2>3
  <2> QED BY <1>8, <1>9, <2>1, <2>2, <2>3
<1>12. ASSUME NEW j \in DOMAIN g, g[j].role = "tool"
       PROVE  \E i \in 1 .. j - 1 : j - i \in DOMAIN g[i].calls
  <2>1. CASE j \in 1 .. n
    <3>1. PICK i \in 1 .. j - 1 : j - i \in DOMAIN h[i].calls
      BY <1>1, <1>7, <1>12, <2>1 DEF HistoryFits
    <3>2. i \in 1 .. n
      BY <1>1, <2>1
    <3> QED BY <1>7, <3>1, <3>2
  <2>2. CASE j = n + 1
    BY <1>6, <1>7, <1>12, <2>2
  <2>3. CASE \E d \in 1 .. Len(calls) : j = n + 1 + d
    <3>1. PICK d \in 1 .. Len(calls) : j = n + 1 + d
      BY <2>3
    <3>2. n + 1 \in 1 .. j - 1 /\ j - (n + 1) = d
      BY <1>1, <3>1
    <3> QED BY <1>1, <1>6, <1>7, <3>2
  <2> QED BY <1>8, <1>9, <2>1, <2>2, <2>3
<1>13. HistoryFits(g)
  BY <1>7, <1>10, <1>11, <1>12 DEF HistoryFits
<1> QED BY <1>13 DEF g, more

\* A message without calls keeps it.
LEMMA OtherMessagesFit ==
  ASSUME NEW h, HistoryFits(h), NEW role \in {"user", "assistant"}
  PROVE  HistoryFits(Append(h, Text(role)))
<1> DEFINE n == Len(h)
           m == Text(role)
           g == Append(h, m)
<1>1. h \in Seq(Message) /\ n \in Nat /\ DOMAIN h = 1 .. n
  BY DEF HistoryFits
<1>2. m \in Message /\ m.calls = <<>> /\ m.role # "tool"
  BY DEF Text, Message, Calls, CallId
<1> HIDE DEF m
<1>3. /\ g \in Seq(Message) /\ Len(g) = n + 1 /\ g[n + 1] = m
      /\ \A i \in 1 .. n : g[i] = h[i]
  BY <1>1, <1>2
<1> HIDE DEF g
<1>4. DOMAIN g = 1 .. (n + 1) /\ \A i \in 1 .. (n + 1) : i \in 1 .. n \/ i = n + 1
  BY <1>1, <1>3
<1>5. \A i \in DOMAIN g : g[i].role # "assistant" => g[i].calls = <<>>
  BY <1>1, <1>2, <1>3, <1>4 DEF HistoryFits
<1>6. ASSUME NEW i \in DOMAIN g, NEW c \in DOMAIN g[i].calls
      PROVE  i + c <= Len(g) /\ g[i + c].role = "tool" /\ g[i + c].id = g[i].calls[c].id
  <2>1. i \in 1 .. n
    BY <1>2, <1>3, <1>4
  <2>2. g[i] = h[i] /\ i + c <= n /\ h[i + c].role = "tool" /\ h[i + c].id = h[i].calls[c].id
    BY <1>1, <1>3, <2>1 DEF HistoryFits
  <2>3. c \in Nat /\ c >= 1
    <3>1. h[i].calls \in Calls /\ c \in DOMAIN h[i].calls
      <4>1. h[i] \in Message
        BY <1>1, <2>1
      <4> QED BY <2>2, <4>1 DEF Message
    <3> QED BY <3>1, CallsNumbered
  <2>4. i + c \in 1 .. n
    BY <1>1, <2>1, <2>2, <2>3
  <2> QED BY <1>1, <1>3, <2>2, <2>4
<1>7. ASSUME NEW j \in DOMAIN g, g[j].role = "tool"
      PROVE  \E i \in 1 .. j - 1 : j - i \in DOMAIN g[i].calls
  <2>1. j \in 1 .. n
    BY <1>2, <1>3, <1>4, <1>7
  <2>2. PICK i \in 1 .. j - 1 : j - i \in DOMAIN h[i].calls
    BY <1>1, <1>3, <1>7, <2>1 DEF HistoryFits
  <2>3. i \in 1 .. n
    BY <1>1, <2>1
  <2> QED BY <1>3, <2>2, <2>3
<1>8. HistoryFits(g)
  BY <1>3, <1>5, <1>6, <1>7 DEF HistoryFits
<1> QED BY <1>8 DEF g, m

\* The loop starts with such a history, and every step keeps it.
LEMMA HistoryKept ==
  /\ ClientInit => HistoryInv
  /\ HistoryInv /\ [ClientNext]_clientVars => HistoryInv'
<1>1. /\ <<>> \in Calls /\ NoPlan.calls = <<>> /\ NoAnswer.calls = <<>>
  BY DEF Calls, NoPlan, NoAnswer
<1>2. ASSUME NEW n \in Nat, NEW p \in Plans(n) PROVE p.calls \in Calls
  <2>1. PICK c \in 0 .. MaxCalls :
          \E a \in [1 .. c -> Arguments] :
            p.calls = [k \in 1 .. c |-> [id |-> <<n, k>>, args |-> a[k]]]
    <3> DEFINE Of(c) == {[k \in 1 .. c |-> [id |-> <<n, k>>, args |-> a[k]]] :
                           a \in [1 .. c -> Arguments]}
    <3>1. p.calls \in UNION {Of(c) : c \in 0 .. MaxCalls}
      BY DEF Plans
    <3>2. PICK c \in 0 .. MaxCalls : p.calls \in Of(c)
      <4> HIDE DEF Of
      <4> QED BY <3>1
    <3> QED BY <3>2
  <2>2. PICK a \in [1 .. c -> Arguments] :
          p.calls = [k \in 1 .. c |-> [id |-> <<n, k>>, args |-> a[k]]]
    BY <2>1
  <2>3. c \in Nat
    BY ClientAssumption
  <2>4. \A k \in 1 .. c : [id |-> <<n, k>>, args |-> a[k]] \in OneCall
    BY <2>2, <2>3 DEF OneCall, CallId
  <2> QED BY <2>2, <2>3, <2>4 DEF Calls
<1>3. ClientInit => HistoryInv
  <2> SUFFICES ASSUME ClientInit PROVE HistoryInv
    OBVIOUS
  <2>1. Text("system") \in Message /\ Text("user") \in Message
    BY <1>1 DEF Text, Message, CallId
  <2>2. /\ history = <<Text("system"), Text("user")>>
        /\ \A r : Text(r).role = r /\ Text(r).calls = <<>>
    BY DEF ClientInit, Text
  <2>3. HistoryFits(history)
    BY <2>1, <2>2 DEF HistoryFits
  <2> QED BY <1>1, <2>3 DEF HistoryInv, ClientInit, Endpoints
<1>4. ASSUME HistoryInv, [ClientNext]_clientVars PROVE HistoryInv'
  <2> USE <1>4 DEF HistoryInv
  <2>1. CASE Ask
    <3>1. /\ turns' = turns + 1 /\ UNCHANGED <<endpoint, history, answer>>
          /\ UNCHANGED plan \/ plan' \in Plans(turns + 1)
      BY <2>1 DEF Ask
    <3>2. turns + 1 \in Nat
      OBVIOUS
    <3>3. plan'.calls \in Calls
      BY <1>2, <3>1, <3>2
    <3> QED BY <3>1, <3>2, <3>3
  <2>2. CASE AnswerArrives \/ StreamEnds
    <3>1. /\ UNCHANGED <<endpoint, history, turns, plan>>
          /\ UNCHANGED answer \/ answer'.calls = plan.calls
      BY <2>2 DEF AnswerArrives, StreamEnds, Answers
    <3> QED BY <3>1
  <2>3. CASE GoOn
    <3>1. PICK text \in BOOLEAN :
            history' = history \o
              IF answer.calls # <<>> THEN NextMessages(text, answer.calls)
              ELSE (IF text THEN <<Text("assistant")>> ELSE <<>>) \o <<Text("user")>>
      BY <2>3 DEF GoOn
    <3>2. /\ plan' = NoPlan /\ answer' = NoAnswer /\ UNCHANGED <<endpoint, turns>>
      BY <2>3 DEF GoOn
    <3>3. HistoryFits(history')
      <4>1. CASE answer.calls # <<>>
        BY <3>1, <4>1, NextMessagesFit
      <4>2. CASE answer.calls = <<>> /\ text
        <5>1. history \in Seq(Message) /\ HistoryFits(Append(history, Text("assistant")))
          <6>1. HistoryFits(history)
            OBVIOUS
          <6>2. HistoryFits(Append(history, Text("assistant")))
            BY ONLY <6>1, OtherMessagesFit
          <6> QED BY <6>1, <6>2 DEF HistoryFits
        <5>2. history' = history \o (<<Text("assistant")>> \o <<Text("user")>>)
          BY <3>1, <4>2
        <5>3. history' = Append(Append(history, Text("assistant")), Text("user"))
          BY <5>1, <5>2
        <5> QED BY <5>1, <5>3, OtherMessagesFit
      <4>3. CASE answer.calls = <<>> /\ ~text
        <5>1. history \in Seq(Message)
          BY DEF HistoryFits
        <5>2. history' = history \o (<<>> \o <<Text("user")>>)
          BY <3>1, <4>3
        <5>3. history' = Append(history, Text("user"))
          BY <5>1, <5>2
        <5> QED BY <5>3, OtherMessagesFit
      <4> QED BY <4>1, <4>2, <4>3
    <3> QED BY <1>1, <3>2, <3>3
  <2>4. CASE SDKRetries \/ Fails \/ CutOnce \/ StreamOpens \/ Chunk \/ UsageChunk
             \/ StreamBreaks \/ UNCHANGED clientVars
    <3>1. UNCHANGED <<endpoint, history, turns, plan, answer>>
      BY <2>4 DEF SDKRetries, Fails, CutOnce, StreamOpens, Chunk, UsageChunk, StreamBreaks,
                  clientVars
    <3> QED BY <3>1
  <2> QED BY <2>1, <2>2, <2>3, <2>4 DEF ClientNext
<1> QED BY <1>3, <1>4

\* What a message is and says, for a history that fits.
LEMMA CallsInHistory ==
  ASSUME NEW h, HistoryFits(h), NEW i \in 1 .. Len(h), NEW k \in 1 .. Len(Said(h[i]))
  PROVE  /\ Said(h[i])[k].kind = "text" => k = 1
         /\ Said(h[i])[k].kind = "call" =>
              \E c \in DOMAIN h[i].calls :
                /\ k = TextOf(h[i]) + c /\ h[i].role = "assistant" /\ i + c \in 1 .. Len(h)
                /\ Said(h[i])[k].id = h[i].calls[c].id
                /\ Said(h[i + c]) = <<Block("result", Said(h[i])[k].id)>>
                /\ \A m \in i + 1 .. i + c :
                     /\ h[m].role = "tool" /\ Len(Said(h[m])) = 1
                     /\ Said(h[m])[1].kind = "result"
         /\ Said(h[i])[k].kind = "result" =>
              /\ k = 1 /\ h[i].role = "tool" /\ Said(h[i]) = <<Block("result", h[i].id)>>
              /\ \E j \in 1 .. i - 1 : \E l \in 1 .. Len(Said(h[j])) :
                   h[j].role = "assistant" /\ Said(h[j])[l] = Block("call", h[i].id)
<1>1. /\ Len(h) \in Nat /\ DOMAIN h = 1 .. Len(h)
      /\ \A m \in 1 .. Len(h) : h[m] \in Message /\ h[m].calls \in Calls
  <2>1. /\ Len(h) \in Nat /\ DOMAIN h = 1 .. Len(h)
        /\ \A m \in 1 .. Len(h) : h[m] \in Message
    BY DEF HistoryFits
  <2>2. \A m \in Message : m.calls \in Calls
    BY DEF Message
  <2> QED BY <2>1, <2>2
<1>2. ASSUME NEW kind, NEW id PROVE Block(kind, id).kind = kind /\ Block(kind, id).id = id
  BY DEF Block
<1>3. \A j \in 1 .. Len(h) : h[j].role = "tool" =>
        /\ Said(h[j]) = <<Block("result", h[j].id)>> /\ Len(Said(h[j])) = 1
        /\ Said(h[j])[1].kind = "result"
  BY <1>1, <1>2, SaidBlocks
<1>4. CASE h[i].role = "tool"
  <2>1. k = 1 /\ Said(h[i])[k].kind = "result"
    <3>1. Len(Said(h[i])) = 1 /\ Said(h[i])[1].kind = "result"
      BY <1>3, <1>4
    <3>2. \A n \in 1 .. 1 : n = 1
      OBVIOUS
    <3> QED BY <3>1, <3>2
  <2>2. PICK j \in 1 .. i - 1 : i - j \in DOMAIN h[j].calls
    BY <1>1, <1>4 DEF HistoryFits
  <2>3. j \in 1 .. Len(h) /\ j + (i - j) = i
    BY <1>1
  <2>4. h[j].calls # <<>>
    BY <1>1, <2>2, <2>3, CallsNumbered
  <2>5. h[j].role = "assistant" /\ h[i].id = h[j].calls[i - j].id
    BY <1>1, <2>2, <2>3, <2>4 DEF HistoryFits
  <2>6. \E l \in 1 .. Len(Said(h[j])) : Said(h[j])[l] = Block("call", h[i].id)
    <3>1. h[j] \in Message /\ h[j].role # "tool"
      BY <1>1, <2>3, <2>5
    <3>2. /\ TextOf(h[j]) + (i - j) \in 1 .. Len(Said(h[j]))
          /\ Said(h[j])[TextOf(h[j]) + (i - j)] = Block("call", h[j].calls[i - j].id)
      BY ONLY <2>2, <3>1, SaidBlocks
    <3> QED BY <2>5, <3>2
  <2> QED BY <1>3, <1>4, <2>1, <2>5, <2>6
<1>5. CASE h[i].role # "tool"
  <2>1. \/ k = 1 /\ Said(h[i])[k].kind = "text"
        \/ /\ k - TextOf(h[i]) \in DOMAIN h[i].calls
           /\ Said(h[i])[k] = Block("call", h[i].calls[k - TextOf(h[i])].id)
    BY <1>1, <1>2, <1>5, SaidBlocks
  <2>2. CASE k = 1 /\ Said(h[i])[k].kind = "text"
    BY <2>2
  <2>3. ASSUME NEW c \in DOMAIN h[i].calls, c = k - TextOf(h[i]),
               Said(h[i])[k] = Block("call", h[i].calls[c].id)
        PROVE  /\ Said(h[i])[k].kind = "call"
               /\ k = TextOf(h[i]) + c /\ h[i].role = "assistant" /\ i + c \in 1 .. Len(h)
               /\ Said(h[i])[k].id = h[i].calls[c].id
               /\ Said(h[i + c]) = <<Block("result", Said(h[i])[k].id)>>
               /\ \A m \in i + 1 .. i + c :
                    /\ h[m].role = "tool" /\ Len(Said(h[m])) = 1
                    /\ Said(h[m])[1].kind = "result"
    <3>1. /\ c \in Nat /\ c >= 1 /\ c <= Len(h[i].calls) /\ Len(h[i].calls) \in Nat
          /\ DOMAIN h[i].calls = 1 .. Len(h[i].calls)
      BY <1>1, CallsNumbered
    <3>2. k = TextOf(h[i]) + c
      BY <2>3, <3>1 DEF TextOf
    <3>6. \A d \in DOMAIN h[i].calls :
            i + d <= Len(h) /\ h[i + d].role = "tool" /\ h[i + d].id = h[i].calls[d].id
      BY <1>1 DEF HistoryFits
    <3>3. i + c \in 1 .. Len(h) /\ h[i + c].role = "tool" /\ h[i + c].id = h[i].calls[c].id
      <4>1. i + c <= Len(h) /\ h[i + c].role = "tool" /\ h[i + c].id = h[i].calls[c].id
        BY <3>6
      <4> QED BY <1>1, <3>1, <4>1
    <3>4. h[i].role = "assistant"
      <4>1. h[i].calls # <<>>
        BY <3>1
      <4> QED BY <1>1, <4>1 DEF HistoryFits
    <3>5. ASSUME NEW m \in i + 1 .. i + c PROVE h[m].role = "tool" /\ m \in 1 .. Len(h)
      <4>1. m - i \in DOMAIN h[i].calls /\ i + (m - i) = m /\ m \in 1 .. Len(h)
        BY <1>1, <3>1, <3>3
      <4>2. h[i + (m - i)].role = "tool"
        BY <3>6, <4>1
      <4> QED BY <4>1, <4>2
    <3> QED BY <1>2, <1>3, <2>3, <3>2, <3>3, <3>4, <3>5
  <2> QED BY <2>1, <2>2, <2>3
<1> QED BY <1>4, <1>5

\* What CallsAnsweredAtOnce asks of a wire form in every protocol.
WireFits(w) ==
  \A i \in DOMAIN w : \A k \in DOMAIN w[i].blocks :
    /\ w[i].blocks[k].kind = "call" => Answered(w, i, k)
    /\ w[i].blocks[k].kind = "result" => Asked(w, i, k)

WireItem == [role : {"system", "user", "assistant", "tool"}, blocks : Seq(WireBlock)]

\* What is sent of each message: what it says, but nothing of a system message
\* where it is an instruction, and an empty text where it says nothing.
Sent(h, sent) ==
  \A i \in 1 .. Len(h) :
    /\ sent[i] \in Seq(WireBlock)
    /\ \/ sent[i] = Said(h[i])
       \/ h[i].role = "system" /\ sent[i] = <<>>
       \/ h[i].role # "tool" /\ Said(h[i]) = <<>> /\ sent[i] = <<Block("text", <<>>)>>

\* Block k of message i stands at place at[i][k] of the wire's message in[i][k],
\* in the order of the history, and the wire has nothing else; whole: the blocks
\* of a message stay together.
Placed(sent, n, w, to, at, whole) ==
  /\ \A i \in 1 .. n : \A k \in 1 .. Len(sent[i]) :
       /\ to[i][k] \in 1 .. Len(w) /\ at[i][k] \in 1 .. Len(w[to[i][k]].blocks)
       /\ w[to[i][k]].blocks[at[i][k]] = sent[i][k]
       /\ whole => to[i][k] = to[i][1]
  /\ \A i, j \in 1 .. n : \A k \in 1 .. Len(sent[i]) : \A l \in 1 .. Len(sent[j]) :
       Before(i, k, j, l) => Before(to[i][k], at[i][k], to[j][l], at[j][l])
  /\ \A x \in 1 .. Len(w) : \A y \in 1 .. Len(w[x].blocks) :
       \E i \in 1 .. n : \E k \in 1 .. Len(sent[i]) : to[i][k] = x /\ at[i][k] = y

\* The order on the wire is the order of the history.
LEMMA SameOrder ==
  ASSUME NEW sent, NEW n \in Nat, NEW w \in Seq(WireItem), NEW to, NEW at, NEW whole,
         Placed(sent, n, w, to, at, whole), \A m \in 1 .. n : Len(sent[m]) \in Nat,
         NEW i \in 1 .. n, NEW k \in 1 .. Len(sent[i]),
         NEW j \in 1 .. n, NEW l \in 1 .. Len(sent[j]),
         Before(to[i][k], at[i][k], to[j][l], at[j][l])
  PROVE  Before(i, k, j, l)
<1>1. /\ i \in Int /\ j \in Int /\ k \in Int /\ l \in Int
      /\ to[i][k] \in Int /\ at[i][k] \in Int /\ to[j][l] \in Int /\ at[j][l] \in Int
  <2>1. /\ i \in Int /\ j \in Int /\ k \in Int /\ l \in Int
    <3>1. Len(sent[i]) \in Nat /\ Len(sent[j]) \in Nat
      OBVIOUS
    <3> QED BY <3>1
  <2>2. Len(w) \in Nat /\ \A x \in 1 .. Len(w) : Len(w[x].blocks) \in Nat
    <3>1. Len(w) \in Nat /\ \A x \in 1 .. Len(w) : w[x] \in WireItem
      OBVIOUS
    <3>2. \A m \in WireItem : Len(m.blocks) \in Nat
      BY DEF WireItem
    <3> QED BY <3>1, <3>2
  <2>3. /\ to[i][k] \in 1 .. Len(w) /\ at[i][k] \in 1 .. Len(w[to[i][k]].blocks)
        /\ to[j][l] \in 1 .. Len(w) /\ at[j][l] \in 1 .. Len(w[to[j][l]].blocks)
    BY DEF Placed
  <2> QED BY <2>1, <2>2, <2>3
<1>2. \/ Before(i, k, j, l) \/ Before(j, l, i, k) \/ (i = j /\ k = l)
  BY <1>1 DEF Before
<1>3. ~(to[i][k] = to[j][l] /\ at[i][k] = at[j][l])
  BY <1>1 DEF Before
<1>4. ~Before(to[j][l], at[j][l], to[i][k], at[i][k])
  BY <1>1 DEF Before
<1>5. ~Before(j, l, i, k)
  BY <1>4 DEF Placed
<1> QED BY <1>2, <1>3, <1>5

\* Only results stand between the message of a call and its result.
ResultsNext(sent, n) ==
  \A i \in 1 .. n : \A k \in 1 .. Len(sent[i]) : sent[i][k].kind = "call" =>
    \E j \in 1 .. n :
      /\ i < j /\ 1 \in 1 .. Len(sent[j])
      /\ sent[j][1] = Block("result", sent[i][k].id)
      /\ \A m \in i + 1 .. j : Len(sent[m]) = 1 /\ sent[m][1].kind = "result"

\* A history that fits, in its order on the wire, is what the protocols ask.
LEMMA PlacedFits ==
  ASSUME NEW h, HistoryFits(h), NEW sent, Sent(h, sent), NEW w \in Seq(WireItem),
         NEW to, NEW at, NEW whole, Placed(sent, Len(h), w, to, at, whole)
  PROVE  WireFits(w) /\ ResultsNext(sent, Len(h))
<1>1. Len(h) \in Nat /\ DOMAIN h = 1 .. Len(h) /\ \A i \in 1 .. Len(h) : h[i] \in Message
  BY DEF HistoryFits
<1>2. ASSUME NEW kind, NEW id PROVE Block(kind, id).kind = kind /\ Block(kind, id).id = id
  BY DEF Block
<1>3. ASSUME NEW i \in 1 .. Len(h), NEW k \in 1 .. Len(sent[i]), sent[i][k].kind # "text"
      PROVE  sent[i] = Said(h[i])
  <2>1. CASE sent[i] = <<>>
    BY <2>1
  <2>2. CASE sent[i] = <<Block("text", <<>>)>>
    <3>1. sent[i][1].kind = "text" /\ Len(sent[i]) = 1
      BY <1>2, <2>2
    <3>2. k = 1
      BY <3>1
    <3> QED BY <1>3, <3>1, <3>2
  <2> QED BY <2>1, <2>2 DEF Sent
<1>4. ASSUME NEW i \in 1 .. Len(h), h[i].role = "tool" PROVE sent[i] = Said(h[i])
  BY <1>4 DEF Sent
<1>5. ASSUME NEW i \in 1 .. Len(h), NEW k \in 1 .. Len(sent[i]), sent[i][k].kind = "call"
      PROVE  \E j \in 1 .. Len(h) :
               /\ i < j /\ 1 \in 1 .. Len(sent[j])
               /\ sent[j][1] = Block("result", sent[i][k].id)
               /\ \A m \in i + 1 .. j : Len(sent[m]) = 1 /\ sent[m][1].kind = "result"
               /\ \A n \in 1 .. Len(sent[i]) : k < n => sent[i][n].kind # "text"
  <2>1. sent[i] = Said(h[i])
    BY <1>3, <1>5
  <2>2. PICK c \in DOMAIN h[i].calls :
          /\ i + c \in 1 .. Len(h)
          /\ Said(h[i + c]) = <<Block("result", sent[i][k].id)>>
          /\ \A m \in i + 1 .. i + c :
               h[m].role = "tool" /\ Len(Said(h[m])) = 1 /\ Said(h[m])[1].kind = "result"
    <3>1. k \in 1 .. Len(Said(h[i])) /\ Said(h[i])[k].kind = "call"
      BY <1>5, <2>1
    <3> QED BY <2>1, <3>1, CallsInHistory
  <2>3. c \in Nat /\ c >= 1
    <3>1. h[i].calls \in Calls
      BY <1>1 DEF Message
    <3> QED BY <3>1, CallsNumbered
  <2>4. \A m \in i + 1 .. i + c : m \in 1 .. Len(h)
    BY <1>1, <2>2, <2>3
  <2>5. \A m \in i + 1 .. i + c : sent[m] = Said(h[m])
    BY <1>4, <2>2, <2>4
  <2>6. i + c \in i + 1 .. i + c /\ i < i + c
    BY <1>1, <2>3
  <2>7. \A n \in 1 .. Len(sent[i]) : k < n => sent[i][n].kind # "text"
    <3> TAKE n \in 1 .. Len(sent[i])
    <3>1. n \in 1 .. Len(Said(h[i])) /\ (Said(h[i])[n].kind = "text" => n = 1)
      BY <2>1, CallsInHistory
    <3>2. k \in Nat /\ k >= 1
      <4>1. Len(sent[i]) \in Nat
        BY DEF Sent
      <4> QED BY <4>1
    <3> QED BY <2>1, <3>1, <3>2
  <2>8. Len(sent[i + c]) = 1 /\ sent[i + c][1] = Block("result", sent[i][k].id)
    BY <2>2, <2>5, <2>6
  <2>9. \A m \in i + 1 .. i + c : Len(sent[m]) = 1 /\ sent[m][1].kind = "result"
    BY <2>2, <2>5
  <2> DEFINE j == i + c
  <2>10. j \in 1 .. Len(h) /\ i < j /\ 1 \in 1 .. Len(sent[j])
    BY <2>2, <2>6, <2>8
  <2> QED BY <2>7, <2>8, <2>9, <2>10
<1>6. /\ DOMAIN w = 1 .. Len(w)
      /\ \A x \in 1 .. Len(w) : DOMAIN w[x].blocks = 1 .. Len(w[x].blocks)
  <2>1. \A x \in 1 .. Len(w) : w[x] \in WireItem
    OBVIOUS
  <2>2. \A x \in 1 .. Len(w) : w[x].blocks \in Seq(WireBlock)
    BY <2>1 DEF WireItem
  <2> QED BY <2>2
<1>11. \A x \in DOMAIN w : \A y \in DOMAIN w[x].blocks :
         \E i \in 1 .. Len(h) : \E k \in 1 .. Len(sent[i]) : to[i][k] = x /\ at[i][k] = y
  <2>1. \A x \in 1 .. Len(w) : \A y \in 1 .. Len(w[x].blocks) :
         \E i \in 1 .. Len(h) : \E k \in 1 .. Len(sent[i]) : to[i][k] = x /\ at[i][k] = y
    BY DEF Placed
  <2> TAKE x \in DOMAIN w
  <2>2. x \in 1 .. Len(w)
    BY <1>6
  <2> TAKE y \in DOMAIN w[x].blocks
  <2>3. y \in 1 .. Len(w[x].blocks)
    BY <1>6, <2>2
  <2> QED BY <2>1, <2>2, <2>3
<1>12. \A i \in 1 .. Len(h) : Len(sent[i]) \in Nat
  BY DEF Sent
<1>7. ASSUME NEW i \in 1 .. Len(h), NEW k \in 1 .. Len(sent[i])
      PROVE  /\ to[i][k] \in DOMAIN w /\ at[i][k] \in DOMAIN w[to[i][k]].blocks
             /\ w[to[i][k]].blocks[at[i][k]] = sent[i][k]
  <2>1. /\ to[i][k] \in 1 .. Len(w) /\ at[i][k] \in 1 .. Len(w[to[i][k]].blocks)
        /\ w[to[i][k]].blocks[at[i][k]] = sent[i][k]
    BY DEF Placed
  <2> QED BY <1>6, <2>1
<1>8. ASSUME NEW i \in 1 .. Len(h), NEW k \in 1 .. Len(sent[i]), sent[i][k].kind = "call"
      PROVE  Answered(w, to[i][k], at[i][k])
  <2>1. PICK j \in 1 .. Len(h) :
          /\ i < j /\ 1 \in 1 .. Len(sent[j])
          /\ sent[j][1] = Block("result", sent[i][k].id)
          /\ \A m \in i + 1 .. j : Len(sent[m]) = 1 /\ sent[m][1].kind = "result"
          /\ \A n \in 1 .. Len(sent[i]) : k < n => sent[i][n].kind # "text"
    BY <1>5, <1>8
  <2>2. Before(to[i][k], at[i][k], to[j][1], at[j][1])
    BY <2>1 DEF Placed, Before
  <2>3. ASSUME NEW x \in DOMAIN w, NEW y \in DOMAIN w[x].blocks,
               Before(to[i][k], at[i][k], x, y), Before(x, y, to[j][1], at[j][1])
        PROVE  w[x].blocks[y].kind # "text"
    <3>1. PICK m \in 1 .. Len(h) : \E n \in 1 .. Len(sent[m]) : to[m][n] = x /\ at[m][n] = y
      BY <1>11
    <3>2. PICK n \in 1 .. Len(sent[m]) : to[m][n] = x /\ at[m][n] = y
      BY <3>1
    <3>3. Before(i, k, m, n) /\ Before(m, n, j, 1)
      BY <1>1, <1>12, <2>1, <2>3, <3>2, SameOrder
    <3>4. w[x].blocks[y] = sent[m][n]
      BY <1>7, <3>2
    <3>5. CASE m = i
      BY <1>1, <2>1, <3>3, <3>4, <3>5 DEF Before
    <3>6. CASE m # i
      <4>1. m \in i + 1 .. j
        BY <1>1, <3>3, <3>6 DEF Before
      <4>2. n = 1
        <5>1. Len(sent[m]) = 1 /\ n \in 1 .. Len(sent[m])
          BY <2>1, <4>1
        <5> QED BY <5>1
      <4> QED BY <2>1, <3>4, <4>1, <4>2
    <3> QED BY <3>5, <3>6
  <2>4. /\ to[j][1] \in DOMAIN w /\ at[j][1] \in DOMAIN w[to[j][1]].blocks
        /\ w[to[j][1]].blocks[at[j][1]] = Block("result", w[to[i][k]].blocks[at[i][k]].id)
    BY <1>7, <2>1
  <2> QED BY <2>2, <2>3, <2>4 DEF Answered
<1>9. ASSUME NEW i \in 1 .. Len(h), NEW k \in 1 .. Len(sent[i]), sent[i][k].kind = "result"
      PROVE  Asked(w, to[i][k], at[i][k])
  <2>1. sent[i] = Said(h[i])
    BY <1>3, <1>9
  <2>2. /\ k = 1 /\ Said(h[i]) = <<Block("result", h[i].id)>>
        /\ \E j \in 1 .. i - 1 : \E l \in 1 .. Len(Said(h[j])) :
             Said(h[j])[l] = Block("call", h[i].id)
    BY <1>9, <2>1, CallsInHistory
  <2>3. PICK j \in 1 .. i - 1 : \E l \in 1 .. Len(Said(h[j])) :
               Said(h[j])[l] = Block("call", h[i].id)
    BY <2>2
  <2>4. PICK l \in 1 .. Len(Said(h[j])) : Said(h[j])[l] = Block("call", h[i].id)
    BY <2>3
  <2>5. j \in 1 .. Len(h) /\ j < i
    BY <1>1
  <2>6. sent[j] = Said(h[j])
    <3>1. Said(h[j])[l].kind = "call"
      BY <1>2, <2>4
    <3>2. Said(h[j]) # <<>> /\ h[j].role # "system"
      <4>1. Said(h[j]) # <<>>
        BY <2>4
      <4> QED BY <2>5, <3>1, <4>1, CallsInHistory
    <3> QED BY <2>5, <3>2 DEF Sent
  <2>7. Before(j, l, i, k)
    BY <2>5 DEF Before
  <2>8. Before(to[j][l], at[j][l], to[i][k], at[i][k])
    BY <2>5, <2>6, <2>7 DEF Placed
  <2>9. sent[i][k].id = h[i].id
    BY <1>2, <2>1, <2>2
  <2>10. l \in 1 .. Len(sent[j]) /\ sent[j][l] = Block("call", h[i].id)
    BY <2>4, <2>6
  <2>11. /\ to[j][l] \in DOMAIN w /\ at[j][l] \in DOMAIN w[to[j][l]].blocks
         /\ w[to[j][l]].blocks[at[j][l]] = Block("call", w[to[i][k]].blocks[at[i][k]].id)
    BY <1>7, <2>5, <2>9, <2>10
  <2> QED BY <2>8, <2>11 DEF Asked
<1>10. WireFits(w)
  <2> SUFFICES ASSUME NEW x \in DOMAIN w, NEW y \in DOMAIN w[x].blocks
               PROVE  /\ w[x].blocks[y].kind = "call" => Answered(w, x, y)
                      /\ w[x].blocks[y].kind = "result" => Asked(w, x, y)
    BY DEF WireFits
  <2>1. PICK i \in 1 .. Len(h) : \E k \in 1 .. Len(sent[i]) : to[i][k] = x /\ at[i][k] = y
    BY <1>11
  <2>2. PICK k \in 1 .. Len(sent[i]) : to[i][k] = x /\ at[i][k] = y
    BY <2>1
  <2> QED BY <1>7, <1>8, <1>9, <2>2
<1>13. ResultsNext(sent, Len(h))
  BY <1>5 DEF ResultsNext
<1> QED BY <1>10, <1>13

\* Every block of w is where it was.
Stays(w, v) ==
  \A x \in 1 .. Len(w) :
    /\ x \in 1 .. Len(v)
    /\ \A y \in 1 .. Len(w[x].blocks) :
         y \in 1 .. Len(v[x].blocks) /\ v[x].blocks[y] = w[x].blocks[y]

\* Block k of a message is put at place q[k] of v's message p[k], after all of w.
PutAfter(blocks, w, v, p, q, whole) ==
  /\ \A k \in 1 .. Len(blocks) :
       /\ p[k] \in 1 .. Len(v) /\ q[k] \in 1 .. Len(v[p[k]].blocks)
       /\ v[p[k]].blocks[q[k]] = blocks[k]
       /\ whole => p[k] = p[1]
       /\ \A x \in 1 .. Len(w) : \A y \in 1 .. Len(w[x].blocks) : Before(x, y, p[k], q[k])
       /\ \A l \in 1 .. Len(blocks) : k < l => Before(p[k], q[k], p[l], q[l])
  /\ \A x \in 1 .. Len(v) : \A y \in 1 .. Len(v[x].blocks) :
       \/ x \in 1 .. Len(w) /\ y \in 1 .. Len(w[x].blocks)
       \/ \E k \in 1 .. Len(blocks) : p[k] = x /\ q[k] = y

\* A message whose blocks are put after the wire's is placed with the others.
LEMMA OneMorePlaced ==
  ASSUME NEW sent, NEW n \in Nat, NEW w, NEW to, NEW at, NEW whole,
         Placed(sent, n, w, to, at, whole), NEW v, NEW p, NEW q,
         Stays(w, v), PutAfter(sent[n + 1], w, v, p, q, whole)
  PROVE  \E to2, at2 : Placed(sent, n + 1, v, to2, at2, whole)
<1> DEFINE t == [i \in 1 .. n + 1 |-> IF i = n + 1 THEN p ELSE to[i]]
           a == [i \in 1 .. n + 1 |-> IF i = n + 1 THEN q ELSE at[i]]
<1> USE DEF Stays, PutAfter
<1>1. t[n + 1] = p /\ a[n + 1] = q
  OBVIOUS
<1>2. \A i \in 1 .. n : t[i] = to[i] /\ a[i] = at[i]
  OBVIOUS
<1>3. \A i \in 1 .. n + 1 : i \in 1 .. n \/ i = n + 1
  OBVIOUS
<1> HIDE DEF t, a
<1>4. ASSUME NEW i \in 1 .. n + 1, NEW k \in 1 .. Len(sent[i])
      PROVE  /\ t[i][k] \in 1 .. Len(v) /\ a[i][k] \in 1 .. Len(v[t[i][k]].blocks)
             /\ v[t[i][k]].blocks[a[i][k]] = sent[i][k]
             /\ whole => t[i][k] = t[i][1]
  <2>1. CASE i = n + 1
    BY <1>1, <2>1
  <2>2. CASE i \in 1 .. n
    <3>1. /\ to[i][k] \in 1 .. Len(w) /\ at[i][k] \in 1 .. Len(w[to[i][k]].blocks)
          /\ w[to[i][k]].blocks[at[i][k]] = sent[i][k]
          /\ whole => to[i][k] = to[i][1]
      BY <2>2 DEF Placed
    <3>2. to[i][k] \in 1 .. Len(v) /\ at[i][k] \in 1 .. Len(v[to[i][k]].blocks)
          /\ v[to[i][k]].blocks[at[i][k]] = w[to[i][k]].blocks[at[i][k]]
      BY <3>1
    <3>3. t[i] = to[i] /\ a[i] = at[i]
      BY <1>2, <2>2
    <3> QED BY <3>1, <3>2, <3>3
  <2> QED BY <1>3, <2>1, <2>2
<1>5. ASSUME NEW i \in 1 .. n + 1, NEW j \in 1 .. n + 1, NEW k \in 1 .. Len(sent[i]),
             NEW l \in 1 .. Len(sent[j]), Before(i, k, j, l)
      PROVE  Before(t[i][k], a[i][k], t[j][l], a[j][l])
  <2>1. CASE i \in 1 .. n /\ j \in 1 .. n
    <3>1. Before(to[i][k], at[i][k], to[j][l], at[j][l])
      BY <1>5, <2>1 DEF Placed
    <3> QED BY <1>2, <2>1, <3>1
  <2>2. CASE i \in 1 .. n /\ j = n + 1
    <3>1. to[i][k] \in 1 .. Len(w) /\ at[i][k] \in 1 .. Len(w[to[i][k]].blocks)
      BY <2>2 DEF Placed
    <3>2. l \in 1 .. Len(sent[n + 1])
      BY <2>2
    <3>3. Before(to[i][k], at[i][k], p[l], q[l])
      BY <3>1, <3>2
    <3> QED BY <1>1, <1>2, <2>2, <3>3
  <2>3. CASE i = n + 1 /\ j = n + 1
    <3>1. k < l
      BY <1>5, <2>3 DEF Before
    <3> QED BY <1>1, <2>3, <3>1
  <2>4. CASE i = n + 1 /\ j \in 1 .. n
    BY <1>5, <2>4 DEF Before
  <2> QED BY <1>3, <2>1, <2>2, <2>3, <2>4
<1>6. ASSUME NEW x \in 1 .. Len(v), NEW y \in 1 .. Len(v[x].blocks)
      PROVE  \E i \in 1 .. n + 1 : \E k \in 1 .. Len(sent[i]) : t[i][k] = x /\ a[i][k] = y
  <2>1. CASE x \in 1 .. Len(w) /\ y \in 1 .. Len(w[x].blocks)
    <3>1. PICK i \in 1 .. n : \E k \in 1 .. Len(sent[i]) : to[i][k] = x /\ at[i][k] = y
      <4>1. \A z \in 1 .. Len(w) : \A u \in 1 .. Len(w[z].blocks) :
              \E i \in 1 .. n : \E k \in 1 .. Len(sent[i]) : to[i][k] = z /\ at[i][k] = u
        BY DEF Placed
      <4> QED BY ONLY <2>1, <4>1
    <3>2. i \in 1 .. n + 1 /\ t[i] = to[i] /\ a[i] = at[i]
      <4>1. \A z \in 1 .. n : z \in 1 .. n + 1
        OBVIOUS
      <4> QED BY <1>2, <3>1, <4>1
    <3> QED BY <3>1, <3>2
  <2>2. CASE \E k \in 1 .. Len(sent[n + 1]) : p[k] = x /\ q[k] = y
    <3>1. n + 1 \in 1 .. n + 1
      OBVIOUS
    <3> QED BY <1>1, <2>2, <3>1
  <2> QED BY <2>1, <2>2
<1>7. Placed(sent, n + 1, v, t, a, whole)
  BY <1>4, <1>5, <1>6 DEF Placed
<1> QED BY <1>7

\* Message by message, the calls are followed by their results.
LEMMA OpenAIFits ==
  ASSUME NEW h, HistoryFits(h)
  PROVE  WireFits(OpenAIParams(h))
<1> DEFINE w == OpenAIParams(h)
           sent == [i \in 1 .. Len(h) |-> Said(h[i])]
           to == [i \in 1 .. Len(h) |-> [k \in 1 .. Len(sent[i]) |-> i]]
           at == [i \in 1 .. Len(h) |-> [k \in 1 .. Len(sent[i]) |-> k]]
<1>1. /\ Len(h) \in Nat /\ DOMAIN h = 1 .. Len(h)
      /\ \A i \in 1 .. Len(h) : h[i] \in Message
  BY DEF HistoryFits
<1>2. \A i \in 1 .. Len(h) : h[i].role \in {"system", "user", "assistant", "tool"}
  BY <1>1 DEF Message
<1>3. \A i \in 1 .. Len(h) : Said(h[i]) \in Seq(WireBlock)
  BY <1>1, SaidBlocks
<1>4. \A i \in 1 .. Len(h) : sent[i] = Said(h[i])
  OBVIOUS
<1> HIDE DEF sent
<1>5. w \in Seq(WireItem) /\ Len(w) = Len(h) /\ \A i \in 1 .. Len(h) : w[i].blocks = sent[i]
  BY <1>1, <1>2, <1>3, <1>4 DEF OpenAIParams, WireMessage, WireItem
<1>6. \A i \in 1 .. Len(h) : \A k \in 1 .. Len(sent[i]) : to[i][k] = i /\ at[i][k] = k
  OBVIOUS
<1>7. Sent(h, sent)
  BY <1>3, <1>4 DEF Sent
<1> HIDE DEF w, to, at
<1>8. Placed(sent, Len(h), w, to, at, TRUE)
  <2>1. \A i \in 1 .. Len(h) : \A k \in 1 .. Len(sent[i]) : 1 \in 1 .. Len(sent[i])
    <3>1. \A i \in 1 .. Len(h) : Len(sent[i]) \in Nat
      BY <1>3, <1>4
    <3> QED BY <3>1
  <2>2. \A i \in 1 .. Len(h) : \A k \in 1 .. Len(sent[i]) :
          /\ to[i][k] \in 1 .. Len(w) /\ at[i][k] \in 1 .. Len(w[to[i][k]].blocks)
          /\ w[to[i][k]].blocks[at[i][k]] = sent[i][k] /\ to[i][k] = to[i][1]
    BY <1>5, <1>6, <2>1
  <2>3. \A i, j \in 1 .. Len(h) : \A k \in 1 .. Len(sent[i]) : \A l \in 1 .. Len(sent[j]) :
          Before(i, k, j, l) => Before(to[i][k], at[i][k], to[j][l], at[j][l])
    BY <1>6
  <2>4. \A x \in 1 .. Len(w) : \A y \in 1 .. Len(w[x].blocks) :
          \E i \in 1 .. Len(h) : \E k \in 1 .. Len(sent[i]) : to[i][k] = x /\ at[i][k] = y
    BY <1>5, <1>6
  <2> QED BY <2>2, <2>3, <2>4 DEF Placed
<1>9. WireFits(w)
  BY <1>5, <1>7, <1>8, PlacedFits
<1> QED BY <1>9 DEF w

-----------------------------------------------------------------------------
(* The items of the Responses API. *)

\* The items of the first n messages.
Items(g, h, n) ==
  /\ g = [k \in 0 .. n |-> g[k]]
  /\ g[0] = <<>>
  /\ \A k \in 1 .. n : g[k] = g[k - 1] \o ItemsOf(h[k])

\* There are such for any number of messages.
LEMMA ItemsExist ==
  ASSUME NEW h, NEW n \in Nat
  PROVE  \E g : Items(g, h, n)
<1> DEFINE Lacks == {m \in Nat : ~ \E g : Items(g, h, m)}
<1>1. SUFFICES ASSUME Lacks # {} PROVE FALSE
  OBVIOUS
<1>2. PICK m \in Lacks : \A j \in Lacks : m <= j
  <2>1. Lacks \in SUBSET Nat
    OBVIOUS
  <2> HIDE DEF Lacks
  <2> QED BY <1>1, <2>1, LeastNumber
<1>3. CASE m = 0
  <2> DEFINE g == [k \in 0 .. 0 |-> <<>>]
  <2>1. g[0] = <<>> /\ g = [k \in 0 .. 0 |-> g[k]] /\ 1 .. 0 = {}
    OBVIOUS
  <2> HIDE DEF g
  <2>2. Items(g, h, 0)
    BY <2>1 DEF Items
  <2> QED BY <1>2, <1>3, <2>2
<1>4. CASE m # 0
  <2>1. m - 1 \in Nat /\ m - 1 \notin Lacks
    BY <1>2, <1>4
  <2>2. PICK g : Items(g, h, m - 1)
    BY <2>1
  <2> DEFINE f == [k \in 0 .. m |-> IF k < m THEN g[k] ELSE g[m - 1] \o ItemsOf(h[m])]
  <2>3. f[0] = <<>> /\ f = [k \in 0 .. m |-> f[k]]
    BY <1>4, <2>1, <2>2 DEF Items
  <2>4. ASSUME NEW k \in 1 .. m PROVE f[k] = f[k - 1] \o ItemsOf(h[k])
    <3>1. f[k - 1] = g[k - 1]
      BY <2>1
    <3>2. CASE k = m
      <4>1. f[m] = g[m - 1] \o ItemsOf(h[m])
        <5>1. m \in 0 .. m /\ ~(m < m)
          BY <2>1
        <5> QED BY <5>1
      <4> QED BY <3>1, <3>2, <4>1
    <3>3. CASE k # m
      <4>1. k \in 1 .. m - 1 /\ f[k] = g[k]
        BY <2>1, <3>3
      <4> HIDE DEF f
      <4> QED BY <2>2, <3>1, <4>1 DEF Items
    <3> QED BY <3>2, <3>3
  <2> HIDE DEF f
  <2>5. Items(f, h, m)
    BY <2>3, <2>4 DEF Items
  <2> QED BY <1>2, <2>5
<1> QED BY <1>3, <1>4

\* The Responses form has all of them.
LEMMA ResponsesItems ==
  ASSUME NEW h, Len(h) \in Nat
  PROVE  \E g : Items(g, h, Len(h)) /\ ResponsesParams(h) = g[Len(h)]
<1> DEFINE n == Len(h)
           Reading(f) == [k \in 0 .. n |-> IF k = 0 THEN <<>> ELSE f[k - 1] \o ItemsOf(h[k])]
           items == CHOOSE f : f = Reading(f)
<1>1. ResponsesParams(h) = items[n]
  BY DEF ResponsesParams
<1>2. PICK g : Items(g, h, n)
  BY ItemsExist
<1>3. g = Reading(g)
  <2>1. ASSUME NEW k \in 0 .. n PROVE g[k] = Reading(g)[k]
    <3>1. Reading(g)[k] = IF k = 0 THEN <<>> ELSE g[k - 1] \o ItemsOf(h[k])
      OBVIOUS
    <3> HIDE DEF Reading
    <3>2. k = 0 \/ k \in 1 .. n
      OBVIOUS
    <3> QED BY <1>2, <3>1, <3>2 DEF Items
  <2>2. g = [k \in 0 .. n |-> g[k]]
    BY <1>2 DEF Items
  <2>3. Reading(g) = [k \in 0 .. n |-> Reading(g)[k]]
    OBVIOUS
  <2> HIDE DEF Reading
  <2> QED BY <2>1, <2>2, <2>3
<1>4. items = Reading(items)
  <2> HIDE DEF Reading
  <2> QED BY <1>3
<1>5. ASSUME NEW f, f = Reading(f) PROVE Items(f, h, n)
  <2>1. DOMAIN f = 0 .. n /\ \A k \in 0 .. n : f[k] = Reading(f)[k]
    BY <1>5
  <2>2. f = [k \in 0 .. n |-> f[k]]
    BY <1>5
  <2> QED BY <2>1, <2>2 DEF Items
<1> HIDE DEF items, Reading
<1> QED BY <1>1, <1>4, <1>5

\* All of them are placed, one message's after the other's.
LEMMA ResponsesFits ==
  ASSUME NEW h, HistoryFits(h)
  PROVE  WireFits(ResponsesParams(h))
<1> DEFINE sent == [i \in 1 .. Len(h) |-> IF h[i].role = "system" THEN <<>> ELSE Said(h[i])]
<1>1. /\ Len(h) \in Nat /\ DOMAIN h = 1 .. Len(h)
      /\ \A i \in 1 .. Len(h) : h[i] \in Message
  BY DEF HistoryFits
<1>2. \A i \in 1 .. Len(h) : h[i].role \in {"system", "user", "assistant", "tool"}
  BY <1>1 DEF Message
<1>3. \A i \in 1 .. Len(h) : Said(h[i]) \in Seq(WireBlock)
  BY <1>1, SaidBlocks
<1>4. \A i \in 1 .. Len(h) : sent[i] = IF h[i].role = "system" THEN <<>> ELSE Said(h[i])
  OBVIOUS
<1> HIDE DEF sent
<1>5. Sent(h, sent)
  <2>1. <<>> \in Seq(WireBlock)
    OBVIOUS
  <2> QED BY <1>3, <1>4, <2>1 DEF Sent
<1>6. ASSUME NEW i \in 1 .. Len(h)
      PROVE  /\ ItemsOf(h[i]) \in Seq(WireItem) /\ Len(ItemsOf(h[i])) = Len(sent[i])
             /\ Len(sent[i]) \in Nat
             /\ \A k \in 1 .. Len(sent[i]) : ItemsOf(h[i])[k].blocks = <<sent[i][k]>>
  <2>1. CASE h[i].role = "system"
    BY <1>4, <2>1 DEF ItemsOf
  <2>2. CASE h[i].role # "system"
    <3>1. ItemsOf(h[i]) = [k \in 1 .. Len(Said(h[i])) |-> WireMessage(h[i].role, <<Said(h[i])[k]>>)]
      BY <1>3, <2>2 DEF ItemsOf
    <3>2. \A k \in 1 .. Len(Said(h[i])) :
            /\ WireMessage(h[i].role, <<Said(h[i])[k]>>) \in WireItem
            /\ WireMessage(h[i].role, <<Said(h[i])[k]>>).blocks = <<Said(h[i])[k]>>
      BY <1>2, <1>3 DEF WireMessage, WireItem
    <3>3. Len(Said(h[i])) \in Nat /\ sent[i] = Said(h[i])
      BY <1>3, <1>4, <2>2
    <3> QED BY <3>1, <3>2, <3>3
  <2> QED BY <2>1, <2>2
<1>7. PICK g : Items(g, h, Len(h)) /\ ResponsesParams(h) = g[Len(h)]
  BY <1>1, ResponsesItems
<1> DEFINE apart == FALSE
<1> HIDE DEF apart
<1> DEFINE Fine(n) == /\ g[n] \in Seq(WireItem)
                      /\ \A x \in 1 .. Len(g[n]) : Len(g[n][x].blocks) = 1
                      /\ \E to, at : Placed(sent, n, g[n], to, at, apart)
           Bad == {n \in 0 .. Len(h) : ~Fine(n)}
<1>8. Fine(0)
  <2>1. g[0] = <<>>
    BY <1>7 DEF Items
  <2>2. 1 .. 0 = {} /\ Len(<<>>) = 0
    OBVIOUS
  <2>3. \A to, at : Placed(sent, 0, g[0], to, at, apart)
    BY <2>1, <2>2 DEF Placed
  <2>4. g[0] \in Seq(WireItem) /\ \A x \in 1 .. Len(g[0]) : Len(g[0][x].blocks) = 1
    BY <2>1, <2>2
  <2> QED BY <2>3, <2>4
<1>9. ASSUME NEW n \in 0 .. Len(h), n + 1 <= Len(h), Fine(n) PROVE Fine(n + 1)
  <2> DEFINE w == g[n]
             more == ItemsOf(h[n + 1])
             v == g[n + 1]
  <2>1. n \in Nat /\ n + 1 \in 1 .. Len(h) /\ (n + 1) - 1 = n
    BY <1>1, <1>9
  <2>2. v = w \o more
    BY <1>7, <2>1 DEF Items
  <2>3. /\ more \in Seq(WireItem) /\ Len(more) = Len(sent[n + 1]) /\ Len(sent[n + 1]) \in Nat
        /\ \A k \in 1 .. Len(sent[n + 1]) : more[k].blocks = <<sent[n + 1][k]>>
    BY <1>6, <2>1
  <2>4. PICK to, at : Placed(sent, n, w, to, at, apart)
    BY <1>9
  <2>5. w \in Seq(WireItem) /\ Len(w) \in Nat /\ \A x \in 1 .. Len(w) : Len(w[x].blocks) = 1
    BY <1>9
  <2> HIDE DEF w, more, v, Fine
  <2>6. /\ v \in Seq(WireItem) /\ Len(v) = Len(w) + Len(sent[n + 1])
        /\ \A x \in 1 .. Len(v) : v[x] = IF x <= Len(w) THEN w[x] ELSE more[x - Len(w)]
    <3>1. /\ w \o more \in Seq(WireItem) /\ Len(w \o more) = Len(w) + Len(more)
          /\ \A x \in 1 .. Len(w) + Len(more) :
               (w \o more)[x] = IF x <= Len(w) THEN w[x] ELSE more[x - Len(w)]
      <4>1. w \in Seq(WireItem) /\ more \in Seq(WireItem)
        BY <2>3, <2>5
      <4> QED BY ONLY <4>1, ConcatProperties
    <3> QED BY <2>2, <2>3, <3>1
  <2>7. \A x \in 1 .. Len(w) : x \in 1 .. Len(v) /\ v[x] = w[x]
    BY <2>3, <2>5, <2>6
  <2>8. ASSUME NEW k \in 1 .. Len(sent[n + 1])
        PROVE  /\ Len(w) + k \in 1 .. Len(v) /\ v[Len(w) + k].blocks = <<sent[n + 1][k]>>
               /\ \A x \in 1 .. Len(w) : x < Len(w) + k
    <3>1. Len(w) + k \in 1 .. Len(v) /\ ~(Len(w) + k <= Len(w)) /\ (Len(w) + k) - Len(w) = k
          /\ \A x \in 1 .. Len(w) : x < Len(w) + k
      BY <2>3, <2>5, <2>6
    <3>2. v[Len(w) + k] = more[k]
      BY <2>6, <3>1
    <3> QED BY <2>3, <3>1, <3>2
  <2>9. ASSUME NEW x \in 1 .. Len(v)
        PROVE  x \in 1 .. Len(w) \/ \E k \in 1 .. Len(sent[n + 1]) : x = Len(w) + k
    <3>1. CASE x > Len(w)
      <4>1. x - Len(w) \in 1 .. Len(sent[n + 1]) /\ x = Len(w) + (x - Len(w))
        BY <2>3, <2>5, <2>6, <3>1
      <4> QED BY <4>1
    <3> QED BY <2>5, <3>1
  <2>10. \A x \in 1 .. Len(v) : Len(v[x].blocks) = 1
    <3> TAKE x \in 1 .. Len(v)
    <3>1. CASE x \in 1 .. Len(w)
      BY <2>5, <2>7, <3>1
    <3>2. CASE x \notin 1 .. Len(w)
      <4>1. PICK k \in 1 .. Len(sent[n + 1]) : x = Len(w) + k
        BY <2>9, <3>2
      <4>2. v[x].blocks = <<sent[n + 1][k]>>
        BY <2>8, <4>1
      <4> QED BY <4>2
    <3> QED BY <3>1, <3>2
  <2> DEFINE p == [k \in 1 .. Len(sent[n + 1]) |-> Len(w) + k]
             q == [k \in 1 .. Len(sent[n + 1]) |-> 1]
  <2>11. \A k \in 1 .. Len(sent[n + 1]) : p[k] = Len(w) + k /\ q[k] = 1
    OBVIOUS
  <2> HIDE DEF p, q
  <2>12. Stays(w, v)
    BY <2>7 DEF Stays
  <2>13. ASSUME NEW k \in 1 .. Len(sent[n + 1])
         PROVE  /\ p[k] \in 1 .. Len(v) /\ q[k] \in 1 .. Len(v[p[k]].blocks)
                /\ v[p[k]].blocks[q[k]] = sent[n + 1][k]
                /\ apart => p[k] = p[1]
                /\ \A x \in 1 .. Len(w) : \A y \in 1 .. Len(w[x].blocks) : Before(x, y, p[k], q[k])
                /\ \A l \in 1 .. Len(sent[n + 1]) : k < l => Before(p[k], q[k], p[l], q[l])
    <3>1. p[k] \in 1 .. Len(v) /\ v[p[k]].blocks = <<sent[n + 1][k]>>
      BY <2>8, <2>11
    <3>2. q[k] \in 1 .. Len(v[p[k]].blocks) /\ v[p[k]].blocks[q[k]] = sent[n + 1][k]
      BY <2>11, <3>1
    <3>3. \A x \in 1 .. Len(w) : x < p[k]
      BY <2>8, <2>11
    <3>4. \A l \in 1 .. Len(sent[n + 1]) : k < l => p[k] < p[l]
      BY <2>3, <2>5, <2>11
    <3>5. ~apart
      BY DEF apart
    <3> QED BY <3>1, <3>2, <3>3, <3>4, <3>5 DEF Before
  <2>14. ASSUME NEW x \in 1 .. Len(v), NEW y \in 1 .. Len(v[x].blocks)
         PROVE  \/ x \in 1 .. Len(w) /\ y \in 1 .. Len(w[x].blocks)
                \/ \E k \in 1 .. Len(sent[n + 1]) : p[k] = x /\ q[k] = y
    <3>1. CASE x \in 1 .. Len(w)
      BY <2>7, <3>1
    <3>2. CASE x \notin 1 .. Len(w)
      <4>1. PICK k \in 1 .. Len(sent[n + 1]) : x = Len(w) + k
        BY <2>9, <3>2
      <4>2. y = 1
        <5>1. Len(v[x].blocks) = 1 /\ y \in 1 .. Len(v[x].blocks)
          BY <2>10
        <5> QED BY <5>1
      <4> QED BY <2>11, <4>1, <4>2
    <3> QED BY <3>1, <3>2
  <2>15. \E to2, at2 : Placed(sent, n + 1, v, to2, at2, apart)
    <3>1. PutAfter(sent[n + 1], w, v, p, q, apart)
      BY <2>13, <2>14 DEF PutAfter
    <3> QED BY ONLY <2>1, <2>4, <2>12, <3>1, OneMorePlaced
  <2> QED BY <2>6, <2>10, <2>15 DEF Fine, v
<1> HIDE DEF Fine
<1>10. Bad = {}
  <2> SUFFICES ASSUME Bad # {} PROVE FALSE
    OBVIOUS
  <2>1. PICK m \in Bad : \A j \in Bad : m <= j
    <3>1. Bad \in SUBSET Nat
      OBVIOUS
    <3> HIDE DEF Bad
    <3> QED BY <3>1, LeastNumber
  <2>2. m # 0
    BY <1>8
  <2>3. m - 1 \in 0 .. Len(h) /\ m - 1 \notin Bad /\ (m - 1) + 1 = m /\ m <= Len(h)
    BY <1>1, <2>1, <2>2
  <2> QED BY <1>9, <2>1, <2>3
<1>11. Fine(Len(h))
  <2>1. Len(h) \in 0 .. Len(h)
    BY <1>1
  <2> QED BY <1>10, <2>1
<1>12. PICK to, at : Placed(sent, Len(h), g[Len(h)], to, at, apart)
  BY <1>11 DEF Fine
<1>13. g[Len(h)] \in Seq(WireItem)
  BY <1>11 DEF Fine
<1>14. WireFits(g[Len(h)])
  BY <1>5, <1>12, <1>13, PlacedFits
<1> QED BY <1>7, <1>14

-----------------------------------------------------------------------------
(* The messages of the Anthropic API. *)

\* What is built after each of the first n messages.
Built(g, h, n) ==
  /\ g = [k \in 0 .. n |-> g[k]]
  /\ g[0] = NothingSent
  /\ \A k \in 1 .. n : g[k] = AnthropicStep(g[k - 1], h[k])

\* It can be built after any number of messages.
LEMMA BuiltExists ==
  ASSUME NEW h, NEW n \in Nat
  PROVE  \E g : Built(g, h, n)
<1> DEFINE Lacks == {m \in Nat : ~ \E g : Built(g, h, m)}
<1>1. SUFFICES ASSUME Lacks # {} PROVE FALSE
  OBVIOUS
<1>2. PICK m \in Lacks : \A j \in Lacks : m <= j
  <2>1. Lacks \in SUBSET Nat
    OBVIOUS
  <2> HIDE DEF Lacks
  <2> QED BY <1>1, <2>1, LeastNumber
<1>3. CASE m = 0
  <2> DEFINE g == [k \in 0 .. 0 |-> NothingSent]
  <2>1. g[0] = NothingSent /\ g = [k \in 0 .. 0 |-> g[k]] /\ 1 .. 0 = {}
    OBVIOUS
  <2> HIDE DEF g
  <2>2. Built(g, h, 0)
    BY <2>1 DEF Built
  <2> QED BY <1>2, <1>3, <2>2
<1>4. CASE m # 0
  <2>1. m - 1 \in Nat /\ m - 1 \notin Lacks
    BY <1>2, <1>4
  <2>2. PICK g : Built(g, h, m - 1)
    BY <2>1
  <2> DEFINE f == [k \in 0 .. m |-> IF k < m THEN g[k] ELSE AnthropicStep(g[m - 1], h[m])]
  <2>3. f[0] = NothingSent /\ f = [k \in 0 .. m |-> f[k]]
    BY <1>4, <2>1, <2>2 DEF Built
  <2>4. ASSUME NEW k \in 1 .. m PROVE f[k] = AnthropicStep(f[k - 1], h[k])
    <3>1. f[k - 1] = g[k - 1]
      BY <2>1
    <3>2. CASE k = m
      <4>1. f[m] = AnthropicStep(g[m - 1], h[m])
        <5>1. m \in 0 .. m /\ ~(m < m)
          BY <2>1
        <5> QED BY <5>1
      <4> QED BY <3>1, <3>2, <4>1
    <3>3. CASE k # m
      <4>1. k \in 1 .. m - 1 /\ f[k] = g[k]
        BY <2>1, <3>3
      <4> HIDE DEF f
      <4> QED BY <2>2, <3>1, <4>1 DEF Built
    <3> QED BY <3>2, <3>3
  <2> HIDE DEF f
  <2>5. Built(f, h, m)
    BY <2>3, <2>4 DEF Built
  <2> QED BY <1>2, <2>5
<1> QED BY <1>3, <1>4

\* The Anthropic form is what is built after all of them.
LEMMA AnthropicBuilt ==
  ASSUME NEW h, Len(h) \in Nat
  PROVE  \E g : Built(g, h, Len(h)) /\ AnthropicParams(h) = Flushed(g[Len(h)]).wire
<1> DEFINE n == Len(h)
           Reading(f) == [k \in 0 .. n |->
             IF k = 0 THEN NothingSent ELSE AnthropicStep(f[k - 1], h[k])]
           after == CHOOSE f : f = Reading(f)
<1>1. AnthropicParams(h) = Flushed(after[n]).wire
  BY DEF AnthropicParams
<1>2. PICK g : Built(g, h, n)
  BY BuiltExists
<1>3. g = Reading(g)
  <2>1. ASSUME NEW k \in 0 .. n PROVE g[k] = Reading(g)[k]
    <3>1. Reading(g)[k] = IF k = 0 THEN NothingSent ELSE AnthropicStep(g[k - 1], h[k])
      OBVIOUS
    <3> HIDE DEF Reading
    <3>2. k = 0 \/ k \in 1 .. n
      OBVIOUS
    <3> QED BY <1>2, <3>1, <3>2 DEF Built
  <2>2. g = [k \in 0 .. n |-> g[k]]
    BY <1>2 DEF Built
  <2>3. Reading(g) = [k \in 0 .. n |-> Reading(g)[k]]
    OBVIOUS
  <2> HIDE DEF Reading
  <2> QED BY <2>1, <2>2, <2>3
<1>4. after = Reading(after)
  <2> HIDE DEF Reading
  <2> QED BY <1>3
<1>5. ASSUME NEW f, f = Reading(f) PROVE Built(f, h, n)
  <2>1. DOMAIN f = 0 .. n /\ \A k \in 0 .. n : f[k] = Reading(f)[k]
    BY <1>5
  <2>2. f = [k \in 0 .. n |-> f[k]]
    BY <1>5
  <2> QED BY <2>1, <2>2 DEF Built
<1> HIDE DEF after, Reading
<1> QED BY <1>1, <1>4, <1>5

\* A message is of results or has none, and no two messages of results follow
\* each other.
Turns(w) ==
  /\ \A x \in 1 .. Len(w) :
       /\ w[x] \in WireItem /\ Len(w[x].blocks) \in Nat \ {0}
       /\ \A y \in 1 .. Len(w[x].blocks) :
            w[x].blocks[y].kind = "result" <=> w[x].blocks[1].kind = "result"
  /\ \A x \in 1 .. Len(w) : x + 1 <= Len(w) /\ w[x].blocks[1].kind = "result" =>
       w[x + 1].blocks[1].kind # "result"

\* Where calls are followed by results in such turns, the result of a call is
\* in the next message.
LEMMA ResultsFollow ==
  ASSUME NEW h, HistoryFits(h), NEW sent, Sent(h, sent), NEW w \in Seq(WireItem),
         NEW to, NEW at, Placed(sent, Len(h), w, to, at, TRUE), Turns(w),
         NEW x \in 1 .. Len(w), NEW y \in 1 .. Len(w[x].blocks), w[x].blocks[y].kind = "call"
  PROVE  FollowedByResult(w, x, y)
<1>1. Len(h) \in Nat /\ Len(w) \in Nat
  BY DEF HistoryFits
<1>2. PICK i \in 1 .. Len(h) : \E k \in 1 .. Len(sent[i]) : to[i][k] = x /\ at[i][k] = y
  <2>1. \A z \in 1 .. Len(w) : \A u \in 1 .. Len(w[z].blocks) :
          \E i \in 1 .. Len(h) : \E k \in 1 .. Len(sent[i]) : to[i][k] = z /\ at[i][k] = u
    BY DEF Placed
  <2> QED BY <2>1
<1>3. PICK k \in 1 .. Len(sent[i]) : to[i][k] = x /\ at[i][k] = y
  BY <1>2
<1>4. w[x].blocks[y] = sent[i][k]
  BY <1>3 DEF Placed
<1>5. PICK j \in 1 .. Len(h) :
        /\ i < j /\ 1 \in 1 .. Len(sent[j])
        /\ sent[j][1] = Block("result", sent[i][k].id)
        /\ \A m \in i + 1 .. j : Len(sent[m]) = 1 /\ sent[m][1].kind = "result"
  <2>1. ResultsNext(sent, Len(h))
    BY PlacedFits
  <2>2. sent[i][k].kind = "call"
    BY <1>4
  <2> QED BY <2>1, <2>2 DEF ResultsNext
<1> DEFINE z == to[j][1]
           u == at[j][1]
<1>6. /\ z \in 1 .. Len(w) /\ u \in 1 .. Len(w[z].blocks)
      /\ w[z].blocks[u] = Block("result", w[x].blocks[y].id)
      /\ Before(x, y, z, u)
  <2>1. Before(i, k, j, 1)
    BY <1>5 DEF Before
  <2> QED BY <1>3, <1>4, <1>5, <2>1 DEF Placed
<1> HIDE DEF z, u
<1>7. w[z].blocks[1].kind = "result" /\ w[x].blocks[1].kind # "result"
  <2>1. w[z].blocks[u].kind = "result"
    BY <1>6 DEF Block
  <2> QED BY <1>6, <2>1 DEF Turns
<1>8. x < z
  BY <1>6, <1>7 DEF Before
<1>9. \A m \in 1 .. Len(h) : Len(sent[m]) \in Nat
  BY DEF Sent
<1>10. ASSUME NEW v \in x + 1 .. z PROVE w[v].blocks[1].kind = "result"
  <2>1. CASE v = z
    BY <1>7, <2>1
  <2>2. CASE v # z
    <3>1. v \in 1 .. Len(w) /\ x < v /\ v < z
      <4>1. v \in x + 1 .. z /\ x \in 1 .. Len(w) /\ z \in 1 .. Len(w) /\ Len(w) \in Nat
        BY <1>1, <1>6
      <4> QED BY ONLY <2>2, <4>1
    <3>2. 1 \in 1 .. Len(w[v].blocks)
      BY <3>1 DEF Turns
    <3>3. PICK m \in 1 .. Len(h) : \E n \in 1 .. Len(sent[m]) : to[m][n] = v /\ at[m][n] = 1
      <4>1. \A b \in 1 .. Len(w) : \A c \in 1 .. Len(w[b].blocks) :
              \E m \in 1 .. Len(h) : \E n \in 1 .. Len(sent[m]) : to[m][n] = b /\ at[m][n] = c
        BY DEF Placed
      <4> QED BY ONLY <3>1, <3>2, <4>1
    <3>4. PICK n \in 1 .. Len(sent[m]) : to[m][n] = v /\ at[m][n] = 1
      BY <3>3
    <3>5. Before(i, k, m, n)
      <4>1. Before(to[i][k], at[i][k], to[m][n], at[m][n])
        BY <1>3, <3>1, <3>4 DEF Before
      <4> QED BY <1>1, <1>9, <4>1, SameOrder
    <3>6. Before(m, n, j, 1)
      <4>1. Before(to[m][n], at[m][n], to[j][1], at[j][1])
        BY <3>1, <3>4 DEF Before, z
      <4> QED BY <1>1, <1>5, <1>9, <4>1, SameOrder
    <3>7. m # i
      <4>1. SUFFICES ASSUME m = i PROVE FALSE
        OBVIOUS
      <4>2. to[i][n] = to[i][1] /\ to[i][k] = to[i][1]
        BY <1>3, <3>4, <4>1 DEF Placed
      <4> QED BY <1>3, <3>1, <3>4, <4>1, <4>2
    <3>8. m \in i + 1 .. j
      <4>1. i \in Int /\ j \in Int /\ m \in Int
        BY <1>1
      <4> QED BY ONLY <3>5, <3>6, <3>7, <4>1 DEF Before
    <3>9. n = 1
      <4>1. Len(sent[m]) = 1 /\ n \in 1 .. Len(sent[m])
        BY <1>5, <3>8
      <4> QED BY <4>1
    <3>10. w[v].blocks[1] = sent[m][n]
      <4>1. w[to[m][n]].blocks[at[m][n]] = sent[m][n]
        BY DEF Placed
      <4> QED BY <3>4, <4>1
    <3> QED BY <1>5, <3>8, <3>9, <3>10
  <2> QED BY <2>1, <2>2
<1>11. z = x + 1
  <2>1. SUFFICES ASSUME z # x + 1 PROVE FALSE
    OBVIOUS
  <2>2. /\ x + 1 \in x + 1 .. z /\ (x + 1) + 1 \in x + 1 .. z
        /\ x + 1 \in 1 .. Len(w) /\ (x + 1) + 1 <= Len(w)
    BY <1>1, <1>6, <1>8, <2>1
  <2>3. w[x + 1].blocks[1].kind = "result" /\ w[(x + 1) + 1].blocks[1].kind = "result"
    BY <1>10, <2>2
  <2> QED BY <2>2, <2>3 DEF Turns
<1>12. DOMAIN w[z].blocks = 1 .. Len(w[z].blocks)
  <2>1. w[z].blocks \in Seq(WireBlock)
    <3>1. w[z] \in WireItem
      BY <1>6
    <3> QED BY <3>1 DEF WireItem
  <2> QED BY <2>1
<1>13. Block("result", w[x].blocks[y].id) \in ToSet(w[x + 1].blocks)
  BY <1>6, <1>11, <1>12 DEF ToSet
<1>14. x < Len(w)
  BY <1>1, <1>6, <1>8
<1> QED BY <1>13, <1>14 DEF FollowedByResult

\* A new message after the wire's is put after them.
LEMMA AppendPuts ==
  ASSUME NEW w \in Seq(WireItem), NEW m \in WireItem
  PROVE  /\ Append(w, m) \in Seq(WireItem) /\ Len(Append(w, m)) = Len(w) + 1 /\ Len(w) \in Nat
         /\ \A x \in 1 .. Len(w) : Append(w, m)[x] = w[x]
         /\ Append(w, m)[Len(w) + 1] = m
         /\ Stays(w, Append(w, m))
         /\ \E p, q : PutAfter(m.blocks, w, Append(w, m), p, q, TRUE)
<1> DEFINE v == Append(w, m)
           b == m.blocks
           p == [k \in 1 .. Len(b) |-> Len(w) + 1]
           q == [k \in 1 .. Len(b) |-> k]
<1>1. /\ v \in Seq(WireItem) /\ Len(v) = Len(w) + 1 /\ Len(w) \in Nat
      /\ \A x \in 1 .. Len(w) : v[x] = w[x]
      /\ v[Len(w) + 1] = m
  OBVIOUS
<1>2. Len(b) \in Nat
  OBVIOUS
<1>3. \A k \in 1 .. Len(b) : p[k] = Len(w) + 1 /\ q[k] = k /\ 1 \in 1 .. Len(b)
  BY <1>2
<1> HIDE DEF v, b, p, q
<1>4. \A x \in 1 .. Len(w) : x \in 1 .. Len(v) /\ x < Len(w) + 1
  BY <1>1
<1>5. Stays(w, v)
  BY <1>1, <1>4 DEF Stays
<1>6. Len(w) + 1 \in 1 .. Len(v) /\ v[Len(w) + 1].blocks = b
  BY <1>1 DEF b
<1>7. \A k \in 1 .. Len(b) :
        /\ p[k] \in 1 .. Len(v) /\ q[k] \in 1 .. Len(v[p[k]].blocks)
        /\ v[p[k]].blocks[q[k]] = b[k]
        /\ p[k] = p[1]
        /\ \A x \in 1 .. Len(w) : \A y \in 1 .. Len(w[x].blocks) : Before(x, y, p[k], q[k])
        /\ \A l \in 1 .. Len(b) : k < l => Before(p[k], q[k], p[l], q[l])
  BY <1>3, <1>4, <1>6 DEF Before
<1>8. ASSUME NEW x \in 1 .. Len(v), NEW y \in 1 .. Len(v[x].blocks)
      PROVE  \/ x \in 1 .. Len(w) /\ y \in 1 .. Len(w[x].blocks)
             \/ \E k \in 1 .. Len(b) : p[k] = x /\ q[k] = y
  <2>1. CASE x \in 1 .. Len(w)
    BY <1>1, <2>1
  <2>2. CASE x = Len(w) + 1
    BY <1>3, <1>6, <2>2
  <2> QED BY <1>1, <2>1, <2>2
<1>9. PutAfter(b, w, v, p, q, TRUE)
  BY <1>7, <1>8 DEF PutAfter
<1> QED BY <1>1, <1>5, <1>9 DEF v, b

\* What holds of the wire after n messages: they are placed, in turns, and what
\* is pending are the results of the last of them.
BuiltFits(h, sent, n, acc) ==
  /\ acc = [pending |-> acc.pending, wire |-> acc.wire]
  /\ acc.pending \in Seq(WireBlock) /\ acc.wire \in Seq(WireItem)
  /\ \E to, at : Placed(sent, n, Flushed(acc).wire, to, at, TRUE)
  /\ Turns(Flushed(acc).wire)
  /\ acc.pending = <<>> => n = 0 \/ h[n].role # "tool"
  /\ acc.pending # <<>> => acc.pending[1].kind = "result"
  /\ n > 0 /\ h[n].role = "assistant" =>
       LET w == Flushed(acc).wire
       IN  Len(w) > 0 /\ w[Len(w)].blocks[1].kind # "result"

\* What flushing brings to the wire.
LEMMA FlushedWire ==
  ASSUME NEW acc, acc = [pending |-> acc.pending, wire |-> acc.wire],
         acc.pending \in Seq(WireBlock), acc.wire \in Seq(WireItem)
  PROVE  /\ Flushed(acc).wire \in Seq(WireItem) /\ Flushed(acc).pending = <<>>
         /\ Flushed(acc) = [pending |-> <<>>, wire |-> Flushed(acc).wire]
         /\ Flushed(Flushed(acc)) = Flushed(acc)
         /\ acc.pending = <<>> => Flushed(acc).wire = acc.wire
         /\ acc.pending # <<>> =>
              /\ WireMessage("user", acc.pending) \in WireItem
              /\ Flushed(acc).wire = Append(acc.wire, WireMessage("user", acc.pending))
<1>1. CASE acc.pending = <<>>
  <2>1. Flushed(acc) = acc
    BY <1>1 DEF Flushed
  <2> QED BY <1>1, <2>1
<1>2. CASE acc.pending # <<>>
  <2>1. Flushed(acc) = [pending |-> <<>>,
                        wire |-> Append(acc.wire, WireMessage("user", acc.pending))]
    BY <1>2 DEF Flushed
  <2>2. WireMessage("user", acc.pending) \in WireItem
    BY DEF WireMessage, WireItem
  <2> DEFINE m == WireMessage("user", acc.pending)
  <2> HIDE DEF m
  <2>3. Append(acc.wire, m) \in Seq(WireItem)
    BY <2>2 DEF m
  <2>4. Flushed(Flushed(acc)) = Flushed(acc)
    BY <2>1 DEF Flushed
  <2> QED BY <1>2, <2>1, <2>2, <2>3, <2>4 DEF m
<1> QED BY <1>1, <1>2

\* A message of blocks that are no results, or of results after one that is
\* not, is a turn of its own.
LEMMA OneMoreTurn ==
  ASSUME NEW w \in Seq(WireItem), Turns(w), NEW m \in WireItem, Len(m.blocks) \in Nat \ {0},
         \A y \in 1 .. Len(m.blocks) :
           m.blocks[y].kind = "result" <=> m.blocks[1].kind = "result",
         m.blocks[1].kind = "result" => Len(w) = 0 \/ w[Len(w)].blocks[1].kind # "result"
  PROVE  Turns(Append(w, m))
<1> DEFINE v == Append(w, m)
<1>1. /\ Len(v) = Len(w) + 1 /\ Len(w) \in Nat
      /\ \A x \in 1 .. Len(w) : v[x] = w[x]
      /\ v[Len(w) + 1] = m
  OBVIOUS
<1> HIDE DEF v
<1>2. \A x \in 1 .. Len(v) : x \in 1 .. Len(w) \/ x = Len(w) + 1
  BY <1>1
<1>3. \A x \in 1 .. Len(v) :
        /\ v[x] \in WireItem /\ Len(v[x].blocks) \in Nat \ {0}
        /\ \A y \in 1 .. Len(v[x].blocks) :
             v[x].blocks[y].kind = "result" <=> v[x].blocks[1].kind = "result"
  BY <1>1, <1>2 DEF Turns
<1>4. ASSUME NEW x \in 1 .. Len(v), x + 1 <= Len(v), v[x].blocks[1].kind = "result"
      PROVE  v[x + 1].blocks[1].kind # "result"
  <2>1. x \in 1 .. Len(w)
    BY <1>1, <1>4
  <2>2. CASE x + 1 <= Len(w)
    <3>1. x + 1 \in 1 .. Len(w)
      BY <1>1, <2>1, <2>2
    <3> QED BY <1>1, <1>4, <2>1, <2>2, <3>1 DEF Turns
  <2>3. CASE x = Len(w)
    BY <1>1, <1>4, <2>1, <2>3
  <2> QED BY <1>1, <2>1, <2>2, <2>3
<1> QED BY <1>3, <1>4 DEF Turns, v

\* What the Anthropic form sends of each message.
AnthropicSent(h, sent) ==
  \A i \in 1 .. Len(h) :
    sent[i] = IF h[i].role = "system" THEN <<>> ELSE AnthropicBlocks(h[i])

\* A message that is sent has blocks, and is a result or has none.
LEMMA AnthropicMessage ==
  ASSUME NEW h, HistoryFits(h), NEW sent, AnthropicSent(h, sent), NEW i \in 1 .. Len(h)
  PROVE  /\ h[i] \in Message /\ sent[i] \in Seq(WireBlock)
         /\ h[i].role = "tool" =>
              /\ sent[i] = Said(h[i]) /\ sent[i] = <<Block("result", h[i].id)>>
              /\ Block("result", h[i].id) \in WireBlock
         /\ h[i].role \notin {"tool", "system"} =>
              /\ Len(sent[i]) \in Nat \ {0}
              /\ \A k \in 1 .. Len(sent[i]) : sent[i][k].kind # "result"
              /\ \/ sent[i] = Said(h[i])
                 \/ Said(h[i]) = <<>> /\ sent[i] = <<Block("text", <<>>)>>
<1>1. h[i] \in Message
  BY DEF HistoryFits
<1>2. /\ Said(h[i]) \in Seq(WireBlock)
      /\ h[i].role = "tool" => Said(h[i]) = <<Block("result", h[i].id)>>
  BY <1>1, SaidBlocks
<1>3. CASE h[i].role = "system"
  <2>1. sent[i] = <<>>
    BY <1>3 DEF AnthropicSent
  <2> QED BY <1>1, <1>3, <2>1
<1>4. CASE h[i].role = "tool"
  <2>1. Said(h[i]) # <<>>
    <3>1. \A b : <<b>> # <<>>
      OBVIOUS
    <3> QED BY <1>2, <1>4, <3>1
  <2>2. sent[i] = Said(h[i])
    BY <1>4, <2>1 DEF AnthropicSent, AnthropicBlocks
  <2>3. Block("result", h[i].id) \in WireBlock
    <3>1. h[i].id \in CallId
      BY <1>1 DEF Message
    <3> QED BY <3>1 DEF Block, WireBlock
  <2> QED BY <1>1, <1>2, <1>4, <2>2, <2>3
<1>5. CASE h[i].role \notin {"tool", "system"}
  <2>1. CASE Said(h[i]) = <<>>
    <3>1. sent[i] = <<Block("text", <<>>)>>
      BY <1>5, <2>1 DEF AnthropicSent, AnthropicBlocks
    <3>2. Block("text", <<>>) \in WireBlock /\ Block("text", <<>>).kind # "result"
      BY DEF Block, WireBlock, CallId
    <3>3. /\ Len(sent[i]) = 1 /\ sent[i] \in Seq(WireBlock)
          /\ \A k \in 1 .. Len(sent[i]) : sent[i][k] = Block("text", <<>>)
      BY <3>1, <3>2
    <3> QED BY <1>1, <1>5, <2>1, <3>1, <3>2, <3>3
  <2>2. CASE Said(h[i]) # <<>>
    <3>1. sent[i] = Said(h[i])
      BY <1>5, <2>2 DEF AnthropicSent, AnthropicBlocks
    <3>2. Len(Said(h[i])) \in Nat \ {0}
      BY <1>2, <2>2
    <3>3. \A k \in 1 .. Len(Said(h[i])) : Said(h[i])[k].kind # "result"
      BY <1>5, CallsInHistory
    <3> QED BY <1>1, <1>2, <1>5, <3>1, <3>2, <3>3
  <2> QED BY <2>1, <2>2
<1> QED BY <1>3, <1>4, <1>5

\* A tool message becomes pending; the pending results are one message.
LEMMA ToolStepFits ==
  ASSUME NEW h, HistoryFits(h), NEW sent, AnthropicSent(h, sent), NEW n \in Nat,
         n + 1 \in 1 .. Len(h), NEW acc, BuiltFits(h, sent, n, acc),
         h[n + 1].role = "tool"
  PROVE  BuiltFits(h, sent, n + 1, AnthropicStep(acc, h[n + 1]))
<1> DEFINE r == Block("result", h[n + 1].id)
           w == Flushed(acc).wire
           new == AnthropicStep(acc, h[n + 1])
           later == acc.pending \o <<r>>
           m == WireMessage("user", later)
           v == Flushed(new).wire
<1>1. /\ sent[n + 1] = <<r>> /\ Said(h[n + 1]) = <<r>> /\ r \in WireBlock
      /\ r.kind = "result"
  BY AnthropicMessage DEF Block
<1>2. /\ acc.pending \in Seq(WireBlock) /\ acc.wire \in Seq(WireItem)
      /\ acc = [pending |-> acc.pending, wire |-> acc.wire]
      /\ Turns(w)
  BY DEF BuiltFits
<1>3. new = [pending |-> later, wire |-> acc.wire]
  <2>1. new = [acc EXCEPT !.pending = @ \o Said(h[n + 1])]
    BY DEF AnthropicStep
  <2> QED BY <1>1, <1>2, <2>1
<1> HIDE DEF r
<1>4. /\ later \in Seq(WireBlock) /\ Len(later) = Len(acc.pending) + 1
      /\ Len(acc.pending) \in Nat
      /\ \A y \in 1 .. Len(acc.pending) : later[y] = acc.pending[y]
      /\ later[Len(acc.pending) + 1] = r
      /\ later # <<>>
  BY <1>1, <1>2
<1> HIDE DEF later
<1>5. m \in WireItem /\ m.blocks = later
  BY <1>4 DEF WireMessage, WireItem
<1> HIDE DEF m
<1>6. v = Append(acc.wire, m)
  BY <1>2, <1>3, <1>4, FlushedWire DEF m
<1>7. w \in Seq(WireItem)
  BY <1>2, FlushedWire
<1> HIDE DEF w, v, new
<1>8. PICK to, at : Placed(sent, n, w, to, at, TRUE)
  BY DEF BuiltFits, w
<1>9. Stays(w, v) /\ (\E p, q : PutAfter(sent[n + 1], w, v, p, q, TRUE)) /\ Turns(v)
      /\ later[1].kind = "result"
  <2>1. CASE acc.pending = <<>>
    <3>1. w = acc.wire /\ v = Append(w, m)
      BY <1>2, <1>6, <2>1, FlushedWire DEF w
    <3>2. later = <<r>>
      BY <1>1, <2>1 DEF later
    <3>3. Stays(w, v) /\ \E p, q : PutAfter(m.blocks, w, v, p, q, TRUE)
      BY <1>5, <1>7, <3>1, AppendPuts
    <3>4. n > 0 /\ h[n].role = "assistant"
      <4>1. Len(h) \in Nat /\ DOMAIN h = 1 .. Len(h)
        BY DEF HistoryFits
      <4>2. PICK i \in 1 .. (n + 1) - 1 : (n + 1) - i \in DOMAIN h[i].calls
        BY <4>1 DEF HistoryFits
      <4>3. i \in 1 .. Len(h) /\ i <= n /\ n > 0 /\ n \in 1 .. Len(h)
        BY <4>1
      <4>4. h[i].calls \in Calls
        <5>1. h[i] \in Message
          BY <4>3, AnthropicMessage
        <5> QED BY <5>1 DEF Message
      <4>5. DOMAIN h[i].calls = 1 .. Len(h[i].calls) /\ Len(h[i].calls) \in Nat
        BY <4>4, CallsNumbered
      <4>6. CASE i = n
        <5>1. h[n].calls # <<>>
          BY <4>2, <4>5, <4>6
        <5> QED BY <4>1, <4>3, <5>1 DEF HistoryFits
      <4>7. CASE i # n
        <5>1. n - i \in DOMAIN h[i].calls /\ i + (n - i) = n
          BY <4>2, <4>3, <4>5, <4>7
        <5>2. h[i + (n - i)].role = "tool"
          BY <4>1, <4>3, <5>1 DEF HistoryFits
        <5>3. h[n].role = "tool"
          BY <5>1, <5>2
        <5> QED BY <2>1, <4>3, <5>3 DEF BuiltFits
      <4> QED BY <4>6, <4>7
    <3>5. w[Len(w)].blocks[1].kind # "result"
      BY <3>4 DEF BuiltFits, w
    <3>6. Len(m.blocks) = 1 /\ m.blocks[1] = r /\ \A y \in 1 .. Len(m.blocks) : y = 1
      BY <1>5, <3>2
    <3>7. Turns(Append(w, m))
      <4>1. Len(m.blocks) \in Nat \ {0}
        BY <3>6
      <4> QED BY <1>2, <1>5, <1>7, <3>5, <3>6, <4>1, OneMoreTurn
    <3>8. \E p, q : PutAfter(sent[n + 1], w, v, p, q, TRUE)
      <4>1. m.blocks = sent[n + 1]
        BY <1>1, <1>5, <3>2
      <4> QED BY ONLY <3>3, <4>1
    <3>9. later[1].kind = "result"
      BY <1>1, <3>2
    <3>10. Turns(v)
      BY ONLY <3>1, <3>7
    <3>11. Stays(w, v)
      BY ONLY <3>3
    <3> QED BY ONLY <3>8, <3>9, <3>10, <3>11
  <2>2. CASE acc.pending # <<>>
    <3> DEFINE old == WireMessage("user", acc.pending)
               x == Len(acc.wire) + 1
    <3>1. w = Append(acc.wire, old) /\ old \in WireItem
      BY <1>2, <2>2, FlushedWire DEF w
    <3>2. old.blocks = acc.pending
      BY DEF WireMessage
    <3> HIDE DEF old
    <3>3. /\ Len(w) = x /\ Len(v) = x /\ x \in Nat /\ x >= 1
          /\ w[x] = old /\ v[x] = m
          /\ \A z \in 1 .. Len(acc.wire) : w[z] = acc.wire[z] /\ v[z] = acc.wire[z]
          /\ Len(acc.wire) \in Nat
      BY <1>2, <1>5, <1>6, <3>1
    <3>4. \A z \in 1 .. x : z \in 1 .. Len(acc.wire) \/ z = x
      BY <3>3
    <3> HIDE DEF x
    <3>5. \A z \in 1 .. x : z # x => v[z] = w[z]
      BY <3>3, <3>4
    <3>6. \A y \in 1 .. Len(acc.pending) :
            y \in 1 .. Len(v[x].blocks) /\ v[x].blocks[y] = w[x].blocks[y]
      BY <1>4, <1>5, <3>2, <3>3
    <3>7. Stays(w, v)
      BY <3>2, <3>3, <3>5, <3>6 DEF Stays
    <3> DEFINE p == [k \in 1 .. 1 |-> x]
               q == [k \in 1 .. 1 |-> Len(acc.pending) + 1]
    <3>8. p[1] = x /\ q[1] = Len(acc.pending) + 1
      OBVIOUS
    <3> HIDE DEF p, q
    <3>9. /\ x \in 1 .. Len(v) /\ q[1] \in 1 .. Len(v[x].blocks) /\ v[x].blocks[q[1]] = r
          /\ \A z \in 1 .. Len(w) : \A y \in 1 .. Len(w[z].blocks) : Before(z, y, x, q[1])
      <4>1. x \in 1 .. Len(v) /\ q[1] \in 1 .. Len(v[x].blocks) /\ v[x].blocks[q[1]] = r
        BY <1>4, <1>5, <3>3, <3>8
      <4>2. \A z \in 1 .. Len(w) : \A y \in 1 .. Len(w[z].blocks) :
              z < x \/ (z = x /\ y < q[1])
        BY <1>4, <3>2, <3>3, <3>8
      <4> QED BY <4>1, <4>2 DEF Before
    <3>10. ASSUME NEW z \in 1 .. Len(v), NEW y \in 1 .. Len(v[z].blocks)
           PROVE  \/ z \in 1 .. Len(w) /\ y \in 1 .. Len(w[z].blocks)
                  \/ p[1] = z /\ q[1] = y
      <4>1. CASE z # x
        BY <3>3, <3>5, <4>1
      <4>2. CASE z = x
        <5>1. y \in 1 .. Len(acc.pending) + 1
          BY <1>4, <1>5, <3>3, <4>2
        <5>2. Len(w[z].blocks) = Len(acc.pending)
          BY <3>2, <3>3, <4>2
        <5> QED BY <1>4, <3>3, <3>8, <4>2, <5>1, <5>2
      <4> QED BY <4>1, <4>2
    <3>11. PutAfter(sent[n + 1], w, v, p, q, TRUE)
      <4>1. /\ Len(sent[n + 1]) = 1 /\ sent[n + 1][1] = r
            /\ \A k \in 1 .. 1 : k = 1 /\ \A l \in 1 .. 1 : ~(k < l)
            /\ 1 \in 1 .. 1
        BY <1>1
      <4> QED BY <3>8, <3>9, <3>10, <4>1 DEF PutAfter
    <3>12. later[1] = acc.pending[1] /\ later[1].kind = "result"
      <4>1. 1 \in 1 .. Len(acc.pending)
        BY <1>2, <2>2
      <4>2. acc.pending[1].kind = "result"
        BY <2>2 DEF BuiltFits
      <4> QED BY <1>4, <4>1, <4>2
    <3>13. \A y \in 1 .. Len(later) : later[y].kind = "result"
      <4> TAKE y \in 1 .. Len(later)
      <4>1. CASE y \in 1 .. Len(acc.pending)
        <5>1. acc.pending[y].kind = "result"
          <6>1. x \in 1 .. Len(w) /\ w[x].blocks = acc.pending
            BY <3>2, <3>3
          <6> QED BY <1>2, <3>12, <4>1, <6>1 DEF Turns
        <5> QED BY <1>4, <4>1, <5>1
      <4>2. CASE y = Len(acc.pending) + 1
        BY <1>1, <1>4, <4>2
      <4> QED BY <1>4, <4>1, <4>2
    <3>14. Turns(v)
      <4>1. \A z \in 1 .. Len(v) :
              /\ v[z] \in WireItem /\ Len(v[z].blocks) \in Nat \ {0}
              /\ \A y \in 1 .. Len(v[z].blocks) :
                   v[z].blocks[y].kind = "result" <=> v[z].blocks[1].kind = "result"
        <5> TAKE z \in 1 .. Len(v)
        <5>1. CASE z = x
          <6>1. v[z] \in WireItem /\ v[z].blocks = later
            BY <1>5, <3>3, <5>1
          <6>2. Len(later) \in Nat \ {0}
            BY <1>4
          <6> QED BY <3>12, <3>13, <6>1, <6>2
        <5>2. CASE z # x
          BY <1>2, <3>3, <3>5, <5>2 DEF Turns
        <5> QED BY <5>1, <5>2
      <4>2. \A z \in 1 .. x : v[z].blocks[1].kind = w[z].blocks[1].kind
        <5> TAKE z \in 1 .. x
        <5>1. CASE z = x
          BY <1>5, <3>2, <3>3, <3>12, <5>1
        <5>2. CASE z # x
          BY <3>5, <5>2
        <5> QED BY <5>1, <5>2
      <4>3. ASSUME NEW z \in 1 .. Len(v), z + 1 <= Len(v), v[z].blocks[1].kind = "result"
            PROVE  v[z + 1].blocks[1].kind # "result"
        <5>1. z \in 1 .. Len(w) /\ z + 1 <= Len(w) /\ z \in 1 .. x /\ z + 1 \in 1 .. x
          BY <3>3, <4>3
        <5>2. w[z + 1].blocks[1].kind # "result"
          BY <1>2, <4>2, <4>3, <5>1 DEF Turns
        <5> QED BY <4>2, <5>1, <5>2
      <4> QED BY <4>1, <4>3 DEF Turns
    <3> QED BY <3>7, <3>11, <3>12, <3>14
  <2> QED BY <2>1, <2>2
<1>10. \E to2, at2 : Placed(sent, n + 1, v, to2, at2, TRUE)
  <2>1. PICK p, q : PutAfter(sent[n + 1], w, v, p, q, TRUE)
    BY <1>9
  <2>2. Stays(w, v)
    BY <1>9
  <2> QED BY ONLY n \in Nat, <1>8, <2>1, <2>2, OneMorePlaced
<1>11. /\ new.pending = later /\ new.wire = acc.wire
       /\ new = [pending |-> new.pending, wire |-> new.wire]
  BY <1>3
<1>12. h[n + 1].role # "assistant"
  OBVIOUS
<1>13. BuiltFits(h, sent, n + 1, new)
  BY <1>2, <1>4, <1>9, <1>10, <1>11, <1>12 DEF BuiltFits, v
<1> QED BY <1>13 DEF new

\* A system message flushes what is pending and brings nothing.
LEMMA SystemStepFits ==
  ASSUME NEW h, HistoryFits(h), NEW sent, AnthropicSent(h, sent), NEW n \in Nat,
         n + 1 \in 1 .. Len(h), NEW acc, BuiltFits(h, sent, n, acc),
         h[n + 1].role = "system"
  PROVE  BuiltFits(h, sent, n + 1, AnthropicStep(acc, h[n + 1]))
<1> DEFINE new == Flushed(acc)
           w == new.wire
<1>1. AnthropicStep(acc, h[n + 1]) = new /\ sent[n + 1] = <<>>
  BY DEF AnthropicStep, AnthropicSent
<1>2. /\ acc.pending \in Seq(WireBlock) /\ acc.wire \in Seq(WireItem)
      /\ acc = [pending |-> acc.pending, wire |-> acc.wire]
      /\ Turns(w)
  BY DEF BuiltFits
<1>3. /\ w \in Seq(WireItem) /\ new.pending = <<>> /\ new = [pending |-> <<>>, wire |-> w]
      /\ Flushed(new) = new
  BY <1>2, FlushedWire
<1>4. PICK to, at : Placed(sent, n, w, to, at, TRUE)
  BY DEF BuiltFits
<1> HIDE DEF new, w
<1>5. Stays(w, w)
  BY DEF Stays
<1>6. PutAfter(sent[n + 1], w, w, <<>>, <<>>, TRUE)
  <2>1. 1 .. Len(sent[n + 1]) = {}
    BY <1>1
  <2> QED BY <2>1 DEF PutAfter
<1>7. \E to2, at2 : Placed(sent, n + 1, w, to2, at2, TRUE)
  BY ONLY n \in Nat, <1>4, <1>5, <1>6, OneMorePlaced
<1>8. <<>> \in Seq(WireBlock)
  OBVIOUS
<1>9. Flushed(new).wire = w
  BY <1>3 DEF w
<1>10. new = [pending |-> new.pending, wire |-> new.wire] /\ new.wire = w
  BY <1>3 DEF w
<1>11. BuiltFits(h, sent, n + 1, new)
  BY <1>2, <1>3, <1>7, <1>8, <1>9, <1>10 DEF BuiltFits
<1> QED BY <1>1, <1>11

\* Any other message follows what was pending.
LEMMA OtherStepFits ==
  ASSUME NEW h, HistoryFits(h), NEW sent, AnthropicSent(h, sent), NEW n \in Nat,
         n + 1 \in 1 .. Len(h), NEW acc, BuiltFits(h, sent, n, acc),
         h[n + 1].role \notin {"tool", "system"}
  PROVE  BuiltFits(h, sent, n + 1, AnthropicStep(acc, h[n + 1]))
<1> DEFINE old == Flushed(acc)
           w == old.wire
           m == WireMessage(h[n + 1].role, AnthropicBlocks(h[n + 1]))
           v == Append(w, m)
           new == AnthropicStep(acc, h[n + 1])
<1>1. /\ acc.pending \in Seq(WireBlock) /\ acc.wire \in Seq(WireItem)
      /\ acc = [pending |-> acc.pending, wire |-> acc.wire]
      /\ Turns(w)
  BY DEF BuiltFits
<1>2. w \in Seq(WireItem) /\ old = [pending |-> <<>>, wire |-> w]
  BY <1>1, FlushedWire
<1>3. new = [pending |-> <<>>, wire |-> v]
  <2>1. new = [old EXCEPT !.wire = Append(@, m)]
    BY DEF AnthropicStep
  <2> HIDE DEF new, m, w, old
  <2> QED BY <1>2, <2>1
<1>4. /\ sent[n + 1] \in Seq(WireBlock) /\ Len(sent[n + 1]) \in Nat \ {0}
      /\ \A k \in 1 .. Len(sent[n + 1]) : sent[n + 1][k].kind # "result"
      /\ h[n + 1] \in Message
  BY AnthropicMessage
<1>5. m \in WireItem /\ m.blocks = sent[n + 1]
  <2>1. sent[n + 1] = AnthropicBlocks(h[n + 1])
    BY DEF AnthropicSent
  <2>2. h[n + 1].role \in {"system", "user", "assistant", "tool"}
    BY <1>4 DEF Message
  <2> QED BY <1>4, <2>1, <2>2 DEF WireMessage, WireItem
<1>6. PICK to, at : Placed(sent, n, w, to, at, TRUE)
  BY DEF BuiltFits
<1> HIDE DEF old, w, m, new
<1>7. /\ v \in Seq(WireItem) /\ Len(v) = Len(w) + 1 /\ Len(w) \in Nat /\ v[Len(w) + 1] = m
      /\ Stays(w, v) /\ \E p, q : PutAfter(m.blocks, w, v, p, q, TRUE)
  BY <1>2, <1>5, AppendPuts
<1>8. Turns(v)
  <2>1. /\ Len(m.blocks) \in Nat \ {0} /\ 1 \in 1 .. Len(m.blocks)
        /\ \A k \in 1 .. Len(m.blocks) : m.blocks[k].kind # "result"
    BY <1>4, <1>5
  <2> QED BY <1>1, <1>2, <1>5, <2>1, OneMoreTurn
<1> HIDE DEF v
<1>9. \E to2, at2 : Placed(sent, n + 1, v, to2, at2, TRUE)
  <2>1. PICK p, q : PutAfter(m.blocks, w, v, p, q, TRUE)
    BY <1>7
  <2>2. PutAfter(sent[n + 1], w, v, p, q, TRUE)
    BY ONLY <1>5, <2>1
  <2>3. Stays(w, v)
    BY <1>7
  <2> QED BY ONLY n \in Nat, <1>6, <2>2, <2>3, OneMorePlaced
<1>10. Flushed(new) = new /\ new.wire = v /\ new.pending = <<>>
       /\ new = [pending |-> new.pending, wire |-> new.wire]
  BY <1>3 DEF Flushed
<1>11. Flushed(new).wire = v
  BY <1>10
<1>12. Len(v) > 0 /\ v[Len(v)].blocks[1].kind # "result"
  <2>1. 1 \in 1 .. Len(sent[n + 1])
    BY <1>4
  <2> QED BY <1>4, <1>5, <1>7, <2>1
<1>13. <<>> \in Seq(WireBlock)
  OBVIOUS
<1>14. BuiltFits(h, sent, n + 1, new)
  BY <1>7, <1>8, <1>9, <1>10, <1>11, <1>12, <1>13 DEF BuiltFits
<1> QED BY <1>14 DEF new

\* The Anthropic form is as the API asks.
LEMMA AnthropicFits ==
  ASSUME NEW h, HistoryFits(h)
  PROVE  /\ WireFits(AnthropicParams(h))
         /\ \A x \in DOMAIN AnthropicParams(h) : \A y \in DOMAIN AnthropicParams(h)[x].blocks :
              AnthropicParams(h)[x].blocks[y].kind = "call" =>
                FollowedByResult(AnthropicParams(h), x, y)
<1> DEFINE sent == [i \in 1 .. Len(h) |->
             IF h[i].role = "system" THEN <<>> ELSE AnthropicBlocks(h[i])]
<1>1. Len(h) \in Nat
  BY DEF HistoryFits
<1>2. AnthropicSent(h, sent)
  BY DEF AnthropicSent
<1> HIDE DEF sent
<1>3. Sent(h, sent)
  <2> SUFFICES ASSUME NEW i \in 1 .. Len(h)
               PROVE  /\ sent[i] \in Seq(WireBlock)
                      /\ \/ sent[i] = Said(h[i])
                         \/ h[i].role = "system" /\ sent[i] = <<>>
                         \/ /\ h[i].role # "tool" /\ Said(h[i]) = <<>>
                            /\ sent[i] = <<Block("text", <<>>)>>
    BY DEF Sent
  <2>1. h[i].role = "system" => sent[i] = <<>>
    BY <1>2 DEF AnthropicSent
  <2> QED BY <1>2, <2>1, AnthropicMessage
<1>4. PICK g : Built(g, h, Len(h)) /\ AnthropicParams(h) = Flushed(g[Len(h)]).wire
  BY <1>1, AnthropicBuilt
<1> DEFINE Bad == {n \in 0 .. Len(h) : ~BuiltFits(h, sent, n, g[n])}
<1>5. BuiltFits(h, sent, 0, g[0])
  <2>1. g[0] = [pending |-> <<>>, wire |-> <<>>]
    BY <1>4 DEF Built, NothingSent
  <2>2. Flushed(g[0]).wire = <<>> /\ g[0].pending = <<>> /\ g[0].wire = <<>>
    BY <2>1 DEF Flushed
  <2>3. 1 .. 0 = {} /\ Len(<<>>) = 0
    OBVIOUS
  <2>4. \A to, at : Placed(sent, 0, <<>>, to, at, TRUE)
    BY <2>3 DEF Placed
  <2>5. Turns(<<>>)
    BY <2>3 DEF Turns
  <2>6. <<>> \in Seq(WireBlock) /\ <<>> \in Seq(WireItem)
    OBVIOUS
  <2> DEFINE acc == g[0]
  <2>7. /\ acc = [pending |-> acc.pending, wire |-> acc.wire]
        /\ Flushed(acc).wire = <<>> /\ acc.pending = <<>> /\ acc.wire = <<>>
    BY <2>1, <2>2
  <2> HIDE DEF acc
  <2>8. \E to, at : Placed(sent, 0, Flushed(acc).wire, to, at, TRUE)
    BY <2>4, <2>7
  <2>9. Turns(Flushed(acc).wire)
    BY <2>5, <2>7
  <2>10. BuiltFits(h, sent, 0, acc)
    <3>1. acc.pending \in Seq(WireBlock) /\ acc.wire \in Seq(WireItem)
      BY <2>6, <2>7
    <3>2. acc = [pending |-> acc.pending, wire |-> acc.wire]
      BY <2>7
    <3>3. acc.pending # <<>> => acc.pending[1].kind = "result"
      BY <2>7
    <3>4. ~(0 > 0)
      OBVIOUS
    <3> QED BY ONLY <2>8, <2>9, <3>1, <3>2, <3>3, <3>4 DEF BuiltFits
  <2> QED BY <2>10 DEF acc
<1>6. ASSUME NEW n \in Nat, n + 1 <= Len(h), BuiltFits(h, sent, n, g[n])
      PROVE  BuiltFits(h, sent, n + 1, g[n + 1])
  <2>1. n + 1 \in 1 .. Len(h) /\ (n + 1) - 1 = n
    BY <1>1, <1>6
  <2>2. g[n + 1] = AnthropicStep(g[n], h[n + 1])
    BY <1>4, <2>1 DEF Built
  <2>3. BuiltFits(h, sent, n + 1, AnthropicStep(g[n], h[n + 1]))
    <3>1. CASE h[n + 1].role = "tool"
      BY <1>2, <1>6, <2>1, <3>1, ToolStepFits
    <3>2. CASE h[n + 1].role = "system"
      BY <1>2, <1>6, <2>1, <3>2, SystemStepFits
    <3>3. CASE h[n + 1].role \notin {"tool", "system"}
      BY <1>2, <1>6, <2>1, <3>3, OtherStepFits
    <3> QED BY <3>1, <3>2, <3>3
  <2> QED BY <2>2, <2>3
<1>7. Bad = {}
  <2> SUFFICES ASSUME Bad # {} PROVE FALSE
    OBVIOUS
  <2>1. PICK m \in Bad : \A j \in Bad : m <= j
    <3>1. Bad \in SUBSET Nat
      OBVIOUS
    <3> HIDE DEF Bad
    <3> QED BY <3>1, LeastNumber
  <2>2. m # 0
    BY <1>5
  <2>3. m - 1 \in Nat /\ m - 1 \in 0 .. Len(h) /\ m - 1 \notin Bad
        /\ (m - 1) + 1 = m /\ m <= Len(h)
    BY <1>1, <2>1, <2>2
  <2> QED BY <1>6, <2>1, <2>3
<1>8. BuiltFits(h, sent, Len(h), g[Len(h)])
  <2>1. Len(h) \in 0 .. Len(h)
    BY <1>1
  <2> QED BY <1>7, <2>1
<1> DEFINE w == Flushed(g[Len(h)]).wire
<1>9. w \in Seq(WireItem) /\ Turns(w)
  BY <1>8, FlushedWire DEF BuiltFits
<1>10. PICK to, at : Placed(sent, Len(h), w, to, at, TRUE)
  BY <1>8 DEF BuiltFits
<1> HIDE DEF w
<1>11. WireFits(w)
  BY <1>3, <1>9, <1>10, PlacedFits
<1>12. ASSUME NEW x \in DOMAIN w, NEW y \in DOMAIN w[x].blocks, w[x].blocks[y].kind = "call"
       PROVE  FollowedByResult(w, x, y)
  <2>1. x \in 1 .. Len(w)
    BY <1>9
  <2>2. y \in 1 .. Len(w[x].blocks)
    <3>1. w[x] \in WireItem
      BY <1>9, <2>1
    <3>2. w[x].blocks \in Seq(WireBlock)
      BY <3>1 DEF WireItem
    <3> QED BY <3>2
  <2> QED BY <1>3, <1>9, <1>10, <1>12, <2>1, <2>2, ResultsFollow
<1>13. AnthropicParams(h) = w
  BY <1>4 DEF w
<1> QED BY <1>11, <1>12, <1>13

\* CallsAnsweredAtOnce: whatever the protocol, a request has no call without its
\* result at once, as the endpoints demand.
THEOREM CallsAlwaysAnswered == ClientSpec => []CallsAnsweredAtOnce
<1>1. HistoryInv => CallsAnsweredAtOnce
  <2> SUFFICES ASSUME HistoryInv PROVE CallsAnsweredAtOnce
    OBVIOUS
  <2> DEFINE w == Wire(history)
  <2>1. HistoryFits(history) /\ endpoint.protocol \in Protocols
    BY DEF HistoryInv
  <2>2. WireFits(w) /\ (endpoint.protocol = "anthropic" =>
          \A i \in DOMAIN w : \A k \in DOMAIN w[i].blocks :
            w[i].blocks[k].kind = "call" => FollowedByResult(w, i, k))
    <3>1. CASE endpoint.protocol = "anthropic"
      <4>1. w = AnthropicParams(history)
        BY <3>1 DEF Wire
      <4> HIDE DEF w
      <4> QED BY <2>1, <4>1, AnthropicFits
    <3>2. CASE endpoint.protocol = "openai"
      <4>1. w = OpenAIParams(history) /\ endpoint.protocol # "anthropic"
        BY <3>2 DEF Wire
      <4> HIDE DEF w
      <4> QED BY <2>1, <4>1, OpenAIFits
    <3>3. CASE endpoint.protocol = "openai-responses"
      <4>1. w = ResponsesParams(history) /\ endpoint.protocol # "anthropic"
        BY <3>3 DEF Wire
      <4> HIDE DEF w
      <4> QED BY <2>1, <4>1, ResponsesFits
    <3> QED BY <2>1, <3>1, <3>2, <3>3 DEF Protocols
  <2> HIDE DEF w
  <2> QED BY <2>2 DEF CallsAnsweredAtOnce, WireFits, w
<1> QED BY <1>1, HistoryKept, PTL DEF ClientSpec

=============================================================================
