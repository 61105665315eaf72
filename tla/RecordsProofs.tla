--------------------------- MODULE RecordsProofs ---------------------------
(***************************************************************************)
(* Theorems about what the database keeps of a running review, about the   *)
(* page that shows it, and about opening the file.                         *)
(*                                                                         *)
(* The findings of a completed review are exact because ReplaceFindings    *)
(* starts from an empty table and only goes on when each insertion worked. *)
(* A page catches up because of what PageFits says of every state: what    *)
(* the page has read is current, or something still carries the news, or   *)
(* news was lost and the page has not read since.                          *)
(***************************************************************************)
EXTENDS JobRecords, Schema, WellFoundedInduction, TLAPS

-----------------------------------------------------------------------------
(* The inductive invariant of the records.                                 *)

States == {"running", "retry_wait", "completed", "failed_infra", "stale"}

Row == [state : States, figures : Figures, filed : BOOLEAN]

Seen == [state : States \union {"none"}, figures : Figures, findings : SUBSET Findings]

Fetches == [stage : {"asked", "job", "shown"}, parsed : BOOLEAN, seen : Seen]

WriterPlaces == {"idle", "record", "drop", "resend"}

RunPlaces == {"reviewing", "replace", "insert", "failed", "publish", "retry", "finish",
              "waiting", "ended", "abandoned"}

WritersFit == writeAt \in [Writers -> WriterPlaces] /\ telling \in [Writers -> Told]

RowFits ==
  /\ row \in Row /\ stored \in SUBSET Findings /\ artifact \in SUBSET SUBSET Findings
  /\ outcome \in SUBSET Findings /\ leftover \in SUBSET Findings

\* The buffer of a page that has a subscription is within its capacity.
ChannelFits ==
  /\ channel \in Seq(BOOLEAN) /\ Len(channel) <= BusCapacity
  /\ channel = <<>> \/ streaming

\* The row follows the run, unless it was made stale, and the findings are complete
\* once all of the result's have been inserted.
RunFits ==
  /\ runAt \in RunPlaces
  /\ runAt \notin {"waiting", "ended"} => row.state \in {"running", "stale"}
  /\ runAt = "waiting" => row.state = "retry_wait"
  /\ runAt = "ended" => row.state \in {"completed", "failed_infra", "stale"}
  /\ runAt = "insert" => stored \union leftover = outcome
  /\ runAt \in {"publish", "finish"} \/ row.state = "completed" =>
       stored = outcome /\ artifact = {outcome}

\* What the page has read of the job, and of its findings.
ReadIsCurrent == fetch.seen.state = row.state /\ fetch.seen.figures = row.figures

FetchIsCurrent ==
  /\ fetch.stage = "job" => ReadIsCurrent /\ fetch.parsed = Parsed
  /\ fetch.stage = "shown" => ReadIsCurrent /\ Shows(fetch.seen.findings, stored, Parsed)

\* While something is untold the table may have changed without an event.
PageFits == missed \/ News \/ Untold \/ FetchIsCurrent

\* A writer makes room on the bus.
Squeezes == \E w \in Writers : writeAt[w] \in {"drop", "resend"}

BusFits == owed => channel # <<>> \/ Squeezes

RecInv ==
  /\ WritersFit /\ RowFits /\ ChannelFits /\ fetch \in Fetches
  /\ streaming \in BOOLEAN /\ missed \in BOOLEAN /\ owed \in BOOLEAN
  /\ RunFits /\ PageFits /\ BusFits

\* A page that asks anew has read nothing.
LEMMA AskedFits == JobRecordsAssumption => Asked \in Fetches /\ Asked.stage = "asked"
BY DEF JobRecordsAssumption, Asked, Unread, Fetches, Seen

\* It holds at the start.
LEMMA RecInvInit == JobRecordsAssumption /\ RecInit => RecInv
<1> SUFFICES ASSUME JobRecordsAssumption, RecInit PROVE RecInv
  OBVIOUS
<1>1. WritersFit
  BY DEF RecInit, WritersFit, WriterPlaces, Told
<1>2. RowFits /\ RunFits
  BY DEF RecInit, RowFits, RunFits, RunPlaces, Row, States, JobRecordsAssumption
<1>3. ChannelFits /\ BusFits
  BY DEF RecInit, ChannelFits, BusFits, JobRecordsAssumption
<1>4. fetch \in Fetches /\ fetch.stage = "asked"
  BY AskedFits DEF RecInit
<1> QED BY <1>1, <1>2, <1>3, <1>4 DEF RecInv, PageFits, FetchIsCurrent, RecInit

-----------------------------------------------------------------------------
(* The writers.                                                            *)

\* An empty buffer fits.
LEMMA EmptyChannelFits ==
  ASSUME JobRecordsAssumption PROVE <<>> \in Seq(BOOLEAN) /\ Len(<<>>) <= BusCapacity
BY DEF JobRecordsAssumption

\* A writer that was idle carries an event: no news is lost by it, and it is
\* news itself if the page heeds it.
LEMMA TellingIsNews ==
  ASSUME WritersFit, NEW w \in Writers, Idle(w), NEW type \in Told, Tells(w, type),
         UNCHANGED channel
  PROVE  /\ WritersFit' /\ (News => News') /\ (Squeezes => Squeezes')
         /\ Invalidates(type) => News'
<1>1. /\ writeAt' = [writeAt EXCEPT ![w] = "record"]
      /\ telling' = [telling EXCEPT ![w] = type]
  BY DEF Tells
<1>2. WritersFit'
  BY <1>1 DEF WritersFit, WriterPlaces
<1>3. writeAt'[w] = "record" /\ telling'[w] = type
  BY <1>1 DEF WritersFit
<1>4. \A v \in Writers : v # w => writeAt'[v] = writeAt[v] /\ telling'[v] = telling[v]
  BY <1>1 DEF WritersFit
<1>5. writeAt[w] = "idle"
  BY DEF Idle
<1>6. News => News'
  BY <1>4, <1>5 DEF News, Idle
<1>7. Squeezes => Squeezes'
  BY <1>4, <1>5 DEF Squeezes
<1> QED BY <1>2, <1>3, <1>6, <1>7 DEF News, Idle

\* What the page has read stays as it is while the records do.
LEMMA PageStays ==
  ASSUME PageFits, UNCHANGED <<row, stored, artifact, fetch>>,
         News => News' \/ missed', missed => missed', Untold => Untold' \/ News' \/ missed'
  PROVE  PageFits'
BY DEF PageFits, FetchIsCurrent, ReadIsCurrent, Shows, Parsed

\* Another job's event is on its way.
LEMMA ElsewhereKeepsInv ==
  ASSUME RecInv, NEW w \in Others, Elsewhere(w)
  PROVE  RecInv'
<1>1. /\ w \in Writers /\ "other_job" \in Told /\ Idle(w) /\ Tells(w, "other_job")
      /\ UNCHANGED <<row, stored, artifact, outcome, runAt, leftover, channel, streaming,
                     fetch, missed, owed>>
  BY DEF Elsewhere, Writers, Told, runVars, pageVars
<1>2. WritersFit' /\ (News => News') /\ (Squeezes => Squeezes')
  <2>1. WritersFit /\ UNCHANGED channel
    BY <1>1 DEF RecInv
  <2> QED BY ONLY <1>1, <2>1, TellingIsNews
<1>3. PageFits'
  BY <1>1, <1>2, PageStays DEF RecInv, Untold
<1> QED BY <1>1, <1>2, <1>3 DEF RecInv, RowFits, ChannelFits, RunFits, BusFits

\* Reports of the review: progress, usage, logs and findings.
LEMMA ReportsKeepInv ==
  ASSUME JobRecordsAssumption, RecInv, NEW w \in Reporters,
         SetProgress(w) \/ OnUsage(w) \/ Log(w) \/ LiveFinding(w)
  PROVE  RecInv'
<1>1. w \in Writers /\ {"progress_updated", "usage_updated", "analysis_log",
                        "finding_updated"} \subseteq Told
  BY DEF Writers, Told
<1>2. Idle(w)
  BY DEF SetProgress, OnUsage, Log, LiveFinding, Report, Idle
<1>3. UNCHANGED <<runVars, pageVars, missed, owed>>
  BY DEF SetProgress, OnUsage, Log, LiveFinding
<1>4. UNCHANGED <<artifact, outcome, runAt, leftover, channel, streaming, fetch>>
  BY <1>3 DEF runVars, pageVars
<1>5. CASE Log(w)
  <2>1. Tells(w, "analysis_log") /\ UNCHANGED <<row, stored>>
    BY <1>5 DEF Log
  <2>2. WritersFit' /\ (News => News') /\ (Squeezes => Squeezes')
    BY <1>1, <1>2, <1>4, <2>1, TellingIsNews DEF RecInv
  <2>3. PageFits'
    BY <1>3, <1>4, <2>1, <2>2, PageStays DEF RecInv, Untold
  <2> QED BY <1>3, <1>4, <2>1, <2>2, <2>3
          DEF RecInv, RowFits, ChannelFits, RunFits, BusFits
<1>6. CASE SetProgress(w) \/ OnUsage(w)
  <2>1. PICK type \in {"progress_updated", "usage_updated"} : Tells(w, type)
    BY <1>6 DEF SetProgress, OnUsage
  <2>2. WritersFit' /\ News' /\ (Squeezes => Squeezes')
    BY <1>1, <1>2, <1>4, <2>1, TellingIsNews DEF RecInv, Invalidates
  <2>3. row' \in Row /\ row'.state = row.state /\ UNCHANGED stored
    <3>1. PICK n \in Figures : row' = [row EXCEPT !.figures = n]
      BY <1>6 DEF SetProgress, OnUsage
    <3> QED BY <1>6, <3>1 DEF SetProgress, OnUsage, RecInv, RowFits, Row
  <2>4. RowFits'
    BY <1>4, <2>3 DEF RowFits, RecInv
  <2>5. RunFits'
    BY <1>4, <2>3 DEF RunFits, RecInv
  <2> QED BY <1>3, <1>4, <2>2, <2>4, <2>5
          DEF RecInv, ChannelFits, BusFits, PageFits
<1>7. CASE LiveFinding(w)
  <2>1. runAt = "reviewing" /\ UNCHANGED row
    BY <1>7 DEF LiveFinding
  <2>2. PICK ok \in BOOLEAN, f \in Findings :
          IF ok THEN stored' = stored \union {f} /\ Tells(w, "finding_updated")
          ELSE UNCHANGED <<stored, writeAt, telling>>
    BY <1>7 DEF LiveFinding
  <2>3. RowFits' /\ RunFits'
    <3>1. stored' \in SUBSET Findings
      BY <2>2 DEF RecInv, RowFits
    <3> QED BY <1>4, <2>1, <3>1 DEF RecInv, RowFits, RunFits
  <2>4. CASE ok
    <3>1. WritersFit' /\ News' /\ (Squeezes => Squeezes')
      BY <1>1, <1>2, <1>4, <2>2, <2>4, TellingIsNews DEF RecInv, Invalidates
    <3> QED BY <1>3, <1>4, <2>3, <3>1
            DEF RecInv, ChannelFits, BusFits, PageFits
  <2>5. CASE ~ok
    <3>1. UNCHANGED <<stored, writeAt, telling>>
      BY <2>2, <2>5
    <3>2. WritersFit' /\ (News => News') /\ (Squeezes => Squeezes')
      BY <1>4, <3>1 DEF RecInv, WritersFit, News, Squeezes, Idle
    <3>3. PageFits'
      BY <1>3, <1>4, <2>1, <3>1, <3>2, PageStays DEF RecInv, Untold
    <3> QED BY <1>3, <1>4, <2>3, <3>2, <3>3
            DEF RecInv, ChannelFits, BusFits
  <2> QED BY <2>4, <2>5
<1> QED BY <1>5, <1>6, <1>7

\* What a writer's further step leaves alone: the records and what was read.
LEMMA ChainsKeepRecords ==
  ASSUME RecInv, UNCHANGED <<row, stored, artifact, outcome, leftover, fetch, streaming>>,
         runAt' = runAt \/ (runAt' = "failed" /\ runAt = "insert")
  PROVE  RowFits' /\ RunFits' /\ fetch' \in Fetches /\ streaming' \in BOOLEAN
         /\ (Untold => Untold')
BY DEF RecInv, RowFits, RunFits, RunPlaces, Untold

\* A writer is done: its event is news no more, and no other writer's is touched.
LEMMA DoneFits ==
  ASSUME WritersFit, NEW w \in Writers, Done(w)
  PROVE  /\ WritersFit' /\ Idle(w)'
         /\ \A v \in Writers : v # w => writeAt'[v] = writeAt[v] /\ telling'[v] = telling[v]
BY DEF Done, WritersFit, WriterPlaces, Told, Idle

\* An event that reaches the buffer stays news.
LEMMA AppendedIsNews ==
  ASSUME ChannelFits, WritersFit, NEW w \in Writers,
         channel' = Append(channel, Invalidates(telling[w])),
         \A v \in Writers : v # w => writeAt'[v] = writeAt[v] /\ telling'[v] = telling[v]
  PROVE  News => News'
<1>1. Invalidates(telling[w]) \in BOOLEAN
  BY DEF Invalidates
<1> DEFINE heeded == Invalidates(telling[w])
<1>2. /\ channel \in Seq(BOOLEAN) /\ Len(channel') = Len(channel) + 1
      /\ channel'[Len(channel) + 1] = heeded /\ Len(channel) \in Nat
      /\ \A i \in 1..Len(channel) : channel'[i] = channel[i]
  <2> HIDE DEF heeded
  <2> QED BY <1>1 DEF ChannelFits, heeded
<1>3. ASSUME NEW i \in 1..Len(channel), channel[i] PROVE News'
  BY <1>2, <1>3 DEF News
<1>4. ASSUME Invalidates(telling[w]) PROVE News'
  <2>1. Len(channel) + 1 \in 1..Len(channel') /\ channel'[Len(channel) + 1]
    BY <1>2, <1>4
  <2> QED BY <2>1 DEF News
<1>5. ASSUME NEW v \in Writers, v # w, ~Idle(v), Invalidates(telling[v]) PROVE News'
  BY <1>5 DEF News, Idle
<1> QED BY <1>3, <1>4, <1>5 DEF News

\* An event that is lost is noticed, if it was news.
LEMMA LostIsMissed ==
  ASSUME RecInv, NEW w \in Writers, UNCHANGED channel, Lost(Invalidates(telling[w])),
         \A v \in Writers : v # w => writeAt'[v] = writeAt[v] /\ telling'[v] = telling[v]
  PROVE  missed' \in BOOLEAN /\ (missed => missed') /\ (News => News' \/ missed')
BY DEF RecInv, Lost, Invalidates, News, Idle

\* The message is sent, into the buffer, to nobody, or not at once.
LEMMA SendFits ==
  ASSUME JobRecordsAssumption, RecInv, NEW w \in Writers, writeAt[w] = "record", Send(w),
         UNCHANGED <<streaming, owed>>
  PROVE  /\ WritersFit' /\ ChannelFits' /\ BusFits' /\ missed' \in BOOLEAN
         /\ (missed => missed') /\ (News => News' \/ missed')
<1>1. WritersFit /\ ChannelFits /\ BusFits /\ missed \in BOOLEAN
  BY DEF RecInv
<1>2. CASE ~streaming /\ Done(w) /\ Lost(Invalidates(telling[w])) /\ UNCHANGED channel
  <2>1. /\ WritersFit'
        /\ \A v \in Writers : v # w => writeAt'[v] = writeAt[v] /\ telling'[v] = telling[v]
    BY <1>1, <1>2, DoneFits
  <2>2. missed' \in BOOLEAN /\ (missed => missed') /\ (News => News' \/ missed')
    BY <1>2, <2>1, LostIsMissed
  <2>3. Squeezes => Squeezes'
    BY <2>1 DEF Squeezes
  <2> QED BY <1>1, <1>2, <2>1, <2>2, <2>3 DEF ChannelFits, BusFits
<1>3. CASE /\ streaming /\ Room /\ Done(w) /\ UNCHANGED missed
           /\ channel' = Append(channel, Invalidates(telling[w]))
  <2>1. /\ WritersFit'
        /\ \A v \in Writers : v # w => writeAt'[v] = writeAt[v] /\ telling'[v] = telling[v]
    BY <1>1, <1>3, DoneFits
  <2>2. News => News'
    BY <1>1, <1>3, <2>1, AppendedIsNews
  <2>3. Invalidates(telling[w]) \in BOOLEAN
    BY DEF Invalidates
  <2>4. channel \in Seq(BOOLEAN) /\ Len(channel) < BusCapacity /\ BusCapacity \in Nat
    BY <1>1, <1>3 DEF ChannelFits, Room, JobRecordsAssumption
  <2>5. channel' \in Seq(BOOLEAN) /\ Len(channel') <= BusCapacity /\ channel' # <<>>
    BY <1>3, <2>3, <2>4
  <2> QED BY <1>1, <1>3, <2>1, <2>2, <2>5 DEF ChannelFits, BusFits
<1>4. CASE writeAt' = [writeAt EXCEPT ![w] = "drop"] /\ UNCHANGED <<telling, channel, missed>>
  <2>1. /\ WritersFit' /\ writeAt'[w] = "drop"
        /\ \A v \in Writers : v # w => writeAt'[v] = writeAt[v]
    BY <1>1, <1>4 DEF WritersFit, WriterPlaces
  <2>2. News => News'
    BY <1>4, <2>1 DEF News, Idle
  <2>3. Squeezes'
    BY <2>1 DEF Squeezes
  <2> QED BY <1>1, <1>4, <2>1, <2>2, <2>3 DEF ChannelFits, BusFits
<1> QED BY <1>2, <1>3, <1>4 DEF Send

\* The event is recorded and sent, or its writer gives up.
LEMMA RecordEventKeepsInv ==
  ASSUME JobRecordsAssumption, RecInv, NEW w \in Writers, RecordEvent(w)
  PROVE  RecInv'
<1>1. /\ UNCHANGED <<row, stored, artifact, outcome, leftover, streaming, fetch, owed>>
      /\ writeAt[w] = "record"
  BY DEF RecordEvent
<1>2. PICK ok \in BOOLEAN :
        /\ IF ok THEN Send(w)
                 ELSE Done(w) /\ Lost(Invalidates(telling[w])) /\ UNCHANGED channel
        /\ runAt' = IF ~ok /\ w = MainRun /\ runAt = "insert" THEN "failed" ELSE runAt
  BY DEF RecordEvent
<1>3. RowFits' /\ RunFits' /\ fetch' \in Fetches /\ streaming' \in BOOLEAN /\ (Untold => Untold')
  BY <1>1, <1>2, ChainsKeepRecords
<1>4. /\ WritersFit' /\ ChannelFits' /\ BusFits' /\ missed' \in BOOLEAN
      /\ (missed => missed') /\ (News => News' \/ missed')
  <2>1. CASE ok
    BY <1>1, <1>2, <2>1, SendFits
  <2>2. CASE ~ok
    <3>1. Done(w) /\ Lost(Invalidates(telling[w])) /\ UNCHANGED channel
      BY <1>2, <2>2
    <3>2. /\ WritersFit'
          /\ \A v \in Writers : v # w => writeAt'[v] = writeAt[v] /\ telling'[v] = telling[v]
      BY <3>1, DoneFits DEF RecInv
    <3>3. missed' \in BOOLEAN /\ (missed => missed') /\ (News => News' \/ missed')
      BY <3>1, <3>2, LostIsMissed
    <3>4. Squeezes => Squeezes'
      BY <1>1, <3>2 DEF Squeezes
    <3> QED BY <1>1, <3>1, <3>2, <3>3, <3>4 DEF RecInv, ChannelFits, BusFits
  <2> QED BY <2>1, <2>2
<1>5. PageFits'
  BY <1>1, <1>3, <1>4, PageStays DEF RecInv
<1> QED BY <1>1, <1>3, <1>4, <1>5 DEF RecInv

\* The writers keep the news they carry.
CarriersKept ==
  \A v \in Writers : ~Idle(v) /\ Invalidates(telling[v]) =>
                       ~Idle(v)' /\ Invalidates(telling'[v])

\* What is left of a buffer after its first event fits, and if that was no news,
\* or was missed, nothing is lost.
LEMMA TailFits ==
  ASSUME JobRecordsAssumption, ChannelFits, channel # <<>>, channel' = Tail(channel),
         UNCHANGED streaming, CarriersKept
  PROVE  ChannelFits' /\ Head(channel) \in BOOLEAN /\ (News => News' \/ Head(channel))
<1>1. channel \in Seq(BOOLEAN) /\ Len(channel) <= BusCapacity /\ BusCapacity \in Nat /\ streaming
  BY DEF ChannelFits, JobRecordsAssumption
<1>2. /\ channel' \in Seq(BOOLEAN) /\ Len(channel') = Len(channel) - 1 /\ Len(channel) \in Nat
      /\ Head(channel) = channel[1] /\ Head(channel) \in BOOLEAN
      /\ \A j \in 1..Len(channel') : channel'[j] = channel[j + 1]
  BY <1>1
<1>3. ASSUME NEW i \in 1..Len(channel), channel[i], ~Head(channel) PROVE News'
  <2>1. i # 1
    BY <1>2, <1>3
  <2>2. i - 1 \in 1..Len(channel') /\ channel'[i - 1] = channel[i]
    BY <1>2, <2>1
  <2> QED BY <1>3, <2>2 DEF News
<1>4. ASSUME NEW v \in Writers, ~Idle(v), Invalidates(telling[v]) PROVE News'
  BY <1>4 DEF News, CarriersKept
<1>5. ASSUME News, ~Head(channel) PROVE News'
  BY <1>3, <1>4, <1>5 DEF News
<1>6. ChannelFits'
  BY <1>1, <1>2 DEF ChannelFits
<1> QED BY <1>2, <1>5, <1>6

\* The oldest event gives way.
LEMMA DropOldestKeepsInv ==
  ASSUME JobRecordsAssumption, RecInv, NEW w \in Writers, DropOldest(w)
  PROVE  RecInv'
<1>1. /\ UNCHANGED <<row, stored, artifact, outcome, leftover, runAt, streaming, fetch, telling>>
      /\ writeAt' = [writeAt EXCEPT ![w] = "resend"] /\ writeAt[w] = "drop"
  BY DEF DropOldest, runVars
<1>2. RowFits' /\ RunFits' /\ fetch' \in Fetches /\ streaming' \in BOOLEAN /\ (Untold => Untold')
  BY <1>1, ChainsKeepRecords
<1>3. /\ WritersFit' /\ writeAt'[w] = "resend"
      /\ \A v \in Writers : v # w => writeAt'[v] = writeAt[v]
  BY <1>1 DEF RecInv, WritersFit, WriterPlaces
<1>4. Squeezes'
  BY <1>3 DEF Squeezes
<1>5. CarriersKept
  BY <1>1, <1>3 DEF Idle, CarriersKept
<1>6. CASE UNCHANGED <<channel, missed, owed>>
  <2>1. News => News'
    BY <1>1, <1>5, <1>6 DEF News, CarriersKept
  <2>2. PageFits'
    BY <1>1, <1>2, <1>6, <2>1, PageStays DEF RecInv
  <2> QED BY <1>1, <1>2, <1>3, <1>4, <1>6, <2>2 DEF RecInv, ChannelFits, BusFits
<1>7. CASE channel # <<>> /\ channel' = Tail(channel) /\ Lost(Head(channel)) /\ owed' = TRUE
  <2>1. ChannelFits' /\ Head(channel) \in BOOLEAN /\ (News => News' \/ Head(channel))
    BY <1>1, <1>5, <1>7, TailFits DEF RecInv
  <2>2. missed' \in BOOLEAN /\ (missed => missed') /\ (News => News' \/ missed')
    BY <1>7, <2>1 DEF Lost, RecInv
  <2>3. PageFits'
    BY <1>1, <1>2, <2>2, PageStays DEF RecInv
  <2> QED BY <1>2, <1>3, <1>4, <1>7, <2>1, <2>2, <2>3 DEF RecInv, BusFits
<1> QED BY <1>6, <1>7 DEF DropOldest

\* The newest event is sent again, unless the place is taken.
LEMMA ResendKeepsInv ==
  ASSUME JobRecordsAssumption, RecInv, NEW w \in Writers, Resend(w)
  PROVE  RecInv'
<1>1. /\ UNCHANGED <<row, stored, artifact, outcome, leftover, runAt, streaming, fetch>>
      /\ Done(w)
  BY DEF Resend, runVars
<1>2. RowFits' /\ RunFits' /\ fetch' \in Fetches /\ streaming' \in BOOLEAN /\ (Untold => Untold')
  BY <1>1, ChainsKeepRecords
<1>3. /\ WritersFit'
      /\ \A v \in Writers : v # w => writeAt'[v] = writeAt[v] /\ telling'[v] = telling[v]
  BY <1>1, DoneFits DEF RecInv
<1>4. channel \in Seq(BOOLEAN) /\ BusCapacity \in Nat \ {0} /\ Invalidates(telling[w]) \in BOOLEAN
  BY DEF RecInv, ChannelFits, Invalidates, JobRecordsAssumption
<1>5. CASE Room /\ streaming
  <2>1. channel' = Append(channel, Invalidates(telling[w])) /\ UNCHANGED <<missed, owed>>
    BY <1>5 DEF Resend
  <2>2. channel' \in Seq(BOOLEAN) /\ Len(channel') <= BusCapacity /\ channel' # <<>>
    BY <1>4, <1>5, <2>1 DEF Room
  <2>3. News => News'
    BY <1>3, <2>1, AppendedIsNews DEF RecInv
  <2>4. PageFits'
    BY <1>1, <1>2, <2>1, <2>3, PageStays DEF RecInv
  <2> QED BY <1>1, <1>2, <1>3, <1>5, <2>1, <2>2, <2>4 DEF RecInv, ChannelFits, BusFits
<1>6. CASE ~(Room /\ streaming)
  <2>1. UNCHANGED channel /\ Lost(Invalidates(telling[w])) /\ owed' = streaming
    BY <1>6 DEF Resend
  <2>2. streaming => channel # <<>>
    BY <1>4, <1>6 DEF Room
  <2>3. missed' \in BOOLEAN /\ (missed => missed') /\ (News => News' \/ missed')
    BY <1>3, <2>1, LostIsMissed
  <2>4. PageFits'
    BY <1>1, <1>2, <2>3, PageStays DEF RecInv
  <2> QED BY <1>1, <1>2, <1>3, <2>1, <2>2, <2>3, <2>4 DEF RecInv, ChannelFits, BusFits
<1> QED BY <1>5, <1>6

-----------------------------------------------------------------------------
(* The worker.                                                             *)

\* A step of the worker that tells of a change: the page will read again.
LEMMA ToldByWorker ==
  ASSUME RecInv, Idle(MainRun), NEW type \in Told, Invalidates(type),
         Tells(MainRun, type), UNCHANGED <<pageVars, missed, owed>>, RowFits', RunFits'
  PROVE  RecInv'
<1>1. UNCHANGED <<channel, streaming, fetch>> /\ MainRun \in Writers
  BY DEF pageVars, Writers
<1>2. WritersFit' /\ News' /\ (Squeezes => Squeezes')
  BY <1>1, TellingIsNews DEF RecInv
<1> QED BY <1>1, <1>2 DEF RecInv, ChannelFits, BusFits, PageFits

\* A step of the worker that tells nothing: the page does not see it, or the
\* worker is on the way to tell, or it is known to be missed.
LEMMA SilentWorker ==
  ASSUME RecInv, UNCHANGED <<writeAt, telling, pageVars, owed>>, RowFits', RunFits',
         missed' \in BOOLEAN, missed => missed',
         Untold' \/ missed' \/ (UNCHANGED <<row, stored, artifact>> /\ ~Untold)
  PROVE  RecInv'
<1>1. UNCHANGED <<channel, streaming, fetch>>
  BY DEF pageVars
<1>2. WritersFit' /\ (News => News') /\ (Squeezes => Squeezes')
  BY <1>1 DEF RecInv, WritersFit, News, Idle, Squeezes
<1>3. PageFits'
  <2>1. CASE Untold' \/ missed'
    BY <2>1 DEF PageFits
  <2>2. CASE UNCHANGED <<row, stored, artifact>> /\ ~Untold
    BY <1>1, <1>2, <2>2, PageStays DEF RecInv
  <2> QED BY <2>1, <2>2
<1> QED BY <1>1, <1>2, <1>3 DEF RecInv, ChannelFits, BusFits

\* The review returns, and its findings replace those that are stored.
LEMMA ReplacingKeepsInv ==
  ASSUME JobRecordsAssumption, RecInv, ReviewReturns \/ DeleteFindings \/ InsertFinding
  PROVE  RecInv'
<1>1. "finding_updated" \in Told /\ Invalidates("finding_updated") /\ missed \in BOOLEAN
  BY DEF Told, Invalidates, RecInv
<1>2. CASE ReviewReturns
  <2>1. RowFits' /\ RunFits'
    BY <1>2 DEF ReviewReturns, MainAt, RecInv, RowFits, RunFits, RunPlaces
  <2>2. UNCHANGED <<row, stored, artifact>> /\ ~Untold
    BY <1>2 DEF ReviewReturns, MainAt, Untold
  <2> QED BY <1>1, <1>2, <2>1, <2>2, SilentWorker DEF ReviewReturns
<1>3. CASE DeleteFindings
  <2>1. PICK ok \in BOOLEAN : /\ stored' = IF ok THEN Kept ELSE stored
                              /\ runAt' = IF ok THEN "insert" ELSE "failed"
    BY <1>3 DEF DeleteFindings
  <2>2. RowFits'
    BY <1>3, <2>1 DEF DeleteFindings, Kept, RecInv, RowFits
  <2>3. RunFits'
    BY <1>3, <2>1 DEF DeleteFindings, MainAt, Kept, RecInv, RunFits, RunPlaces
  <2>4. Untold'
    BY <2>1 DEF Untold
  <2> QED BY <1>1, <1>3, <2>2, <2>3, <2>4, SilentWorker DEF DeleteFindings
<1>4. CASE InsertFinding
  <2>1. PICK f \in leftover, ok \in BOOLEAN :
          /\ stored' = IF ok THEN stored \union {f} ELSE stored
          /\ leftover' = leftover \ {f}
          /\ IF ok THEN Tells(MainRun, "finding_updated") /\ UNCHANGED runAt
             ELSE runAt' = "failed" /\ UNCHANGED <<writeAt, telling>>
    BY <1>4 DEF InsertFinding
  <2>2. UNCHANGED <<row, artifact, outcome, pageVars, missed, owed>>
    BY <1>4 DEF InsertFinding
  <2>3. runAt = "insert" /\ Idle(MainRun)
    BY <1>4 DEF InsertFinding, MainAt
  <2>4. RowFits'
    BY <2>1, <2>2 DEF RecInv, RowFits
  <2>5. RunFits'
    <3>1. stored \union leftover = outcome /\ row.state \in {"running", "stale"}
      BY <2>3 DEF RecInv, RunFits
    <3>2. ok => stored' \union leftover' = outcome
      BY <2>1, <3>1
    <3> QED BY <2>1, <2>2, <2>3, <3>1, <3>2 DEF RunFits, RunPlaces
  <2>6. CASE ok
    BY <1>1, <2>1, <2>2, <2>3, <2>4, <2>5, <2>6, ToldByWorker
  <2>7. CASE ~ok
    <3>1. Untold'
      BY <2>1, <2>7 DEF Untold
    <3> QED BY <1>1, <2>1, <2>2, <2>4, <2>5, <2>7, <3>1, SilentWorker
  <2> QED BY <2>6, <2>7
<1> QED BY <1>2, <1>3, <1>4

\* The result is written; another revision supersedes the job, at any moment; and
\* the worker leaves, or goes on to publish.
LEMMA LeavingKeepsInv ==
  ASSUME JobRecordsAssumption, RecInv, WriteResult \/ Supersede \/ Leave \/ StartPublishing
  PROVE  RecInv'
<1>1. /\ "stage_started" \in Told /\ Invalidates("stage_started") /\ missed \in BOOLEAN
      /\ row \in Row /\ RowFits /\ RunFits
  BY DEF Told, Invalidates, RecInv, RowFits
<1>2. CASE WriteResult
  <2>1. PICK ok \in BOOLEAN :
          /\ artifact' = IF ok THEN {outcome} ELSE {}
          /\ runAt' = IF ok /\ runAt = "insert" THEN "publish" ELSE "retry"
    BY <1>2 DEF WriteResult
  <2>2. /\ UNCHANGED <<row, stored, outcome, leftover>>
        /\ runAt = "failed" \/ (runAt = "insert" /\ leftover = {})
    BY <1>2 DEF WriteResult, MainAt
  <2>3. RowFits'
    BY <1>1, <2>1, <2>2 DEF RowFits
  <2>4. RunFits'
    BY <1>1, <2>1, <2>2 DEF RunFits, RunPlaces
  <2>5. Untold'
    BY <2>1 DEF Untold
  <2> QED BY <1>1, <1>2, <2>3, <2>4, <2>5, SilentWorker DEF WriteResult
<1>3. CASE Supersede
  <2>1. /\ row' = [row EXCEPT !.state = "stale"] /\ missed' = TRUE
        /\ runAt' = IF runAt = "waiting" THEN "ended" ELSE runAt
        /\ row.state \in {"running", "retry_wait"}
        /\ UNCHANGED <<stored, artifact, outcome, leftover>>
    BY <1>3 DEF Supersede
  <2>2. row' \in Row /\ row'.state = "stale"
    BY <1>1, <2>1 DEF Row, States
  <2>3. RowFits' /\ RunFits'
    BY <1>1, <2>1, <2>2 DEF RowFits, RunFits, RunPlaces
  <2> QED BY <1>1, <1>3, <2>1, <2>3, SilentWorker DEF Supersede
<1>4. CASE Leave
  <2>1. /\ row.state = "stale" /\ runAt' = "ended" /\ missed' = (missed \/ Untold)
        /\ UNCHANGED <<row, stored, artifact, outcome, leftover>>
    BY <1>4 DEF Leave
  <2>2. RowFits' /\ RunFits'
    BY <1>1, <2>1 DEF RowFits, RunFits, RunPlaces
  <2>3. missed' \in BOOLEAN /\ (missed => missed') /\ (missed' \/ ~Untold)
    BY <1>1, <2>1 DEF Untold
  <2> QED BY <1>4, <2>1, <2>2, <2>3, SilentWorker DEF Leave
<1>5. CASE StartPublishing
  <2>1. /\ Idle(MainRun) /\ runAt = "publish" /\ runAt' = "finish"
        /\ Tells(MainRun, "stage_started") /\ UNCHANGED <<pageVars, missed, owed>>
        /\ UNCHANGED <<row, stored, artifact, outcome, leftover>>
    BY <1>5 DEF StartPublishing, MainAt
  <2>2. RowFits' /\ RunFits'
    BY <1>1, <2>1 DEF RowFits, RunFits, RunPlaces
  <2> QED BY <1>1, <2>1, <2>2, ToldByWorker
<1> QED BY <1>2, <1>3, <1>4, <1>5

\* The job ends, or is put back.
LEMMA EndingKeepsInv ==
  ASSUME JobRecordsAssumption, RecInv, 
         FinishStale \/ FinishCompleted \/ ScheduleAgain \/ FinishFailed
  PROVE  RecInv'
<1>1. /\ \A type \in {"job_finished", "retry_scheduled"} : type \in Told /\ Invalidates(type)
      /\ missed \in BOOLEAN /\ row \in Row /\ RowFits /\ RunFits
  BY DEF Told, Invalidates, RecInv, RowFits
<1>2. PICK state \in {"stale", "completed", "retry_wait", "failed_infra"},
           filed \in BOOLEAN, type \in {"job_finished", "retry_scheduled"} :
        /\ Ends(state, filed, type) /\ (state = "completed" => runAt = "finish")
        /\ Idle(MainRun) /\ runAt \in {"publish", "retry", "finish"}
  BY DEF FinishStale, FinishCompleted, ScheduleAgain, FinishFailed, MainAt
<1>3. UNCHANGED <<stored, artifact, outcome, leftover, pageVars, missed, owed>>
  BY <1>2 DEF Ends
<1>4. row.state \in {"running", "stale"}
  BY <1>1, <1>2 DEF RunFits
<1>5. ASSUME NEW n \in Figures,
             /\ row' = IF row.state = "stale" /\ state # "stale" THEN row
                       ELSE [row EXCEPT !.state = state, !.figures = n, !.filed = filed]
             /\ runAt' = IF row'.state = "retry_wait" THEN "waiting" ELSE "ended"
             /\ Tells(MainRun, type)
      PROVE  RecInv'
  <2>1. row' \in Row /\ row'.state \in {"stale", state}
    BY <1>1, <1>4, <1>5 DEF Row, States
  <2>2. row'.state = "completed" => stored = outcome /\ artifact = {outcome}
    BY <1>1, <1>2, <2>1 DEF RunFits
  <2>3. RowFits' /\ RunFits'
    BY <1>1, <1>2, <1>3, <1>5, <2>1, <2>2 DEF RowFits, RunFits, RunPlaces
  <2> QED BY <1>1, <1>2, <1>3, <1>5, <2>3, ToldByWorker
<1>6. CASE UNCHANGED <<row, writeAt, telling>> /\ runAt' = "abandoned"
  <2>1. RowFits' /\ RunFits'
    BY <1>1, <1>3, <1>4, <1>6 DEF RowFits, RunFits, RunPlaces
  <2>2. Untold'
    BY <1>6 DEF Untold
  <2> QED BY <1>1, <1>3, <1>6, <2>1, <2>2, SilentWorker
<1> QED BY <1>2, <1>5, <1>6 DEF Ends

\* The job is claimed again, or the process is killed, of which the page is not told.
LEMMA RestartsKeepInv ==
  ASSUME JobRecordsAssumption, RecInv, ClaimAgain \/ KillProcess
  PROVE  RecInv'
<1>1. /\ row \in Row /\ RowFits /\ RunFits /\ missed \in BOOLEAN
      /\ "stage_started" \in Told /\ Invalidates("stage_started")
  BY DEF RecInv, RowFits, Told, Invalidates
<1>2. CASE ClaimAgain
  <2>1. /\ runAt = "waiting" /\ Idle(MainRun) /\ row' = [row EXCEPT !.state = "running"]
        /\ leftover' = {} /\ outcome' = {}
        /\ UNCHANGED <<stored, artifact, pageVars, missed, owed>>
        /\ \/ runAt' = "reviewing" /\ Tells(MainRun, "stage_started")
           \/ runAt' = "abandoned" /\ UNCHANGED <<writeAt, telling>>
    BY <1>2 DEF ClaimAgain, MainAt
  <2>2. row' \in Row /\ row'.state = "running"
    BY <1>1, <2>1 DEF Row, States
  <2>3. RowFits' /\ RunFits'
    BY <1>1, <2>1, <2>2 DEF RowFits, RunFits, RunPlaces
  <2>4. CASE runAt' = "reviewing" /\ Tells(MainRun, "stage_started")
    BY <1>1, <2>1, <2>3, <2>4, ToldByWorker
  <2>5. CASE runAt' = "abandoned" /\ UNCHANGED <<writeAt, telling>>
    BY <1>1, <2>1, <2>3, <2>5, SilentWorker DEF Untold
  <2> QED BY <2>1, <2>4, <2>5
<1>3. CASE KillProcess
  <2>1. /\ row' = [row EXCEPT !.state = IF @ = "running" THEN "retry_wait" ELSE @]
        /\ runAt' = IF row'.state = "retry_wait" THEN "waiting" ELSE "ended"
        /\ outcome' = IF row.state = "completed" THEN outcome ELSE {}
        /\ leftover' = {} /\ UNCHANGED <<stored, artifact, fetch>>
        /\ channel' = <<>> /\ streaming' = FALSE /\ missed' = TRUE /\ owed' = FALSE
    BY <1>3 DEF KillProcess
  <2>2. row' \in Row /\ row'.state = IF row.state = "running" THEN "retry_wait" ELSE row.state
    BY <1>1, <2>1 DEF Row, States
  <2>3. RowFits'
    BY <1>1, <2>1, <2>2 DEF RowFits
  <2>4. row.state \in States
    BY <1>1 DEF Row
  <2>5. RunFits'
    BY <1>1, <2>1, <2>2, <2>4 DEF RunFits, RunPlaces, States
  <2>6. WritersFit'
    BY <1>3 DEF KillProcess, WritersFit, WriterPlaces, Told
  <2>7. ChannelFits' /\ BusFits' /\ PageFits'
    BY <2>1, EmptyChannelFits DEF ChannelFits, BusFits, PageFits
  <2> QED BY <2>1, <2>3, <2>5, <2>6, <2>7 DEF RecInv
<1> QED BY <1>2, <1>3

-----------------------------------------------------------------------------
(* The page.                                                               *)

\* The stream of the page opens, ends, and delivers an event.
LEMMA StreamKeepsInv ==
  ASSUME JobRecordsAssumption, RecInv, Subscribe \/ Unsubscribe \/ Receive
  PROVE  RecInv'
<1>1. UNCHANGED <<row, stored, artifact, outcome, leftover, runAt, writeAt, telling>>
  BY DEF Subscribe, Unsubscribe, Receive, runVars
<1>2. RowFits' /\ RunFits' /\ WritersFit' /\ (Squeezes => Squeezes') /\ (Untold => Untold')
  BY <1>1 DEF RecInv, RowFits, RunFits, WritersFit, Squeezes, Untold
<1>3. CASE Subscribe
  <2>1. channel = <<>> /\ UNCHANGED <<channel, fetch, missed, owed>> /\ streaming' = TRUE
    BY <1>3 DEF Subscribe, RecInv, ChannelFits
  <2>2. News => News'
    BY <1>1, <2>1 DEF News, Idle
  <2>3. PageFits'
    BY <1>1, <1>2, <2>1, <2>2, PageStays DEF RecInv
  <2> QED BY <1>2, <2>1, <2>3 DEF RecInv, ChannelFits, BusFits
<1>4. CASE Unsubscribe
  <2>1. channel' = <<>> /\ missed' = TRUE /\ owed' = FALSE /\ streaming' = FALSE /\ UNCHANGED fetch
    BY <1>4 DEF Unsubscribe
  <2> QED BY <1>2, <2>1, EmptyChannelFits DEF RecInv, ChannelFits, BusFits, PageFits
<1>5. CASE Receive
  <2>1. PICK ok \in BOOLEAN :
          /\ IF ok THEN UNCHANGED missed ELSE Lost(Head(channel))
          /\ fetch' = IF ok /\ Head(channel) THEN Asked ELSE fetch
    BY <1>5 DEF Receive
  <2>2. channel # <<>> /\ channel' = Tail(channel) /\ owed' = FALSE /\ UNCHANGED streaming
    BY <1>5 DEF Receive
  <2>3. ChannelFits' /\ Head(channel) \in BOOLEAN /\ (News => News' \/ Head(channel))
    <3>1. CarriersKept /\ ChannelFits
      BY <1>1 DEF RecInv, Idle, CarriersKept
    <3> QED BY <2>2, <3>1, TailFits
  <2>4. missed' \in BOOLEAN /\ (missed => missed') /\ fetch' \in Fetches
    BY <2>1, <2>3, AskedFits DEF Lost, RecInv
  <2>5. PageFits'
    <3>1. CASE ok /\ Head(channel)
      BY <2>1, <3>1, AskedFits DEF PageFits, FetchIsCurrent
    <3>2. CASE ~(ok /\ Head(channel))
      <4>1. UNCHANGED fetch /\ (News => News' \/ missed')
        BY <2>1, <2>3, <3>2 DEF Lost
      <4> QED BY <1>1, <1>2, <2>4, <4>1, PageStays DEF RecInv
    <3> QED BY <3>1, <3>2
  <2> QED BY <1>2, <2>2, <2>3, <2>4, <2>5 DEF RecInv, BusFits
<1> QED BY <1>3, <1>4, <1>5

\* The page reads the job, and then its findings.
LEMMA ReadsKeepInv ==
  ASSUME JobRecordsAssumption, RecInv, ReadJob \/ ReadFindings
  PROVE  RecInv'
<1>1. UNCHANGED <<row, stored, artifact, outcome, leftover, runAt, writeAt, telling, channel,
                  streaming, owed>>
  BY DEF ReadJob, ReadFindings, runVars
<1>2. /\ RowFits' /\ RunFits' /\ WritersFit' /\ ChannelFits' /\ BusFits'
      /\ (News => News') /\ (Untold => Untold')
  BY <1>1 DEF RecInv, RowFits, RunFits, WritersFit, ChannelFits, BusFits, Squeezes, News, Idle,
              Untold
<1>3. row \in Row /\ stored \in SUBSET Findings /\ fetch \in Fetches /\ missed \in BOOLEAN
  BY DEF RecInv, RowFits
<1>4. CASE ReadJob
  <2>1. /\ fetch' = [stage |-> "job", parsed |-> Parsed,
                    seen |-> [state |-> row.state, figures |-> row.figures, findings |-> {}]]
        /\ missed' = FALSE
    BY <1>4 DEF ReadJob
  <2>2. [state |-> row.state, figures |-> row.figures, findings |-> {}] \in Seen
    BY <1>3 DEF Row, Seen
  <2>3. Parsed \in BOOLEAN
    BY <1>3 DEF Parsed, Row
  <2>4. fetch' \in Fetches
    BY <2>1, <2>2, <2>3 DEF Fetches
  <2>5. FetchIsCurrent'
    BY <1>1, <2>1 DEF FetchIsCurrent, ReadIsCurrent, Parsed
  <2> QED BY <1>1, <1>2, <2>1, <2>4, <2>5 DEF RecInv, PageFits
<1>5. CASE ReadFindings
  <2>1. PICK ok \in BOOLEAN, found \in SUBSET Findings :
          /\ missed' = (missed \/ ~ok)
          /\ Shows(found, IF ok THEN stored ELSE {}, fetch.parsed)
          /\ fetch' = [fetch EXCEPT !.stage = "shown", !.parsed = FALSE, !.seen.findings = found]
    BY <1>5 DEF ReadFindings
  <2>2. fetch.stage = "job" /\ fetch.seen \in Seen
    BY <1>3, <1>5 DEF ReadFindings, Fetches
  <2>3. /\ fetch'.stage = "shown" /\ fetch'.parsed = FALSE
        /\ fetch'.seen = [fetch.seen EXCEPT !.findings = found]
        /\ fetch' = [stage |-> "shown", parsed |-> FALSE, seen |-> fetch'.seen]
    BY <1>3, <2>1 DEF Fetches
  <2>4. /\ fetch'.seen \in Seen /\ fetch'.seen.findings = found
        /\ fetch'.seen.state = fetch.seen.state /\ fetch'.seen.figures = fetch.seen.figures
    BY <2>1, <2>2, <2>3 DEF Seen
  <2>5. fetch' \in Fetches
    BY <2>3, <2>4 DEF Fetches
  <2>6. missed' \in BOOLEAN /\ (missed => missed')
    BY <1>3, <2>1
  <2>7. ok /\ FetchIsCurrent => FetchIsCurrent'
    BY <1>1, <2>1, <2>2, <2>3, <2>4 DEF FetchIsCurrent, ReadIsCurrent, Parsed
  <2>8. PageFits'
    BY <1>2, <2>1, <2>6, <2>7 DEF RecInv, PageFits
  <2> QED BY <1>1, <1>2, <2>5, <2>6, <2>8 DEF RecInv
<1> QED BY <1>4, <1>5

-----------------------------------------------------------------------------
(* What follows for every reachable state.                                 *)

\* The inductive invariant holds in every state of the records.
THEOREM RecordsInvariant == RecSpec => []RecInv
<1> USE JobRecordsAssumption
<1>1. RecInit => RecInv
  BY RecInvInit
<1>2. RecInv /\ [RecNext]_recVars => RecInv'
  <2> SUFFICES ASSUME RecInv, [RecNext]_recVars PROVE RecInv'
    OBVIOUS
  <2>1. CASE UNCHANGED recVars
    BY <2>1 DEF recVars, RecInv, WritersFit, RowFits, ChannelFits, RunFits, PageFits, News, Idle,
       Untold, FetchIsCurrent, ReadIsCurrent, Shows, Parsed, BusFits, Squeezes
  <2>2. CASE \E w \in Reporters : SetProgress(w) \/ OnUsage(w) \/ Log(w) \/ LiveFinding(w)
    BY <2>2, ReportsKeepInv
  <2>3. CASE \E w \in Others : Elsewhere(w)
    BY <2>3, ElsewhereKeepsInv
  <2>4. CASE \E w \in Writers : RecordEvent(w) \/ DropOldest(w) \/ Resend(w)
    BY <2>4, RecordEventKeepsInv, DropOldestKeepsInv, ResendKeepsInv
  <2>5. CASE ReviewReturns \/ DeleteFindings \/ InsertFinding
    BY <2>5, ReplacingKeepsInv
  <2>6. CASE WriteResult \/ Supersede \/ Leave \/ StartPublishing
    BY <2>6, LeavingKeepsInv
  <2>7. CASE FinishStale \/ FinishCompleted \/ ScheduleAgain \/ FinishFailed
    BY <2>7, EndingKeepsInv
  <2>8. CASE ClaimAgain \/ KillProcess
    BY <2>8, RestartsKeepInv
  <2>9. CASE Subscribe \/ Unsubscribe \/ Receive
    BY <2>9, StreamKeepsInv
  <2>10. CASE ReadJob \/ ReadFindings
    BY <2>10, ReadsKeepInv
  <2> QED BY <2>1, <2>2, <2>3, <2>4, <2>5, <2>6, <2>7, <2>8, <2>9, <2>10 DEF RecNext
<1> QED BY <1>1, <1>2, PTL DEF RecSpec

\* A completed review has stored and filed exactly the findings of its result,
\* whichever statement failed, wherever an attempt was killed or superseded.
THEOREM CompletedStaysExact == RecSpec => []CompletedFindingsExact
<1>1. RecInv => CompletedFindingsExact
  BY DEF RecInv, RunFits, CompletedFindingsExact
<1> QED BY <1>1, RecordsInvariant, PTL

\* A page that was told of every change shows the job as it is, or news of it is on
\* its way, whichever other jobs share the bus; and a page that was overrun still
\* has an event to come.
THEOREM PagesStayCurrent == RecSpec => []PagesCatchUp
<1>1. RecInv => RecTypeOK
  BY DEF RecInv, WritersFit, WriterPlaces, RowFits, Row, States, ChannelFits, Fetches, Seen, RecTypeOK
<1>2. RecInv => ShownUnlessMissed
  BY DEF RecInv, PageFits, FetchIsCurrent, ReadIsCurrent, ShownUnlessMissed
<1>3. RecInv => OverrunLeavesNews
  BY DEF RecInv, BusFits, Squeezes, OverrunLeavesNews
<1> QED BY <1>1, <1>2, <1>3, RecordsInvariant, PTL DEF PagesCatchUp

-----------------------------------------------------------------------------
(* Opening the file.                                                       *)

FileRecord ==
  [tables : SUBSET ToSet(Tables), key : {"head", "target"},
   columns : SUBSET (ToSet(ProgressColumns) \union ToSet(TokenColumns)), referred : BOOLEAN]

OpenStages == {"closed", "tables", "identity", "rebuild", "token", "progress", "open"}

\* What Open has made sure of before each of its stages, on this connection:
\* the migrations never find what they would fail on.
SchemaInv ==
  /\ db \in FileRecord /\ keysOn \in BOOLEAN /\ stage \in OpenStages
  /\ stage \in {"tables", "identity", "token", "progress", "open"} => keysOn
  /\ stage = "rebuild" => ~keysOn
  /\ stage \in {"identity", "rebuild", "token", "progress", "open"} =>
       ToSet(Tables) \subseteq db.tables
  /\ stage \in {"token", "progress", "open"} => db.key = "target"
  /\ stage \in {"progress", "open"} => ToSet(TokenColumns) \subseteq db.columns
  /\ stage = "open" => ToSet(ProgressColumns) \subseteq db.columns

\* A name of a list that is lacking is one of the list and is not there; none
\* is lacking when all are there.
LEMMA FirstLackingLacks ==
  ASSUME NEW names, DOMAIN names \in SUBSET Nat, NEW present
  PROVE  /\ Lacking(names, present) = {} => ToSet(names) \subseteq present
         /\ Lacking(names, present) # {} =>
              /\ FirstLacking(names, present) \in ToSet(names)
              /\ FirstLacking(names, present) \notin present
<1> DEFINE L == Lacking(names, present)
           R == {pair \in Nat \X Nat : pair[1] < pair[2]}
<1>1. Lacking(names, present) = {} => ToSet(names) \subseteq present
  BY DEF Lacking, ToSet
<1>2. ASSUME L # {} PROVE Min(L) \in L
  <2>1. L \in SUBSET Nat
    BY DEF Lacking
  <2>2. IsWellFoundedOn(R, Nat)
    BY NatLessThanWellFounded DEF OpToRel
  <2> HIDE DEF R, L
  <2>3. PICK x \in L : \A y \in L : ~(<<y, x>> \in R)
    BY <1>2, <2>1, <2>2, WFMin
  <2>4. ASSUME NEW y \in L PROVE x <= y
    <3>1. x \in Nat /\ y \in Nat
      BY <2>1, <2>3
    <3>2. <<y, x>> \in Nat \X Nat /\ <<y, x>>[1] = y /\ <<y, x>>[2] = x
      BY <3>1
    <3>3. ~(y < x)
      BY <2>3, <3>2 DEF R
    <3> QED BY <3>1, <3>3
  <2> QED BY <2>3, <2>4 DEF Min
<1> QED BY <1>1, <1>2 DEF Lacking, FirstLacking, ToSet

\* The lists of names are lists.
LEMMA NamesAreLists ==
  /\ DOMAIN Tables \in SUBSET Nat
  /\ DOMAIN ProgressColumns \in SUBSET Nat /\ DOMAIN TokenColumns \in SUBSET Nat
BY DEF Tables, ProgressColumns, TokenColumns

\* It holds in every file an earlier version may have left.
LEMMA SchemaInvInit == SchemaInit => SchemaInv
<1> SUFFICES ASSUME SchemaInit PROVE SchemaInv
  OBVIOUS
<1>1. {"review_job", "review_finding"} \subseteq ToSet(Tables)
  BY DEF Tables, ToSet
<1>2. PICK tables \in SUBSET ToSet(Tables), key \in {"head", "target"},
           columns \in SUBSET ToSet(ProgressColumns) : db = OldFile(tables, key, columns)
  BY <1>1 DEF SchemaInit
<1>3. db \in FileRecord
  BY <1>2 DEF OldFile, FileRecord
<1> QED BY <1>3 DEF SchemaInit, SchemaInv, OpenStages

\* A statement that creates a table keeps it,
LEMMA CreateTableKeepsInv ==
  ASSUME SchemaInv, CreateTable
  PROVE  SchemaInv'
<1> DEFINE table == FirstLacking(Tables, db.tables)
<1>1. stage = "tables" /\ UNCHANGED keysOn
  BY DEF CreateTable
<1>2. CASE Lacking(Tables, db.tables) = {}
  <2>1. stage' = "identity" /\ UNCHANGED db
    BY <1>2 DEF CreateTable
  <2>2. ToSet(Tables) \subseteq db.tables
    BY <1>2, FirstLackingLacks, NamesAreLists
  <2> QED BY <1>1, <2>1, <2>2 DEF SchemaInv, OpenStages
<1>3. CASE Lacking(Tables, db.tables) # {}
  <2>1. /\ db' = [db EXCEPT !.tables = @ \union {table}, !.columns = @ \union ColumnsOf(table)]
        /\ UNCHANGED stage
    BY <1>3 DEF CreateTable
  <2>2. table \in ToSet(Tables)
    BY <1>3, FirstLackingLacks, NamesAreLists
  <2>3. ColumnsOf(table) \subseteq ToSet(ProgressColumns) \union ToSet(TokenColumns)
    BY DEF ColumnsOf
  <2> HIDE DEF table
  <2>4. db' \in FileRecord
    BY <2>1, <2>2, <2>3 DEF SchemaInv, FileRecord
  <2> QED BY <1>1, <2>1, <2>4 DEF SchemaInv
<1> QED BY <1>2, <1>3

\* and so does one that adds a column, whichever stage it belongs to.
LEMMA AddColumnsKeepsInv ==
  ASSUME SchemaInv, MigrateUserMCPToken \/ MigrateReviewProgress
  PROVE  SchemaInv'
<1>1. PICK columns \in {TokenColumns, ProgressColumns}, here \in {"token", "progress"},
           next \in {"progress", "open"} :
        /\ AddColumns(here, columns, next)
        /\ columns = TokenColumns => here = "token" /\ next = "progress"
        /\ here = "token" => columns = TokenColumns /\ next = "progress"
        /\ here = "progress" => columns = ProgressColumns /\ next = "open"
  <2>1. TokenColumns # ProgressColumns
    BY DEF TokenColumns, ProgressColumns
  <2>2. CASE MigrateUserMCPToken
    BY <2>1, <2>2 DEF MigrateUserMCPToken
  <2>3. CASE MigrateReviewProgress
    BY <2>1, <2>3 DEF MigrateReviewProgress
  <2> QED BY <2>2, <2>3
<1> DEFINE column == FirstLacking(columns, db.columns)
<1>2. stage = here /\ UNCHANGED keysOn
  BY <1>1 DEF AddColumns
<1>3. CASE Lacking(columns, db.columns) = {}
  <2>1. stage' = next /\ UNCHANGED db
    BY <1>1, <1>3 DEF AddColumns
  <2>2. ToSet(columns) \subseteq db.columns
    BY <1>1, <1>3, FirstLackingLacks, NamesAreLists
  <2> QED BY <1>1, <1>2, <2>1, <2>2 DEF SchemaInv, OpenStages
<1>4. CASE Lacking(columns, db.columns) # {}
  <2>1. column \in ToSet(columns) /\ column \notin db.columns
    BY <1>1, <1>4, FirstLackingLacks, NamesAreLists
  <2>2. db' = [db EXCEPT !.columns = @ \union {column}] /\ UNCHANGED stage
    BY <1>1, <1>4, <2>1 DEF AddColumns
  <2>3. column \in ToSet(ProgressColumns) \union ToSet(TokenColumns)
    BY <1>1, <2>1
  <2> HIDE DEF column
  <2>4. /\ db' \in FileRecord /\ db'.tables = db.tables /\ db'.key = db.key
        /\ db.columns \subseteq db'.columns
    BY <2>2, <2>3 DEF SchemaInv, FileRecord
  <2> QED BY <1>1, <1>2, <2>2, <2>4 DEF SchemaInv
<1> QED BY <1>3, <1>4

\* The connection, the check of the identity, the rebuild and a kill keep it:
\* the rebuild runs with the foreign keys off.
LEMMA RebuildKeepsInv ==
  ASSUME SchemaInv, BeginOpen \/ CheckIdentity \/ Rebuild \/ KillOpen
  PROVE  SchemaInv'
<1>1. CASE BeginOpen
  BY <1>1 DEF BeginOpen, SchemaInv, OpenStages
<1>2. CASE CheckIdentity
  BY <1>2 DEF CheckIdentity, KeysForRebuild, SchemaInv, OpenStages, FileRecord
<1>3. CASE Rebuild
  <2>1. stage = "rebuild" /\ ~keysOn
    BY <1>3 DEF Rebuild, SchemaInv
  <2>2. /\ db' = [db EXCEPT !.key = "target", !.columns = @ \union ToSet(ProgressColumns)]
        /\ stage' = "token" /\ keysOn' = TRUE
    BY <1>3, <2>1 DEF Rebuild
  <2>3. db' \in FileRecord /\ db'.key = "target" /\ db'.tables = db.tables
    BY <2>2 DEF SchemaInv, FileRecord
  <2> QED BY <2>1, <2>2, <2>3 DEF SchemaInv, OpenStages
<1>4. CASE KillOpen
  BY <1>4 DEF KillOpen, SchemaInv, OpenStages
<1> QED BY <1>1, <1>2, <1>3, <1>4

\* Wherever an earlier start was killed, opening the file never fails on what
\* that start left behind, and an open file has all that the code expects.
THEOREM FileAlwaysOpens == SchemaSpec => []OpensAfterAnyKill
<1>1. SchemaInv /\ [SchemaNext]_schemaVars => SchemaInv'
  <2> SUFFICES ASSUME SchemaInv, [SchemaNext]_schemaVars PROVE SchemaInv'
    OBVIOUS
  <2>1. CASE UNCHANGED schemaVars
    BY <2>1 DEF schemaVars, SchemaInv
  <2>2. CASE SchemaNext
    BY <2>2, CreateTableKeepsInv, AddColumnsKeepsInv, RebuildKeepsInv DEF SchemaNext
  <2> QED BY <2>1, <2>2
<1>2. SchemaInv => OpensAfterAnyKill
  BY DEF SchemaInv, OpenStages, OpensAfterAnyKill
<1> QED BY <1>1, <1>2, SchemaInvInit, PTL DEF SchemaSpec

=============================================================================
