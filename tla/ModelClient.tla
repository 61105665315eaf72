---------------------------- MODULE ModelClient ----------------------------
(***************************************************************************)
(* llm's three clients under one conversation: the history is converted to *)
(* the wire form of the endpoint's protocol, the request is sent, by the   *)
(* SDK again while the failure may pass and once more when the answer was  *)
(* cut, the answer is received whole or as a stream, and its calls and     *)
(* usage are what the loop goes on with.                                   *)
(*                                                                         *)
(* A message is its role, whether it has text, the calls it makes and the  *)
(* call it answers.  On the wire it is a role and its blocks.              *)
(***************************************************************************)
EXTENDS Integers, Sequences, FiniteSets, SequencesExt, FiniteSetsExt

CONSTANTS
  MaxRetries,   \* WithMaxRetries, 5 in the code
  MaxTurns,     \* bound: requests of a conversation
  MaxPieces,    \* bound: chunks of an answer
  MaxCalls,     \* bound: calls of an answer
  Tokens        \* what an answer may be billed

\* The tokens of one answer; the model has written at least one.
TokenCounts == [input : Nat, output : Nat \ {0}, read : Nat, write : Nat]

ASSUME ClientAssumption ==
  /\ {MaxRetries, MaxTurns, MaxPieces, MaxCalls} \subseteq Nat
  /\ Tokens # {} /\ Tokens \subseteq TokenCounts

VARIABLES
  endpoint,     \* ResolvedEndpoint: protocol and extra_body.stream, and how
                \* its server reports usage: shape, place, with a total or not
  history,      \* messages of the loop
  turns,        \* requests made
  exchange,     \* the request under way: its state, SDK retries, second call
  plan,         \* what the server has to say
  received,     \* what the stream brought so far
  answer        \* ChatResponse of the last request

clientVars == <<endpoint, history, turns, exchange, plan, received, answer>>

Protocols == {"anthropic", "openai", "openai-responses"}

\* Arguments of a call as the model wrote them; null counts as {}.
Arguments == {"object", "broken"}

Text(role) == [role |-> role, text |-> TRUE, calls |-> <<>>, id |-> <<>>]

-----------------------------------------------------------------------------
(* The wire form of a history. *)

Block(kind, id) == [kind |-> kind, id |-> id]

TextBlocks(m) == IF m.text THEN <<Block("text", <<>>)>> ELSE <<>>

CallBlocks(m) == [k \in DOMAIN m.calls |-> Block("call", m.calls[k].id)]

Said(m) == IF m.role = "tool" THEN <<Block("result", m.id)>>
           ELSE TextBlocks(m) \o CallBlocks(m)

WireMessage(role, blocks) == [role |-> role, blocks |-> blocks]

\* buildOpenAIParams: message by message.
OpenAIParams(h) == [i \in DOMAIN h |-> WireMessage(h[i].role, Said(h[i]))]

\* One item for each text, call and result.
ItemsOf(m) ==
  IF m.role = "system" THEN <<>>
  ELSE [k \in DOMAIN Said(m) |-> WireMessage(m.role, <<Said(m)[k]>>)]

\* buildResponsesParams: the system messages are the instructions.
ResponsesParams(h) ==
  LET items[n \in 0 .. Len(h)] ==
        IF n = 0 THEN <<>> ELSE items[n - 1] \o ItemsOf(h[n])
  IN  items[Len(h)]

NothingSent == [pending |-> <<>>, wire |-> <<>>]

\* flushToolResults: the pending results are one user message.
Flushed(acc) ==
  IF acc.pending = <<>> THEN acc
  ELSE [pending |-> <<>>,
        wire |-> Append(acc.wire, WireMessage("user", acc.pending))]

\* An assistant message without blocks is sent with an empty text.
AnthropicBlocks(m) == IF Said(m) = <<>> THEN <<Block("text", <<>>)>> ELSE Said(m)

\* Mutant of AnthropicStep: the results are flushed only at the end.
AnthropicStepLate(acc, m) ==
  CASE m.role = "tool" -> [acc EXCEPT !.pending = @ \o Said(m)]
    [] m.role = "system" -> acc
    [] OTHER -> [acc EXCEPT !.wire =
                   Append(@, WireMessage(m.role, AnthropicBlocks(m)))]

AnthropicStep(acc, m) ==
  CASE m.role = "tool" -> [acc EXCEPT !.pending = @ \o Said(m)]
    [] m.role = "system" -> Flushed(acc)
    [] OTHER -> [Flushed(acc) EXCEPT !.wire =
                   Append(@, WireMessage(m.role, AnthropicBlocks(m)))]

\* buildAnthropicParams: adjacent results share a message.
AnthropicParams(h) ==
  LET after[n \in 0 .. Len(h)] ==
        IF n = 0 THEN NothingSent ELSE AnthropicStep(after[n - 1], h[n])
  IN  Flushed(after[Len(h)]).wire

\* Only the Anthropic form parses the arguments of the calls.
Unbuildable(h) ==
  /\ endpoint.protocol = "anthropic"
  /\ \E i \in DOMAIN h : \E k \in DOMAIN h[i].calls :
       h[i].calls[k].args = "broken"

Wire(h) == CASE endpoint.protocol = "anthropic" -> AnthropicParams(h)
             [] endpoint.protocol = "openai" -> OpenAIParams(h)
             [] endpoint.protocol = "openai-responses" -> ResponsesParams(h)

-----------------------------------------------------------------------------
(* Token usage: the paths probed in a response body. *)

In(place, field) == <<place, field>>

Everywhere(field) == <<In("usage", field), In("root", field), In("data.usage", field)>>

Nested(field) == <<In("usage", field), In("data.usage", field)>>

promptTokensPaths == Everywhere("prompt_tokens") \o Everywhere("input_tokens")
completionTokensPaths == Everywhere("completion_tokens") \o Everywhere("output_tokens")
totalTokensPaths == Everywhere("total_tokens")
cacheReadTokensPaths ==
  Everywhere("cache_read_input_tokens")
    \o Nested("prompt_tokens_details_cached_tokens")
    \o Nested("input_tokens_details_cached_tokens")
cacheWriteTokensPaths ==
  Everywhere("cache_creation_input_tokens")
    \o Nested("prompt_tokens_details_cache_creation_tokens")

AnthropicPathCount == 3

\* probePathIndex: 0 when no path matches.
ProbeIndex(body, paths) == SelectInSeq(paths, LAMBDA p : p \in DOMAIN body)

Probe(body, paths) ==
  IF ProbeIndex(body, paths) = 0 THEN 0 ELSE body[paths[ProbeIndex(body, paths)]]

\* Cache tokens that the prompt count leaves out.
Apart(body, paths) ==
  IF ProbeIndex(body, paths) \in 1 .. AnthropicPathCount THEN Probe(body, paths) ELSE 0

ResolveUsage(body) ==
  LET prompt == Probe(body, promptTokensPaths)
      completion == Probe(body, completionTokensPaths)
      total == Probe(body, totalTokensPaths)
  IN  IF total = 0 /\ prompt + completion > 0
      THEN prompt + completion + Apart(body, cacheReadTokensPaths)
             + Apart(body, cacheWriteTokensPaths)
      ELSE total

Billed(t) == t.input + t.output + t.read + t.write

\* The fields in which a server of some dialect reports what it billed: all but
\* Anthropic's count the cached tokens with the prompt.
UsageFields(shape, t) ==
  LET prompt == t.input + t.read + t.write
  IN  CASE shape = "anthropic" ->
             [input_tokens |-> t.input, output_tokens |-> t.output,
              cache_read_input_tokens |-> t.read,
              cache_creation_input_tokens |-> t.write]
        [] shape = "openai" ->
             [prompt_tokens |-> prompt, completion_tokens |-> t.output,
              prompt_tokens_details_cached_tokens |-> t.read,
              prompt_tokens_details_cache_creation_tokens |-> t.write]
        [] shape = "openai-responses" ->
             [input_tokens |-> prompt, output_tokens |-> t.output,
              input_tokens_details_cached_tokens |-> t.read]

ReportedFields(shape, withTotal, t) ==
  [f \in DOMAIN UsageFields(shape, t)
           \union (IF withTotal THEN {"total_tokens"} ELSE {}) |->
     IF f = "total_tokens" THEN Billed(t) ELSE UsageFields(shape, t)[f]]

\* A response body with the fields in some place.
Report(shape, place, withTotal, t) ==
  [p \in {place} \X DOMAIN ReportedFields(shape, withTotal, t) |->
     ReportedFields(shape, withTotal, t)[p[2]]]

-----------------------------------------------------------------------------
(* The request. *)

Idle == [state |-> "idle", retries |-> 0, second |-> FALSE]

NoAnswer == [pieces |-> 0, calls |-> <<>>, total |-> 0]

NothingYet == [pieces |-> 0, finished |-> FALSE, total |-> 0]

NoPlan == [pieces |-> 0, calls |-> <<>>, tokens |-> CHOOSE t \in Tokens : TRUE]

\* An endpoint of the OpenAI protocol may stand before an Anthropic model, and
\* only a stream has its usage where the chunk has it.
Endpoints ==
  {e \in [protocol : Protocols, stream : BOOLEAN,
          shape : Protocols, place : {"usage", "root", "data.usage"},
          total : BOOLEAN] :
     /\ e.shape \in {e.protocol} \union
                     (IF e.protocol = "openai" THEN {"anthropic"} ELSE {})
     /\ e.stream => e.protocol = "openai" /\ e.place = "usage"
     /\ e.shape = "anthropic" => ~e.total}

ClientInit ==
  /\ endpoint \in Endpoints
  /\ history = <<Text("system"), Text("user")>>
  /\ turns = 0
  /\ exchange = Idle
  /\ plan = NoPlan
  /\ received = NothingYet
  /\ answer = NoAnswer

\* What the server has to say: one choice, the request asks for no more.
Plans(n) ==
  [pieces : IF endpoint.stream THEN 1 .. MaxPieces ELSE {1},
   calls : UNION {{[k \in 1 .. c |-> [id |-> <<n, k>>, args |-> a[k]]] :
                     a \in [1 .. c -> Arguments]} : c \in 0 .. MaxCalls},
   tokens : Tokens]

\* CompletionsWithCtx; a history that cannot be built is an error at once.
Ask ==
  /\ exchange.state = "idle" /\ turns < MaxTurns
  /\ turns' = turns + 1
  /\ IF Unbuildable(history)
     THEN exchange' = [Idle EXCEPT !.state = "failed"] /\ UNCHANGED plan
     ELSE /\ exchange' = [Idle EXCEPT !.state = "sent"]
          /\ plan' \in Plans(turns + 1)
  /\ UNCHANGED <<endpoint, history, received, answer>>

\* The SDK sends again what failed in passing, and a status of retry_codes.
SDKRetries ==
  /\ exchange.state = "sent" /\ exchange.retries < MaxRetries
  /\ exchange' = [exchange EXCEPT !.retries = @ + 1]
  /\ UNCHANGED <<endpoint, history, turns, plan, received, answer>>

\* Retries used up, an error that does not pass, the context is done, or a
\* response whose status says that it did not complete.
Fails ==
  /\ exchange.state = "sent"
  /\ exchange' = [exchange EXCEPT !.state = "failed"]
  /\ UNCHANGED <<endpoint, history, turns, plan, received, answer>>

\* The body of a chat completion ends early: asked once more, unless the
\* context is done.
CutOnce ==
  /\ exchange.state = "sent" /\ endpoint.protocol = "openai" /\ ~endpoint.stream
  /\ ~exchange.second
  /\ exchange' = [state |-> "sent", retries |-> 0, second |-> TRUE]
  /\ UNCHANGED <<endpoint, history, turns, plan, received, answer>>

Body == Report(endpoint.shape, endpoint.place, endpoint.total, plan.tokens)

\* mapAnthropicResponse, mapOpenAIResponse, mapResponsesResponse.
UsageTotal ==
  IF endpoint.protocol = "anthropic" /\ endpoint.place = "usage"
  THEN Billed(plan.tokens)
  ELSE ResolveUsage(Body)

Answers(pieces, total) ==
  [pieces |-> pieces, calls |-> plan.calls, total |-> total]

\* An answer in one body.
AnswerArrives ==
  /\ exchange.state = "sent" /\ ~endpoint.stream
  /\ answer' = Answers(plan.pieces, UsageTotal)
  /\ exchange' = [exchange EXCEPT !.state = "answered"]
  /\ UNCHANGED <<endpoint, history, turns, plan, received>>

StreamOpens ==
  /\ exchange.state = "sent" /\ endpoint.stream
  /\ exchange' = [exchange EXCEPT !.state = "stream"]
  /\ UNCHANGED <<endpoint, history, turns, plan, received, answer>>

\* One chunk of the choice; the last carries its finish_reason.
Chunk ==
  /\ exchange.state = "stream" /\ received.pieces < plan.pieces
  /\ received' = [received EXCEPT !.pieces = @ + 1,
                                  !.finished = received.pieces + 1 = plan.pieces]
  /\ UNCHANGED <<endpoint, history, turns, exchange, plan, answer>>

\* The usage chunk follows the choices, from a server that sends one.
UsageChunk ==
  /\ exchange.state = "stream" /\ received.finished /\ received.total = 0
  /\ received' = [received EXCEPT !.total = ResolveUsage(Body)]
  /\ UNCHANGED <<endpoint, history, turns, exchange, plan, answer>>

\* Mutant of StreamComplete: a stream that brought something is an answer.
StreamStarted == received.pieces > 0

\* Choices were seen and each has finished.
StreamComplete == received.pieces > 0 /\ received.finished

\* The stream ends, as the server meant it or not.
StreamEnds ==
  /\ exchange.state = "stream"
  /\ IF StreamComplete
     THEN /\ answer' = Answers(received.pieces, received.total)
          /\ exchange' = [exchange EXCEPT !.state = "answered"]
     ELSE exchange' = [exchange EXCEPT !.state = "failed"] /\ UNCHANGED answer
  /\ UNCHANGED <<endpoint, history, turns, plan, received>>

\* stream.Err, or chunks that do not fit together.
StreamBreaks ==
  /\ exchange.state = "stream"
  /\ exchange' = [exchange EXCEPT !.state = "failed"]
  /\ UNCHANGED <<endpoint, history, turns, plan, received, answer>>

-----------------------------------------------------------------------------
(* The loop goes on with the answer. *)

\* addNextMessage: the calls and a result for each, in their order.
NextMessages(text, calls) ==
  <<[role |-> "assistant", text |-> text, calls |-> calls, id |-> <<>>]>>
    \o [k \in DOMAIN calls |->
          [role |-> "tool", text |-> TRUE, calls |-> <<>>, id |-> calls[k].id]]

GoOn ==
  /\ exchange.state = "answered"
  /\ \E text \in BOOLEAN :
       history' = history \o
         IF answer.calls # <<>> THEN NextMessages(text, answer.calls)
         ELSE (IF text THEN <<Text("assistant")>> ELSE <<>>) \o <<Text("user")>>
  /\ exchange' = Idle
  /\ plan' = NoPlan /\ received' = NothingYet /\ answer' = NoAnswer
  /\ UNCHANGED <<endpoint, turns>>

ClientNext ==
  \/ Ask \/ SDKRetries \/ Fails \/ CutOnce \/ AnswerArrives
  \/ StreamOpens \/ Chunk \/ UsageChunk \/ StreamEnds \/ StreamBreaks \/ GoOn

ClientSpec == ClientInit /\ [][ClientNext]_clientVars

-----------------------------------------------------------------------------
\* Block k of message i is on the wire before block l of message j.
Before(i, k, j, l) == i < j \/ (i = j /\ k < l)

\* The call is answered, with no text between.
Answered(w, i, k) ==
  \E j \in DOMAIN w : \E l \in DOMAIN w[j].blocks :
    /\ Before(i, k, j, l) /\ w[j].blocks[l] = Block("result", w[i].blocks[k].id)
    /\ \A m \in DOMAIN w : \A n \in DOMAIN w[m].blocks :
         Before(i, k, m, n) /\ Before(m, n, j, l) => w[m].blocks[n].kind # "text"

\* The result has its call before it.
Asked(w, j, l) ==
  \E i \in DOMAIN w : \E k \in DOMAIN w[i].blocks :
    Before(i, k, j, l) /\ w[i].blocks[k] = Block("call", w[j].blocks[l].id)

\* The result is in the message that follows.
FollowedByResult(w, i, k) ==
  i < Len(w) /\ Block("result", w[i].blocks[k].id) \in ToSet(w[i + 1].blocks)

\* Whatever the protocol, a call on the wire is answered by a result with no
\* text between them, a result has its call before it, and Anthropic's form
\* has the result in the message that follows (client.go:568).
CallsAnsweredAtOnce ==
  exchange.state \in {"sent", "stream"} =>
    LET w == Wire(history)
    IN  \A i \in DOMAIN w : \A k \in DOMAIN w[i].blocks :
          /\ w[i].blocks[k].kind = "call" =>
               /\ Answered(w, i, k)
               /\ endpoint.protocol = "anthropic" => FollowedByResult(w, i, k)
          /\ w[i].blocks[k].kind = "result" => Asked(w, i, k)

\* An answer is all the server had to say, never what a cut stream brought, and
\* the total of its usage is what was billed, whatever dialect and wrapping the
\* server reports in; only a stream may end before its usage (client.go:435,
\* usage_resolver.go:73).
AnswerIsWhole ==
  exchange.state = "answered" =>
    /\ answer.pieces = plan.pieces
    /\ \/ answer.total = Billed(plan.tokens)
       \/ endpoint.stream /\ answer.total = 0

=============================================================================
