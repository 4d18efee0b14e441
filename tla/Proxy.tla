------------------------------- MODULE Proxy --------------------------------
(* One chat completion through the proxy of                                  *)
(* src/vllm_swift/response_rewriter.py: the request is enriched, rewritten   *)
(* and forwarded; vLLM's answer comes in one piece and is rewritten whole,   *)
(* or each chunk of it goes through stream_rewriter and then                 *)
(* stream_tool_recovery before it is written to the client, who may leave at *)
(* any time.                                                                 *)
(*                                                                           *)
(* The chain is pulled by one coroutine, so that a chunk passes through it   *)
(* whole before the next.  The answer has one choice: the stages keep the    *)
(* states of several apart.                                                  *)
EXTENDS Rewriter, Enrichment

CONSTANTS
    Splits,     \* may needs_rewrite(arch) hold?  a subset of BOOLEAN
    Recovers,   \* may tool_parser be in _LEAKY_TOOL_PARSERS?
    Asks,       \* requests, the parser's and the context's part in them included
    Retrievals, \* what retrieval may find, <<>> when it fails or is off
    Answers,    \* texts the model may generate, and stop at any point of
    MaxDelta    \* pieces in a delta

Ask == [requested : Nat, reasons : BOOLEAN, len : Nat, messages : Seq(MessageOf(STRING))]

ProxyAssumption ==
    /\ Splits \subseteq BOOLEAN /\ Recovers \subseteq BOOLEAN
    /\ Asks \subseteq Ask /\ Retrievals \subseteq Seq(Chunk)
    /\ Answers \subseteq Seq(Piece) /\ MaxDelta \in Nat
ASSUME ProxyAssumption

VARIABLES
    splits, recovers,   \* the deployment
    pc,         \* "asked", "forwarded", "accepted", then "answered", or "stream" and
                \* "done", "broken", "cancelled"
    request,    \* the client's request, what was retrieved for it, and the
                \* max_tokens and messages that are forwarded
    split,      \* _ChoiceState
    recovery,   \* _RecoveryChoiceState
    client,     \* "connected" or "gone"
    got         \* the choices the client has received, adjacent deltas joined

\* What vLLM has generated: reasoning, content, whether its parser has found a
\* tool call, and the finish reason; whether two deltas have cut a transition
\* marker; and how many words it has generated for a client gone.
VARIABLES thought, said, tooled, ended, cut, void

deployment == <<splits, recovers>>
stages == <<split, recovery>>
answer == <<thought, said, tooled, ended, cut, void>>
vars == <<splits, recovers, pc, request, split, recovery, client, got,
          thought, said, tooled, ended, cut, void>>

Request(ask, chunks, sent, messages) ==
    [ask |-> ask, chunks |-> chunks, sent |-> sent, messages |-> messages]

\* A request that is no longer needed.
NoRequest ==
    Request([requested |-> 0, reasons |-> FALSE, len |-> 0, messages |-> <<>>], <<>>, 0, <<>>)

Init ==
    /\ splits \in Splits /\ recovers \in Recovers
    /\ pc = "asked"
    /\ request \in {Request(ask, <<>>, 0, <<>>) : ask \in Asks}
    /\ split = SplitStart /\ recovery = RecoveryStart
    /\ client = "connected" /\ got = <<>>
    /\ thought = <<>> /\ said = <<>> /\ void = 0
    /\ tooled = FALSE /\ ended = "none" /\ cut = FALSE

-----------------------------------------------------------------------------
(* The request                                                             *)

\* max_tokens and messages as they are forwarded.
Rewritten(ask, chunks) ==
    Request(ask, chunks, MaxTokens(ask.requested, ask.reasons, ask.len), Enrich(ask.messages, chunks))

\* fails: the body is no object, or retrieval's reply is malformed; the body is
\* forwarded raw then.
Forward(chunks, fails) ==
    /\ pc = "asked"
    /\ pc' = "forwarded"
    /\ request' = IF fails THEN Request(request.ask, <<>>, request.ask.requested, request.ask.messages)
                  ELSE Rewritten(request.ask, chunks)
    /\ UNCHANGED <<deployment, stages, client, got, answer>>

\* vLLM has the request.
Accept ==
    /\ pc = "forwarded"
    /\ pc' = "accepted"
    /\ request' = NoRequest
    /\ UNCHANGED <<deployment, stages, client, got, answer>>

\* It answers with an event stream, whose headers may not reach a client gone.
Open ==
    /\ pc = "accepted"
    /\ \/ pc' = "stream"
       \/ client = "gone" /\ pc' = "cancelled"
    /\ UNCHANGED <<deployment, request, stages, client, got, answer>>

-----------------------------------------------------------------------------
(* The chain                                                               *)

ThroughSplit(c) ==
    IF splits THEN SplitChoice(split, c) ELSE Forwards(split, <<c>>)

\* What stream_tool_recovery has made of the choices so far, and of one more.
Further(sofar, c) ==
    LET next == RecoverChoice(sofar.state, c)
    IN  Forwards(next.state, sofar.out \o next.out)

ThroughRecovery(out) ==
    LET step[n \in 0 .. Len(out)] ==
            IF n = 0 THEN Forwards(recovery, <<>>) ELSE Further(step[n - 1], out[n])
    IN  IF recovers THEN step[Len(out)] ELSE Forwards(recovery, out)

\* Two deltas of the same text, which the client reads as one.
Joins(a, b) ==
    /\ a.finish = "none" /\ ~a.parsed /\ a.recovered = 0
    /\ ~b.parsed /\ b.recovered = 0
    /\ \/ a.content # None /\ b.content # None
       \/ a.reasoning # <<>> /\ b.reasoning # <<>>

Joined(a, b) ==
    [b EXCEPT !.reasoning = a.reasoning \o @,
              !.content = IF @ = None THEN None ELSE a.content \o @]

Read(sofar, c) ==
    IF sofar # <<>> /\ Joins(Last(sofar), c)
    THEN Append(Front(sofar), Joined(Last(sofar), c))
    ELSE Append(sofar, c)

\* What the client has read when it has read out as well.
Reads(out) ==
    LET read[n \in 0 .. Len(out)] == IF n = 0 THEN got ELSE Read(read[n - 1], out[n])
    IN  read[Len(out)]

\* Mutant: a failed write is logged, and the stream goes on.
Ignored == UNCHANGED <<pc, got>>

\* A write to a client gone raises, and the upstream response is closed.
Cancel == pc' = "cancelled" /\ UNCHANGED got

Written(out) ==
    \/ out = <<>> /\ UNCHANGED <<pc, got>>
    \/ out # <<>> /\ client = "connected" /\ got' = Reads(out) /\ UNCHANGED pc
    \/ out # <<>> /\ client = "gone" /\ Cancel

Deliver(c) ==
    LET parts == ThroughSplit(c)
        shown == ThroughRecovery(parts.out)
    IN  /\ split' = parts.state
        /\ recovery' = shown.state
        /\ Written(shown.out)
        /\ UNCHANGED <<deployment, request, client>>

-----------------------------------------------------------------------------
(* vLLM's event stream                                                     *)

Streaming == pc = "stream" /\ ended = "none"

\* What may come next of an answer.
Deltas ==
    LET far == Len(said)
        next(a) == {SubSeq(a, far + 1, to) : to \in far .. Min({far + MaxDelta, Len(a)})}
    IN  UNION {next(a) : a \in {a \in Answers : IsPrefix(said, a)}}

\* The words of a text, of which no stage may drop any.
Words(t) == FlattenSeq([i \in DOMAIN t |-> IF t[i] \in {"prefix", "nl"} THEN <<>> ELSE <<t[i]>>])

\* A content delta, the last perhaps with the finish; the first and that one are
\* perhaps empty.
ContentChunk(t, finish) ==
    /\ Streaming
    /\ t = <<>> => finish # "none" \/ (said = <<>> /\ got = <<>>)
    /\ Deliver(Content(t, finish))
    /\ said' = said \o t
    /\ ended' = finish
    /\ cut' = (cut \/ (said # <<>> /\ t # <<>> /\ Marks(<<Last(said), Head(t)>>) # {}))
    /\ void' = IF client = "gone" THEN void + Len(Words(t)) ELSE void
    /\ UNCHANGED <<thought, tooled>>

\* What a reasoning parser has split off comes before any content.
ReasoningChunk ==
    /\ Streaming
    /\ thought = <<>> /\ said = <<>> /\ ~tooled
    /\ Deliver(Reasoning(<<"word">>, "none"))
    /\ thought' = <<"word">>
    /\ UNCHANGED <<said, tooled, ended, cut, void>>

\* A tool call that vLLM's own parser has found.
ToolChunk ==
    /\ Streaming
    /\ ~tooled
    /\ Deliver([Empty("none") EXCEPT !.parsed = TRUE])
    /\ tooled' = TRUE
    /\ UNCHANGED <<thought, said, ended, cut, void>>

\* A finish reason in a chunk of its own, with an empty delta.
FinishChunk(finish) ==
    /\ Streaming
    /\ Deliver(Empty(finish))
    /\ ended' = finish
    /\ UNCHANGED <<thought, said, tooled, cut, void>>

\* A chunk of usage only is forwarded as it is; a client gone is noticed.
UsageChunk ==
    /\ pc = "stream" /\ ended # "none"
    /\ client = "gone"
    /\ Cancel
    /\ UNCHANGED <<deployment, request, stages, client, answer>>

\* [DONE]: both stages flush, then it is forwarded.
Done ==
    /\ pc = "stream"
    /\ LET parts == IF splits THEN SplitDone(split) ELSE <<>>
           shown == ThroughRecovery(parts)
           rest == IF recovers THEN RecoveryDone(shown.state) ELSE Forwards(shown.state, <<>>)
       IN  \/ /\ client = "connected"
              /\ got' = Reads(shown.out \o rest.out)
              /\ recovery' = rest.state
              /\ pc' = "done"
           \/ client = "gone" /\ Cancel /\ UNCHANGED recovery
    /\ UNCHANGED <<deployment, request, split, client, answer>>

\* vLLM cannot be reached, or the upstream connection ends without [DONE] or in
\* the middle of an answer in one piece.
Break ==
    /\ pc \in {"accepted", "stream"}
    /\ pc' = "broken"
    /\ UNCHANGED <<deployment, request, stages, client, got, answer>>

ClientLeaves ==
    /\ pc \in {"asked", "accepted", "stream"} /\ client = "connected"
    /\ client' = "gone"
    /\ UNCHANGED <<deployment, pc, request, stages, got, answer>>

-----------------------------------------------------------------------------
(* vLLM's answer in one piece                                              *)

Texts == UNION {{SubSeq(a, 1, n) : n \in 0 .. Len(a)} : a \in Answers}

\* What vLLM has read of an answer, whether its parsers found something or not.
Completion(t, thinking, finish) ==
    [Content(t, finish) EXCEPT !.reasoning = thinking, !.parsed = (finish = "tool_calls")]

Messages ==
    {Completion(t, thinking, finish) :
        t \in Texts, thinking \in {<<>>, <<"word">>}, finish \in {"stop", "length", "tool_calls"}}

\* The answer is read to its end even for a client gone; fails: it is no JSON
\* that the rewriter understands, and is returned raw.
AnswerWhole(message, fails) ==
    /\ pc = "accepted"
    /\ pc' = "answered"
    /\ thought' = message.reasoning /\ said' = message.content
    /\ tooled' = message.parsed /\ ended' = message.finish
    /\ got' = IF client = "gone" THEN <<>>
              ELSE IF fails THEN <<message>> ELSE <<RewriteChoice(message)>>
    /\ void' = IF client = "gone" THEN Len(Words(said')) ELSE 0
    /\ UNCHANGED <<deployment, request, stages, client, cut>>

\* "length" stands for any finish reason of vLLM's.
Next ==
    \/ \E chunks \in Retrievals, fails \in BOOLEAN : Forward(chunks, fails)
    \/ \E message \in Messages, fails \in BOOLEAN : AnswerWhole(message, fails)
    \/ Accept
    \/ Open
    \/ \E t \in Deltas, finish \in {"none", "length"} : ContentChunk(t, finish)
    \/ ReasoningChunk
    \/ ToolChunk
    \/ FinishChunk("length")
    \/ UsageChunk
    \/ Done
    \/ Break
    \/ ClientLeaves

Spec == Init /\ [][Next]_vars

-----------------------------------------------------------------------------
(* Properties                                                              *)

Reasoned == FlattenSeq([i \in DOMAIN got |-> got[i].reasoning])

Answered ==
    FlattenSeq([i \in DOMAIN got |-> IF got[i].content = None THEN <<>> ELSE got[i].content])

\* All text the client has received, in order.
Received ==
    FlattenSeq([i \in DOMAIN got |->
        got[i].reasoning \o IF got[i].content = None THEN <<>> ELSE got[i].content])

\* How many tool calls were recovered.
Calls == Len(FlattenSeq([i \in DOMAIN got |-> [n \in 1 .. got[i].recovered |-> "call"]]))

Called == Calls > 0

Count(p, t) == Cardinality({i \in DOMAIN t : t[i] = p})

\* A text that is, newlines ahead of it aside, the beginning of a leaked call's
\* opening marker: newlines alone are.
MayOpen(t) == \E i \in DOMAIN Openers : IsPrefix(LStrip(t), Openers[i])

\* The state is well typed, and what keeps a stage undecided is what the code says:
\* stream_rewriter holds back less than the threshold, stream_tool_recovery less
\* than that or a text that may open a call yet, which newlines may make of any
\* length (response_rewriter.py:738-745; README, Divergences).
ProxyTypeOK ==
    /\ splits \in BOOLEAN /\ recovers \in BOOLEAN
    /\ pc \in {"asked", "forwarded", "accepted", "answered", "stream", "done", "broken", "cancelled"}
    /\ request \in [ask : Ask, chunks : Seq(Chunk), sent : Nat, messages : Seq(Message)]
    /\ split \in [buffer : Seq(Piece), decided : BOOLEAN, in_reasoning : BOOLEAN]
    /\ Len(split.buffer) < Threshold
    /\ recovery \in [buffer : Seq(Piece), decision : {"deciding", "passthrough", "buffering"}]
    /\ recovery.decision = "deciding" =>
          Len(recovery.buffer) < Threshold \/ MayOpen(recovery.buffer)
    /\ client \in {"connected", "gone"}
    /\ got \in Seq(Choice)
    /\ thought \in Seq(Piece) /\ said \in Seq(Piece)
    /\ tooled \in BOOLEAN /\ ended \in Finish /\ cut \in BOOLEAN /\ void \in Nat

\* rewrite_request only ever raises max_tokens, never an explicit small one,
\* and never beyond the half of a known context that is not kept for the prompt.
BudgetSound ==
    pc = "forwarded" =>
        LET ask == request.ask
        IN  request.sent = ask.requested
            \/ /\ ask.requested >= 1024 /\ request.sent > ask.requested
               /\ ask.len > 0 => 2 * request.sent <= ask.len + 1 /\ request.sent + 1024 <= ask.len

\* The pieces of a conversation, each with the role that says it.
Spoken(m) ==
    FlattenSeq([i \in DOMAIN m.texts |-> [j \in DOMAIN m.texts[i] |-> <<m.role, m.texts[i][j]>>]])

AllSpoken(messages) == FlattenSeq([i \in DOMAIN messages |-> Spoken(messages[i])])

\* Whatever is retrieved, what the client and its system prompt say reaches vLLM
\* in the same roles and order, the question still last; the proxy's block comes
\* once, ahead of all that any system prompt says, and without one ahead of all.
ClientMessagesKept ==
    LET asked == request.ask.messages
        sent == AllSpoken(request.messages)
        unblocked == FlattenSeq([i \in DOMAIN sent |-> IF sent[i][2] = Block THEN <<>> ELSE <<sent[i]>>])
        blocks == {i \in DOMAIN sent : sent[i][2] = Block}
    IN  pc = "forwarded" =>
            /\ unblocked = AllSpoken(asked)
            /\ LastUserText(request.messages) = LastUserText(asked)
            /\ \A i, j \in blocks : i = j
            /\ \A i \in blocks :
                  /\ sent[i][1] = "system"
                  /\ \A j \in 1 .. i - 1 : sent[j][1] # "system"
                  /\ (\A m \in Range(asked) : m.role # "system") => i = 1

\* The block of retrieved code stays within its cap, but for a truncation mark; it
\* has the best chunks in order, and leaves one out only for want of room
\* (response_rewriter.py:1187-1192).
BlockFits ==
    LET found == Relevant(request.chunks)
        block == FormatBlock(found)
    IN  pc = "forwarded" =>
            /\ block.used <= MaxChars + 15
            /\ IsPrefix(block.kept, found)
            /\ Len(block.kept) < Len(found) =>
                   block.used + found[Len(block.kept) + 1].header + 212 >= MaxChars

\* Through both stages no word of an answer is lost, repeated or overtaken by
\* another: what the client has, then what stream_tool_recovery holds, then what
\* stream_rewriter holds is what vLLM has generated (a stream that breaks loses no
\* more than what is held), and after [DONE] the client has it all.  Not so if vLLM's parser finds a tool call, whose chunk overtakes
\* held text, or if one was recovered from the text.
TextConserved ==
    LET generated == Words(thought \o said)
    IN  ~tooled /\ ~Called =>
            /\ pc \in {"stream", "broken"} => Words(Received \o recovery.buffer \o split.buffer) = generated
            /\ pc = "done" => Words(Received) = generated

\* No tool call reaches the client twice, recovered and as text.
CallNotTwice == Calls + Count("call", Received) <= Count("call", said)

\* Without stream_rewriter the client gets vLLM's finish reason once, after all
\* else (or "tool_calls" in its place), wherever vLLM put it.
OneFinishLast ==
    pc = "done" /\ ~splits =>
        LET finishes == {i \in DOMAIN got : got[i].finish # "none"}
        IN  IF ended = "none" THEN finishes \subseteq {Len(got)} ELSE
            /\ finishes = {Len(got)}
            /\ got[Len(got)].finish = IF Called THEN "tool_calls" ELSE ended

\* stream_rewriter, once it has decided, splits a streamed answer as
\* split_thinking_prefix splits the whole text, however it is cut into deltas,
\* unless a transition marker is cut.
StreamSplitsAsWhole ==
    LET whole == SplitThinkingPrefix(said)
    IN  /\ pc = "done" /\ splits /\ ~recovers
        /\ thought = <<>> /\ split.decided /\ ~cut
        => Strip(Reasoned) = whole[1] /\ Strip(Answered) = Strip(whole[2])

\* The comment on the streaming state (response_rewriter.py:651-652): deltas are
\* reasoning until there is a transition marker.  The code looks for the marker
\* in one delta at a time.
AnswerReachesContent == splits => Marks(Reasoned) = {}

\* An answer that opens with a leaked call gives a client that streams the same
\* number of tool calls as one that does not, however it is cut into deltas and
\* wherever its finish reason comes.
StreamRecoversAsWhole ==
    /\ pc = "done" /\ recovers /\ ~splits
    /\ ~tooled /\ ended # "none"
    /\ ClassifyStreamingBuffer(said) = "leak"
    => Calls = RecoverToolCalls(said).calls

\* Rewriting an answer in one piece loses no word and no valid call: each call is
\* in the text or recovered, never both, and only then the finish reason says so.
\* Without a recovery nothing at all is lost (with one, README, Divergences).
WholeConserved ==
    pc = "answered" /\ client = "connected" =>
        /\ Count("word", Received) = Count("word", thought \o said)
        /\ Count("call", Received) + Calls = Count("call", said)
        /\ Called => got[1].finish = "tool_calls"
        /\ ~Called => got[1].finish = ended /\ Words(Received) = Words(thought \o said)

\* vLLM generates for a client gone only as long as all of it is held back.
NoVoidGeneration ==
    pc = "stream" => void <= Len(Words(recovery.buffer \o split.buffer))
=============================================================================
