------------------------------ MODULE Rewriter ------------------------------
(* The pure half of src/vllm_swift/response_rewriter.py: what the proxy does *)
(* to a request's max_tokens, to an answer in one piece, and to each chunk   *)
(* of a streamed one in the two stages of its chain.                         *)
(*                                                                           *)
(* Text is a sequence of pieces.  "prefix" is "Thinking:", "nl" a newline;   *)
(* a leaked tool call is an opening marker ("tag1" "tag2", which may arrive  *)
(* in halves, for phi4, "hermes", "coder" and "bracket" for the others) and  *)
(* a body with the closing marker, "call" if there is a valid call in it and *)
(* "void" if not; "word" is anything else.  A newline ends the thinking      *)
(* block when another newline or a tag follows it.  The 32 characters of     *)
(* both stages' thresholds are Threshold pieces.                             *)
EXTENDS Integers, SequencesExt

CONSTANTS
    None,       \* a delta without "content"
    Threshold   \* _BUFFER_THRESHOLD_CHARS and _LEAK_DECISION_THRESHOLD

Piece == {"prefix", "nl", "word", "tag1", "tag2", "hermes", "coder", "bracket", "call", "void"}

\* A delta without "content" is no text, not even an empty one.
RewriterAssumption == Threshold \in Nat \ {0, 1} /\ None \notin Seq(Piece)
ASSUME RewriterAssumption

Finish == {"none", "stop", "length", "tool_calls"}

LStrip(t) ==
    LET solid == {i \in DOMAIN t : t[i] # "nl"}
    IN  IF solid = {} THEN <<>> ELSE SubSeq(t, Min(solid), Len(t))

Strip(t) == Reverse(LStrip(Reverse(LStrip(t))))

-----------------------------------------------------------------------------
(* rewrite_request                                                         *)

\* Mutant: the bump is not clamped to what the context leaves.
UnclampedBump(len) == 32768

\* The budget a starved reasoning request is given; len = 0 is unknown.
Bump(len) ==
    LET reserve == Max({len \div 2, 1024})
    IN  IF len = 0 THEN 32768 ELSE Min({32768, len - reserve})

\* max_tokens as forwarded; requested = 0 is an absent or useless value.
MaxTokens(requested, reasons, len) ==
    IF /\ reasons
       /\ requested \in 1024 .. 16383
       /\ Bump(len) >= 8192
       /\ Bump(len) > requested
    THEN Bump(len)
    ELSE requested

-----------------------------------------------------------------------------
(* Choices: parsed, a tool call found by vLLM; recovered, the calls found   *)
(* by the proxy                                                            *)

Choice == [reasoning : Seq(Piece), content : Seq(Piece) \cup {None},
           parsed : BOOLEAN, recovered : Nat, finish : Finish]

Empty(finish) ==
    [reasoning |-> <<>>, content |-> None, parsed |-> FALSE, recovered |-> 0, finish |-> finish]

Content(t, finish) == [Empty(finish) EXCEPT !.content = t]

Reasoning(t, finish) == [Empty(finish) EXCEPT !.reasoning = t]

Unless(empty, choice) == IF empty THEN <<>> ELSE <<choice>>

\* A stage's answer to a chunk: its new state, and the choices it forwards.
Forwards(state, out) == [state |-> state, out |-> out]

\* Mutant: the buffer takes the latest delta only.
HoldsLatest(state, t) == [state EXCEPT !.buffer = t]

Holds(state, t) == [state EXCEPT !.buffer = @ \o t]

\* Mutant: a buffer that was forwarded is not emptied.
StillHolds(state) == state

Emptied(state) == [state EXCEPT !.buffer = <<>>]

-----------------------------------------------------------------------------
(* Whole texts                                                             *)

Marks(t) == {i \in 1 .. Len(t) - 1 : t[i] = "nl" /\ t[i + 1] \in {"nl", "tag1", "hermes", "coder"}}

\* The text before the first transition marker, and what follows it.
Before(t) == SubSeq(t, 1, Min(Marks(t)) - 1)
After(t) == LStrip(SubSeq(t, Min(Marks(t)), Len(t)))

HasPrefix(t) == IsPrefix(<<"prefix">>, t)
AfterPrefix(t) == LStrip(Tail(t))

\* split_thinking_prefix, of whole answers.
SplitThinkingPrefix(t) ==
    LET body == AfterPrefix(t)
    IN  IF ~HasPrefix(t) THEN <<<<>>, t>>
        ELSE IF Marks(body) = {} THEN <<Strip(body), <<>>>>
        ELSE <<Strip(Before(body)), After(body)>>

\* The shapes of a leaked call, by their opening markers, in the order tried.
Openers == <<<<"hermes">>, <<"coder">>, <<"tag1", "tag2">>, <<"bracket">>>>

\* Where a block of a shape ends; a body that is no call is matched as well.
Matches(opener, t) ==
    {i \in DOMAIN t : t[i] \in {"call", "void"} /\ IsSuffix(opener, SubSeq(t, 1, i - 1))}

ValidCalls(opener, t) == {i \in Matches(opener, t) : t[i] = "call"}

\* The blocks must fill half of the text.
Fills(opener, t) == (Len(opener) + 1) * Cardinality(Matches(opener, t)) >= Len(t) \div 2

\* Mutant: the text is cut off at the first block.
StripFromFirst(opener, t) == SubSeq(t, 1, Min(Matches(opener, t)) - Len(opener) - 1)

\* A text without its blocks, valid or not.
StripMatches(opener, t) ==
    LET matched == UNION {i - Len(opener) .. i : i \in Matches(opener, t)}
    IN  FlattenSeq([i \in DOMAIN t |-> IF i \in matched THEN <<>> ELSE <<t[i]>>])

Recovery(calls, residual) == [calls |-> calls, residual |-> residual]

\* The first shape that is found convincingly.
RecoverToolCalls(t) ==
    LET found == {k \in DOMAIN Openers : ValidCalls(Openers[k], t) # {} /\ Fills(Openers[k], t)}
        opener == Openers[Min(found)]
    IN  IF found = {} THEN Recovery(0, t)
        ELSE Recovery(Cardinality(ValidCalls(opener, t)), Strip(StripMatches(opener, t)))

\* A message with vLLM's own reasoning is not split.
SplitMessage(c) ==
    LET split == SplitThinkingPrefix(c.content)
    IN  IF c.reasoning # <<>> \/ split[1] = <<>> THEN c
        ELSE [c EXCEPT !.reasoning = split[1], !.content = split[2]]

\* One with a tool call of vLLM's own is not searched for another.
RecoverMessage(c) ==
    LET found == RecoverToolCalls(c.content)
    IN  IF c.parsed \/ found.calls = 0 THEN c
        ELSE [c EXCEPT !.recovered = found.calls,
                       !.content = IF found.residual = <<>> THEN None ELSE found.residual,
                       !.finish = IF @ \in {"stop", "length", "none"} THEN "tool_calls" ELSE @]

\* rewrite_chat_completion: one choice of an answer in one piece.
RewriteChoice(c) ==
    IF c.content = None THEN c ELSE RecoverMessage(SplitMessage(c))

-----------------------------------------------------------------------------
(* stream_rewriter: splitting a plain-text thinking block off               *)

SplitStart == [buffer |-> <<>>, decided |-> FALSE, in_reasoning |-> FALSE]

\* The decision over the buffered start b of an answer.
Decide(state, b, finish) ==
    LET body == AfterPrefix(b)
        decided == [Emptied(state) EXCEPT !.decided = TRUE]
    IN  IF ~HasPrefix(b) THEN Forwards(decided, <<Content(b, finish)>>)
        ELSE IF Marks(body) = {}
        THEN Forwards([decided EXCEPT !.in_reasoning = TRUE],
                      Unless(body = <<>>, Reasoning(body, "none")))
        ELSE Forwards(decided,
                      Unless(Strip(Before(body)) = <<>>, Reasoning(Strip(Before(body)), "none"))
                      \o Unless(After(body) = <<>>, Content(After(body), finish)))

\* Mutant: text that follows the marker's chunk goes to the reasoning still.
RouteOn(state, t, finish) ==
    IF ~state.in_reasoning THEN Forwards(state, <<Content(t, finish)>>)
    ELSE IF Marks(t) = {} THEN Forwards(state, <<Reasoning(t, finish)>>)
    ELSE Forwards(state, Unless(Before(t) = <<>>, Reasoning(Before(t), "none"))
                         \o Unless(After(t) = <<>>, Content(After(t), finish)))

\* A delta that comes after the decision.
Route(state, t, finish) ==
    IF ~state.in_reasoning THEN Forwards(state, <<Content(t, finish)>>)
    ELSE IF Marks(t) = {} THEN Forwards(state, <<Reasoning(t, finish)>>)
    ELSE Forwards([state EXCEPT !.in_reasoning = FALSE],
                  Unless(Before(t) = <<>>, Reasoning(Before(t), "none"))
                  \o Unless(After(t) = <<>>, Content(After(t), finish)))

\* Mutant: the threshold is compared one piece too late.
DecidesLate(state, finish) == Len(state.buffer) > Threshold \/ finish # "none"

Decides(state, finish) == Len(state.buffer) >= Threshold \/ finish # "none"

SplitChoice(state, c) ==
    LET held == Holds(state, c.content)
    IN  IF c.reasoning # <<>> \/ c.content = None THEN Forwards(state, <<c>>)
        ELSE IF state.decided THEN Route(state, c.content, c.finish)
        ELSE IF Decides(held, c.finish) THEN Decide(held, held.buffer, c.finish)
        ELSE Forwards(held, <<>>)

\* What [DONE] flushes; the state keeps the buffer.
SplitDone(state) ==
    Unless(state.decided \/ state.buffer = <<>>, Content(state.buffer, "none"))

-----------------------------------------------------------------------------
(* stream_tool_recovery: tool calls that leaked into the text               *)

RecoveryStart == [buffer |-> <<>>, decision |-> "deciding"]

ClassifyStreamingBuffer(b) ==
    IF \E i \in DOMAIN Openers : IsPrefix(Openers[i], LStrip(b)) THEN "leak"
    ELSE IF \/ \E i \in DOMAIN Openers : IsPrefix(LStrip(b), Openers[i])
            \/ Len(b) < Threshold THEN "undecided"
    ELSE "no-leak"

\* Mutant: what comes with the finish is forwarded as text.
NeverRecovered(b, finish) == Content(b, finish)

\* The end of a buffered answer: its tool calls, without the text around them,
\* or else its text.
Recovered(b, finish) ==
    LET found == RecoverToolCalls(b)
    IN  IF found.calls = 0 THEN Content(b, finish)
        ELSE [Empty("tool_calls") EXCEPT !.recovered = found.calls]

Passing(state) == [Emptied(state) EXCEPT !.decision = "passthrough"]

\* Mutant: a finish without text flushes a leak only, not an undecided start.
FlushesLeak(state) == state.buffer # <<>> /\ state.decision = "buffering"

FlushesAtFinish(state) == state.buffer # <<>>

RecoverNoContent(state, c) ==
    IF c.finish = "none" \/ ~FlushesAtFinish(state) THEN Forwards(state, <<c>>)
    ELSE Forwards(Passing(state),
                  <<IF state.decision = "buffering" THEN Recovered(state.buffer, c.finish)
                                                    ELSE Content(state.buffer, c.finish)>>)

\* The start of an answer, of which held is all so far.
RecoverDeciding(held, finish) ==
    LET class == ClassifyStreamingBuffer(held.buffer)
        leaking == [held EXCEPT !.decision = "buffering"]
    IN  IF class = "leak" /\ finish # "none"
        THEN Forwards(Emptied(leaking), <<Recovered(held.buffer, finish)>>)
        ELSE IF class = "leak" THEN Forwards(leaking, <<>>)
        ELSE IF class = "no-leak" \/ finish # "none"
        THEN Forwards(Passing(held), <<Content(held.buffer, finish)>>)
        ELSE Forwards(held, <<>>)

RecoverBuffering(held, finish) ==
    IF finish = "none" THEN Forwards(held, <<>>)
    ELSE Forwards(Emptied(held), <<Recovered(held.buffer, finish)>>)

RecoverChoice(state, c) ==
    IF c.parsed
    THEN Forwards([state EXCEPT !.decision = "passthrough"], <<c>>)
    ELSE IF state.decision = "passthrough" THEN Forwards(state, <<c>>)
    ELSE IF c.content = None THEN RecoverNoContent(state, c)
    ELSE IF state.decision = "deciding" THEN RecoverDeciding(Holds(state, c.content), c.finish)
    ELSE RecoverBuffering(Holds(state, c.content), c.finish)

\* What [DONE] flushes, with a finish of its own.
RecoveryDone(state) ==
    IF state.buffer = <<>> \/ state.decision = "passthrough" THEN Forwards(state, <<>>)
    ELSE Forwards(Passing(state), <<Content(state.buffer, "stop")>>)
=============================================================================
