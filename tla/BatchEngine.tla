---------------------------- MODULE BatchEngine ----------------------------
(***************************************************************************)
(* The dense batched-decode state of the Swift engine (Bridge.swift): the  *)
(* per-request sessions made by prefill, the dense slots they are copied   *)
(* into, and the pipelined decode that keeps one sampled token in flight.  *)
(*                                                                         *)
(* Every C entry point runs to completion on the serial engineQueue, so    *)
(* each is one atomic action here.  A token is the pair (request, n): the  *)
(* n-th token the model generates for that request.  A KV cache is named   *)
(* by the last generated token it holds; feeding it any token but the next *)
(* one of its own request leaves it corrupt (position 0), and what is then *)
(* sampled from it is garbage of that row.                                 *)
(***************************************************************************)
EXTENDS Integers, FiniteSets

CONSTANTS
    Requests,       \* request ids the client may use
    NoRequest,      \* owner of a slot that was never written
    Sampling,       \* the requests prefilled with temperature > 0
    MaxConcurrent,  \* engine.maxConcurrentRequests
    BudgetBatch,    \* slots that VSM_MAX_CACHE_GB pays for
    NumSlots,       \* slots the model represents (at least any maxBatch)
    Batchable,      \* whether init_batched supports the model and its caches
    LogprobsBatched, \* whether decode_all_logprobs has a batched path for the model
    MaxPos          \* bound: generated tokens a KV cache holds

ASSUME EngineAssumption ==
    /\ IsFiniteSet(Requests)
    /\ NoRequest \notin Requests
    /\ Sampling \subseteq Requests
    /\ MaxConcurrent \in Nat \ {0}
    /\ BudgetBatch \in Nat \ {0}
    /\ NumSlots \in Nat
    /\ Cardinality(Requests) <= NumSlots
    /\ MaxConcurrent <= NumSlots
    /\ Batchable \in BOOLEAN
    /\ LogprobsBatched \in BOOLEAN
    /\ MaxPos \in Nat

VARIABLES
    session,              \* tokens in the request's own cache, 0: no session
    batchSlots,           \* slot of each request, NoSlot when it has none
    batchTokens,          \* host copy of one token per slot
    kv,                   \* what each slot of the batched KV cache holds
    active,               \* BatchedKVCache.active
    maxBatch,             \* slots allocated, 0: batchedCaches is nil
    pendingSampledTokens, \* lazily sampled tokens of the previous step
    pendingSampledB,      \* their batch size, 0: nothing pending
    hung                  \* engineQueue.sync was re-entered

engineVars == <<session, batchSlots, batchTokens, kv, active, maxBatch,
                pendingSampledTokens, pendingSampledB, hung>>

-----------------------------------------------------------------------------
(* Tokens and caches                                                       *)

Slots == 0 .. NumSlots - 1
NoSlot == -1
NoSession == 0

Cell == [req : Requests \cup {NoRequest}, pos : Nat]
Token(r, n) == [req |-> r, pos |-> n]
Blank == Token(NoRequest, 0)

\* One forward pass of a row: the cache after feeding it a token ...
Forward(cache, tok) ==
    IF cache.pos > 0 /\ tok = Token(cache.req, cache.pos + 1)
    THEN tok
    ELSE Token(cache.req, 0)

\* ... and the token sampled from the cache.
Sample(cache) ==
    IF cache.pos > 0 THEN Token(cache.req, cache.pos + 1) ELSE cache

Live == {r \in Requests : session[r] # NoSession}
Batched == {r \in Requests : batchSlots[r] # NoSlot}
Occupied == {batchSlots[r] : r \in Batched}
BatchSize == Cardinality(Batched)

Larger(a, b) == IF a >= b THEN a ELSE b
Smaller(a, b) == IF a <= b THEN a ELSE b

\* Numberings of the requests of S by 0 .. |S|-1: a dictionary is enumerated
\* in no particular order.
SlotNumberings(S) ==
    {f \in [S -> 0 .. Cardinality(S) - 1] :
        /\ \A r, q \in S : r # q => f[r] # f[q]
        /\ \A s \in 0 .. Cardinality(S) - 1 : \E r \in S : f[r] = s}

Init ==
    /\ session = [r \in Requests |-> NoSession]
    /\ batchSlots = [r \in Requests |-> NoSlot]
    /\ batchTokens = [s \in Slots |-> Blank]
    /\ kv = [s \in Slots |-> Blank]
    /\ active = 0
    /\ maxBatch = 0
    /\ pendingSampledTokens = [s \in Slots |-> Blank]
    /\ pendingSampledB = 0
    /\ hung = FALSE

batchVars == <<batchSlots, batchTokens, kv, active, maxBatch>>
pendingVars == <<pendingSampledTokens, pendingSampledB>>

-----------------------------------------------------------------------------
(* Sessions                                                                *)

\* Mutants: the copied session is kept; every session is dropped.
SessionsKept(S) == session
SessionsCleared(S) == [r \in Requests |-> NoSession]

\* engine.sessions[rid] = nil for the requests of S.
SessionsWithout(S) ==
    [r \in Requests |-> IF r \in S THEN NoSession ELSE session[r]]

\* The iterators of S have fed one more token.
SessionsAfter(S) ==
    [r \in Requests |-> IF r \in S THEN session[r] + 1 ELSE session[r]]

\* vsm_engine_prefill_req: TokenIterator samples token 1, its next() returns it
\* after feeding it, so the session's cache holds one token and y is token 2.
PrefillReq(r) ==
    /\ session' = [session EXCEPT ![r] = 1]
    /\ UNCHANGED <<batchVars, pendingVars, hung>>

PrefillReply(r) == Token(r, 1)

\* vsm_engine_prefill_vlm: the same iterator over a prompt with pixels.
PrefillVlm(r) == PrefillReq(r)

\* vsm_engine_decode_step_req: feed y, return it.
DecodeStepReq(r) ==
    /\ session[r] # NoSession
    /\ session[r] < MaxPos
    /\ session' = SessionsAfter({r})
    /\ UNCHANGED <<batchVars, pendingVars, hung>>

\* Mutant: finish_req misses the session.
FinishReqNothing(r) == UNCHANGED engineVars

\* vsm_engine_finish_req drops the session and nothing else.
FinishReq(r) ==
    /\ session' = SessionsWithout({r})
    /\ UNCHANGED <<batchVars, pendingVars, hung>>

\* vsm_engine_reset drops all sessions and nothing else.
Reset ==
    /\ session' = SessionsWithout(Requests)
    /\ UNCHANGED <<batchVars, pendingVars, hung>>

-----------------------------------------------------------------------------
(* The batch                                                               *)

\* The slots when the requests of S, and no others, are numbered by f.
SlotsOf(S, f) == [r \in Requests |-> IF r \in S THEN f[r] ELSE NoSlot]

\* Slot contents when S is numbered by f and the request in a slot has cell[r].
Laid(S, f, cell) ==
    [s \in Slots |-> IF \E r \in S : f[r] = s
                     THEN cell[CHOOSE r \in S : f[r] = s]
                     ELSE Blank]

\* vsm_engine_init_batched: every session moves into a freshly allocated slot.
InitBatched ==
    /\ Batchable
    /\ Live # {}
    /\ \E f \in SlotNumberings(Live) :
        /\ batchSlots' = SlotsOf(Live, f)
        /\ batchTokens' = Laid(Live, f, [r \in Live |-> Token(r, session[r] + 1)])
        /\ kv' = Laid(Live, f, [r \in Live |-> Token(r, session[r])])
    /\ maxBatch' = Larger(Cardinality(Live), Smaller(MaxConcurrent, BudgetBatch))
    /\ active' = Cardinality(Live)
    /\ session' = SessionsWithout(Live)
    /\ pendingSampledTokens' = [s \in Slots |-> Blank]
    /\ pendingSampledB' = 0
    /\ UNCHANGED hung

\* Mutants: the last slot is written again; room counted one too many.
LastSlotAgain == Larger(0, BatchSize - 1)
RoomForOneMore == maxBatch > 0 /\ BatchSize <= maxBatch

\* The next slot is the number of slots in use, if that many were allocated.
NextSlot == BatchSize
RoomForSlot == maxBatch > 0 /\ BatchSize < maxBatch

\* vsm_engine_add_batch_slot succeeds: the session moves into the next slot.
\* What is pending stays as it is.
AddBatchSlot(r) ==
    /\ session[r] # NoSession
    /\ RoomForSlot
    /\ batchTokens' = [batchTokens EXCEPT ![NextSlot] = Token(r, session[r] + 1)]
    /\ batchSlots' = [batchSlots EXCEPT ![r] = NextSlot]
    /\ kv' = [kv EXCEPT ![NextSlot] = Token(r, session[r])]
    /\ active' = Larger(active, NextSlot + 1)
    /\ session' = SessionsWithout({r})
    /\ UNCHANGED <<maxBatch, pendingVars, hung>>

\* Mutants: the last row is not moved; its request is not re-pointed; the row
\* count is kept, or lowered by each of two layers that share a cache.
RowsLeft(r, rows) == rows
SlotsLeft(r) == [batchSlots EXCEPT ![r] = NoSlot]
ActiveKept == active
ActiveWithoutTwo == active - 2

\* The rows, and the slots, once the last slot has moved into r's.
RowsWithout(r, rows) ==
    IF batchSlots[r] < BatchSize - 1
    THEN [rows EXCEPT ![batchSlots[r]] = rows[BatchSize - 1]]
    ELSE rows
SlotsWithout(r) ==
    [q \in Requests |-> IF q = r THEN NoSlot
                        ELSE IF batchSlots[q] = BatchSize - 1 THEN batchSlots[r]
                        ELSE batchSlots[q]]
ActiveWithoutOne == Larger(0, active - 1)

\* vsm_engine_remove_batch_slot: the last slot moves into the freed one.
\* What is pending stays as it is.
RemoveBatchSlot(r) ==
    /\ batchSlots[r] # NoSlot
    /\ batchSlots' = SlotsWithout(r)
    /\ kv' = RowsWithout(r, kv)
    /\ batchTokens' = RowsWithout(r, batchTokens)
    /\ active' = ActiveWithoutOne
    /\ UNCHANGED <<session, maxBatch, pendingVars, hung>>

\* vsm_engine_prefill_batched_uniform: one [B, T] forward samples token 1 of
\* every request, a second one feeds it and samples token 2, which is stashed.
\* The old batch is dropped; sessions and what is pending are not.
PrefillBatchedUniform(S) ==
    /\ Batchable
    /\ S # {}
    /\ \E f \in SlotNumberings(S) :
        /\ batchSlots' = SlotsOf(S, f)
        /\ batchTokens' = Laid(S, f, [r \in S |-> Token(r, 2)])
        /\ kv' = Laid(S, f, [r \in S |-> Token(r, 1)])
    /\ maxBatch' = Larger(Cardinality(S), MaxConcurrent)
    /\ active' = Cardinality(S)
    /\ UNCHANGED <<session, pendingVars, hung>>

-----------------------------------------------------------------------------
(* Decoding the batch                                                      *)

\* The forward pass over rows 0 .. B-1, fed with one token per row.
KVAfter(input) ==
    [s \in Slots |-> IF s < BatchSize THEN Forward(kv[s], input[s]) ELSE kv[s]]
SampledAfter(input) ==
    [s \in Slots |-> IF s < BatchSize THEN Sample(Forward(kv[s], input[s])) ELSE Blank]

\* (engine.sessions[rid]?.temperature ?? 0) == 0 for every slot
AllGreedy == \A r \in Batched : session[r] # NoSession => r \notin Sampling

RoomInBatch == \A r \in Batched : kv[batchSlots[r]].pos < MaxPos

PipelineValid == AllGreedy /\ pendingSampledB # 0 /\ pendingSampledB = BatchSize

\* Mutants: the pipelined step returns the host copy it has yet to refresh;
\* the synchronous step returns what it has just sampled.
StaleReply == [r \in Batched |-> batchTokens[batchSlots[r]]]
EagerReply ==
    [r \in Batched |-> IF PipelineValid THEN pendingSampledTokens[batchSlots[r]]
                                        ELSE SampledAfter(batchTokens)[batchSlots[r]]]

\* What decode_all returns for the requests of the batch.
BatchReply ==
    [r \in Batched |-> IF PipelineValid THEN pendingSampledTokens[batchSlots[r]]
                                        ELSE batchTokens[batchSlots[r]]]

\* Pipelined step: feed what is pending and return it.
DecodeAsync ==
    /\ PipelineValid
    /\ kv' = KVAfter(pendingSampledTokens)
    /\ pendingSampledTokens' = SampledAfter(pendingSampledTokens)
    /\ pendingSampledB' = BatchSize
    /\ batchTokens' = [s \in Slots |-> IF s \in Occupied THEN pendingSampledTokens[s]
                                       ELSE batchTokens[s]]

\* Synchronous step: feed batchTokens, return them, keep what was sampled.
DecodeSync ==
    /\ ~PipelineValid
    /\ kv' = KVAfter(batchTokens)
    /\ batchTokens' = [s \in Slots |-> IF s \in Occupied THEN SampledAfter(batchTokens)[s]
                                       ELSE batchTokens[s]]
    /\ pendingSampledTokens' =
          IF AllGreedy THEN SampledAfter(batchTokens) ELSE [s \in Slots |-> Blank]
    /\ pendingSampledB' = IF AllGreedy THEN BatchSize ELSE 0

\* vsm_engine_decode_all when there is a batch.  The caller's max_reqs is not
\* looked at: one entry per slot is written.
DecodeBatch ==
    /\ maxBatch > 0
    /\ Batched # {}
    /\ RoomInBatch
    /\ DecodeAsync \/ DecodeSync
    /\ UNCHANGED <<session, batchSlots, active, maxBatch, hung>>

\* vsm_engine_decode_all without a batch: max_reqs sessions S, whichever come
\* first, each feed their y and return the token sampled after it.
DecodeSemiBatched(maxReqs, S) ==
    /\ maxBatch = 0 \/ Batched = {}
    /\ S \subseteq Live
    /\ S # {}
    /\ Cardinality(S) = Smaller(maxReqs, Cardinality(Live))
    /\ \A r \in S : session[r] < MaxPos
    /\ session' = SessionsAfter(S)
    /\ UNCHANGED <<batchVars, pendingVars, hung>>

SemiReply(S) == [r \in S |-> Token(r, session[r] + 2)]

\* vsm_engine_decode_all_logprobs with a batch: feed batchTokens, keep and
\* return what is sampled.  It needs some session to exist, whoever's, and of
\* the dense models it knows Qwen3 only.
DecodeLogprobsBatch ==
    /\ LogprobsBatched
    /\ Live # {}
    /\ maxBatch > 0
    /\ Batched # {}
    /\ RoomInBatch
    /\ kv' = KVAfter(batchTokens)
    /\ batchTokens' = [s \in Slots |-> IF s \in Occupied THEN SampledAfter(batchTokens)[s]
                                       ELSE batchTokens[s]]
    /\ UNCHANGED <<session, batchSlots, active, maxBatch, pendingVars, hung>>

\* Its fallback calls vsm_engine_decode_all from inside engineQueue.sync.
DecodeLogprobsFallback ==
    /\ Live # {}
    /\ ~LogprobsBatched \/ maxBatch = 0 \/ Batched = {}
    /\ hung' = TRUE
    /\ UNCHANGED <<session, batchVars, pendingVars>>

LogprobsReply == [r \in Batched |-> SampledAfter(batchTokens)[batchSlots[r]]]

DecodeAllLogprobs == DecodeLogprobsBatch \/ DecodeLogprobsFallback

-----------------------------------------------------------------------------
(* A client with the contract of bridge.h: a request id in use is not used *)
(* again, and the calls come in any order.                                 *)

Fresh(r) == session[r] = NoSession /\ batchSlots[r] = NoSlot

Next ==
    /\ ~hung
    /\ \/ \E r \in Requests : Fresh(r) /\ PrefillReq(r)
       \/ \E r \in Requests : DecodeStepReq(r)
       \/ \E r \in Requests : FinishReq(r)
       \/ Reset
       \/ InitBatched
       \/ \E r \in Requests : AddBatchSlot(r)
       \/ \E r \in Requests : RemoveBatchSlot(r)
       \/ \E S \in SUBSET Requests : (\A r \in S : Fresh(r)) /\ PrefillBatchedUniform(S)
       \/ DecodeBatch
       \/ \E maxReqs \in 1 .. Cardinality(Requests), S \in SUBSET Requests :
            DecodeSemiBatched(maxReqs, S)
       \/ DecodeAllLogprobs

Spec == Init /\ [][Next]_engineVars

-----------------------------------------------------------------------------
(* Properties                                                              *)

\* Types of the engine's state.
TypeOK ==
    /\ session \in [Requests -> Nat]
    /\ batchSlots \in [Requests -> Slots \cup {NoSlot}]
    /\ batchTokens \in [Slots -> Cell]
    /\ kv \in [Slots -> Cell]
    /\ active \in Nat
    /\ maxBatch \in 0 .. NumSlots
    /\ pendingSampledTokens \in [Slots -> Cell]
    /\ pendingSampledB \in Nat
    /\ hung \in BOOLEAN

\* The batch is dense: its requests occupy slots 0 .. B-1, one each, whatever
\* the order of adds and swap-from-the-end removals.  The forward pass reads
\* batchTokens[0..<B], so a hole would decode a dead row and skip a live one.
SlotsDense ==
    /\ Occupied = 0 .. BatchSize - 1
    /\ \A r, q \in Batched : r # q => batchSlots[r] # batchSlots[q]

\* The KV rows follow their requests through every swap: the row a request's
\* slot points at was built from that request's own prompt.
SlotHoldsItsRequest == \A r \in Batched : kv[batchSlots[r]].req = r

\* A request's KV cache is in its session or in a slot, never in both: moving
\* it frees the session, so KV memory is not held twice and no call can
\* advance two copies of one stream.
KVInOnePlace == Live \cap Batched = {}

\* The row count kept inside the batched KV cache is the number of slots in
\* use: adds, removals and rebuilds keep the two counters in step.
ActiveMatches == active = BatchSize

\* Adding or removing one request moves the rows of the others and nothing
\* more: a request that stays in the batch keeps its KV rows and its next
\* token across any change of the slot map.
MovesKeepRows ==
    batchSlots' # batchSlots =>
        \A r \in Batched : batchSlots'[r] # NoSlot =>
            /\ kv'[batchSlots'[r]] = kv[batchSlots[r]]
            /\ batchTokens'[batchSlots'[r]] = batchTokens[batchSlots[r]]

RowsSurviveMoves == [][MovesKeepRows]_engineVars

\* No request is given a slot beyond the rows that were allocated.
WithinCapacity == \A r \in Batched : batchSlots[r] < maxBatch

=============================================================================
