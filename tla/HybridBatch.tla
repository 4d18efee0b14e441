---------------------------- MODULE HybridBatch ----------------------------
(***************************************************************************)
(* The batch of hybrid models (BatchedHybridLLM): every layer, attention   *)
(* or recurrent, has rows and a row count of its own, which the entry      *)
(* points of BatchEngine must keep in lockstep.  Moving a session into a   *)
(* slot copies layer after layer, and a copy that fails returns from the   *)
(* middle: the slot is registered by then, later layers are not written,   *)
(* and init_batched has already let go of the sessions before.  An add to  *)
(* a full batch is not refused, as the dense engine does, but indexes past *)
(* the end of batchTokens.                                                 *)
(***************************************************************************)
EXTENDS Integers, FiniteSets

CONSTANTS
    Requests, NoRequest, Sampling, MaxConcurrent, NumSlots, MaxPos,
    NumLayers,      \* layers of the model
    FailsAt         \* the layer at which the copy of a request's caches fails

Layers == 1 .. NumLayers

\* The copy gets through all layers.
Copied == NumLayers + 1

ASSUME HybridAssumption ==
    /\ IsFiniteSet(Requests)
    /\ NoRequest \notin Requests
    /\ Sampling \subseteq Requests
    /\ MaxConcurrent \in Nat \ {0}
    /\ NumSlots \in Nat
    /\ Cardinality(Requests) <= NumSlots
    /\ MaxConcurrent <= NumSlots
    /\ MaxPos \in Nat
    /\ NumLayers \in Nat \ {0}
    /\ FailsAt \in [Requests -> 1 .. Copied]

VARIABLES
    session, batchSlots, batchTokens, maxBatch,
    pendingSampledTokens, pendingSampledB, hung,
    rows,       \* what each slot holds, layer by layer
    actives,    \* the active count of each layer
    tokensLen,  \* the length of batchTokens
    trapped,    \* an index was out of range: the process is gone
    failed      \* history: some copy has failed

pendingVars == <<pendingSampledTokens, pendingSampledB>>
ownVars == <<trapped, failed>>
hybridVars == <<session, batchSlots, batchTokens, maxBatch, pendingVars, hung,
                rows, actives, tokensLen, ownVars>>

\* The engine as layer l has it.
Layer(l) == INSTANCE BatchEngine WITH
    kv <- rows[l], active <- actives[l], BudgetBatch <- NumSlots, Batchable <- TRUE,
    LogprobsBatched <- TRUE

NoSlot == Layer(1)!NoSlot
Slots == Layer(1)!Slots
Live == Layer(1)!Live
Batched == Layer(1)!Batched
BatchSize == Layer(1)!BatchSize
Token(r, n) == Layer(1)!Token(r, n)
Blanks == [s \in Slots |-> Layer(1)!Blank]

Init ==
    /\ rows = [l \in Layers |-> Blanks]
    /\ actives = [l \in Layers |-> 0]
    /\ Layer(1)!Init
    /\ tokensLen = 0
    /\ trapped = FALSE /\ failed = FALSE

-----------------------------------------------------------------------------
(* Sessions: prefill, single steps, finish, reset and decode_all without a *)
(* batch are those of the dense engine.                                    *)

NoBatchTouched == UNCHANGED <<rows, actives, tokensLen, ownVars>>

SessionCall ==
    /\ NoBatchTouched
    /\ \/ \E r \in Requests : Layer(1)!Fresh(r) /\ Layer(1)!PrefillReq(r)
       \/ \E r \in Requests : Layer(1)!DecodeStepReq(r)
       \/ \E r \in Requests : Layer(1)!FinishReq(r)
       \/ Layer(1)!Reset
       \/ \E maxReqs \in 1 .. Cardinality(Requests), S \in SUBSET Requests :
             Layer(1)!DecodeSemiBatched(maxReqs, S)
       \/ Layer(1)!DecodeLogprobsFallback

-----------------------------------------------------------------------------
(* Slots that are not there                                                *)

\* The slots that both batchTokens and the rows have.
Reach == Layer(1)!Smaller(tokensLen, maxBatch)

\* Slot s is used and is not there: the process is gone.
Traps(s) ==
    /\ maxBatch > 0 /\ s >= Reach
    /\ trapped' = TRUE
    /\ UNCHANGED <<session, batchSlots, batchTokens, maxBatch, pendingVars, hung,
                   rows, actives, tokensLen, failed>>

-----------------------------------------------------------------------------
(* Filling the batch                                                       *)

\* Mutant: no more tokens than requests now.
TokensForNow(B) == B

\* batchTokens, and the rows of a new cache.
TokensFor(B) == Layer(1)!Larger(B, MaxConcurrent)

Intact(r) == FailsAt[r] = Copied

\* A new cache with the requests of S numbered by f, each having fed n tokens.
NewBatch(S, f, n) ==
    /\ batchSlots' = Layer(1)!SlotsOf(S, f)
    /\ batchTokens' = Layer(1)!Laid(S, f, [r \in S |-> Token(r, n[r] + 1)])
    /\ rows' = [l \in Layers |-> Layer(1)!Laid(S, f, [r \in S |-> Token(r, n[r])])]
    /\ actives' = [l \in Layers |-> Cardinality(S)]
    /\ maxBatch' = TokensFor(Cardinality(S))
    /\ tokensLen' = TokensFor(Cardinality(S))

\* initBatchedHybrid copies every session, and installs the new cache last.
InitBatched ==
    /\ Live # {}
    /\ \A r \in Live : Intact(r)
    /\ \E f \in Layer(1)!SlotNumberings(Live) : NewBatch(Live, f, session)
    /\ session' = Layer(1)!SessionsWithout(Live)
    /\ pendingSampledTokens' = Blanks /\ pendingSampledB' = 0
    /\ UNCHANGED <<hung, ownVars>>

\* It fails at request r: the slots are new, up to r's, and the sessions before
\* r's are gone; but the new cache is thrown away and the old one stays.
InitBatchedFails ==
    /\ \E f \in Layer(1)!SlotNumberings(Live), r \in Live :
        /\ ~Intact(r)
        /\ \A q \in Live : f[q] < f[r] => Intact(q)
        /\ LET S == {q \in Live : f[q] <= f[r]} IN
            /\ batchSlots' = Layer(1)!SlotsOf(S, f)
            /\ batchTokens' = Layer(1)!Laid(S, f, [q \in S |-> Token(q, session[q] + 1)])
            /\ session' = Layer(1)!SessionsWithout(S \ {r})
    /\ tokensLen' = TokensFor(Cardinality(Live))
    /\ failed' = TRUE
    /\ UNCHANGED <<rows, actives, maxBatch, pendingVars, hung, trapped>>

\* Mutants: the recurrent layers are forgotten; the count is incremented.
CopiedFirst(r) ==
    [rows EXCEPT ![1] = [rows[1] EXCEPT ![BatchSize] = Token(r, session[r])]]
CountedUp(l) == actives[l] + 1

\* The layers before FailsAt[r] hold r's cache in the next slot ...
CopiedInto(r) ==
    [l \in Layers |-> IF l < FailsAt[r]
                      THEN [rows[l] EXCEPT ![BatchSize] = Token(r, session[r])]
                      ELSE rows[l]]

\* ... and count it.
CountWith(l) == Layer(1)!Larger(actives[l], BatchSize + 1)

\* Clients add a request once, whatever it returns.
MayAdd(r) == session[r] # Layer(1)!NoSession /\ batchSlots[r] = NoSlot

\* addBatchSlotHybrid registers the slot, copies, and drops the session if it
\* gets that far.
AddBatchSlot(r) ==
    /\ MayAdd(r)
    /\ maxBatch > 0 /\ BatchSize < Reach
    /\ batchTokens' = [batchTokens EXCEPT ![BatchSize] = Token(r, session[r] + 1)]
    /\ batchSlots' = [batchSlots EXCEPT ![r] = BatchSize]
    /\ rows' = CopiedInto(r)
    /\ actives' = [l \in Layers |-> IF l < FailsAt[r] THEN CountWith(l) ELSE actives[l]]
    /\ session' = IF Intact(r) THEN Layer(1)!SessionsWithout({r}) ELSE session
    /\ failed' = (failed \/ ~Intact(r))
    /\ UNCHANGED <<maxBatch, tokensLen, pendingVars, hung, trapped>>

\* It never compares the slot with what was allocated.
AddBatchSlotTraps(r) == MayAdd(r) /\ Traps(BatchSize)

\* BatchedHybridCache.removeSlot: each layer moves its own last row.
LayerWithout(l, s) ==
    IF s < actives[l] - 1 THEN [rows[l] EXCEPT ![s] = rows[l][actives[l] - 1]] ELSE rows[l]

RemoveBatchSlot(r) ==
    /\ batchSlots[r] # NoSlot
    /\ maxBatch > 0
    /\ batchSlots' = Layer(1)!SlotsWithout(r)
    /\ batchTokens' = Layer(1)!RowsWithout(r, batchTokens)
    /\ rows' = [l \in Layers |-> LayerWithout(l, batchSlots[r])]
    /\ actives' = [l \in Layers |-> Layer(l)!ActiveWithoutOne]
    /\ UNCHANGED <<session, maxBatch, tokensLen, pendingVars, hung, ownVars>>

\* prefillBatchedUniformHybrid replaces cache and slots, and nothing if it fails.
PrefillBatchedUniform(S) ==
    /\ S # {}
    /\ \E f \in Layer(1)!SlotNumberings(S) : NewBatch(S, f, [r \in S |-> 1])
    /\ UNCHANGED <<session, pendingVars, hung, ownVars>>

-----------------------------------------------------------------------------
(* Decoding the batch                                                      *)

\* A row whose layers hold different things yields nothing of use.
InStep(s) == \A l \in Layers : rows[l][s] = rows[1][s]

\* The forward pass over rows 0 .. B-1 of all layers.
RowsAfter(input) ==
    [l \in Layers |-> [s \in Slots |->
        IF s >= BatchSize THEN rows[l][s]
        ELSE IF InStep(s) THEN Layer(l)!Forward(rows[l][s], input[s])
        ELSE Token(rows[l][s].req, 0)]]

SampledAfter(input) ==
    [s \in Slots |-> IF s < BatchSize THEN Layer(1)!Sample(RowsAfter(input)[1][s])
                                      ELSE Layer(1)!Blank]

Advance(tokens) == [s \in Slots |-> IF s \in Layer(1)!Occupied THEN tokens[s] ELSE batchTokens[s]]

CanDecode ==
    /\ maxBatch > 0
    /\ Batched # {} /\ BatchSize <= Reach
    /\ Layer(1)!RoomInBatch

\* A failed init_batched may have put more slots over the old cache than it has
\* rows.
DecodeTraps == Batched # {} /\ Traps(BatchSize - 1)

DecodeAsync ==
    /\ CanDecode /\ Layer(1)!PipelineValid
    /\ rows' = RowsAfter(pendingSampledTokens)
    /\ pendingSampledTokens' = SampledAfter(pendingSampledTokens)
    /\ pendingSampledB' = BatchSize
    /\ batchTokens' = Advance(pendingSampledTokens)
    /\ UNCHANGED <<session, batchSlots, maxBatch, hung, actives, tokensLen, ownVars>>

DecodeSync ==
    /\ CanDecode /\ ~Layer(1)!PipelineValid
    /\ rows' = RowsAfter(batchTokens)
    /\ batchTokens' = Advance(SampledAfter(batchTokens))
    /\ pendingSampledTokens' =
          IF Layer(1)!AllGreedy THEN SampledAfter(batchTokens) ELSE Blanks
    /\ pendingSampledB' = IF Layer(1)!AllGreedy THEN BatchSize ELSE 0
    /\ UNCHANGED <<session, batchSlots, maxBatch, hung, actives, tokensLen, ownVars>>

DecodeLogprobsBatch ==
    /\ CanDecode /\ Live # {}
    /\ rows' = RowsAfter(batchTokens)
    /\ batchTokens' = Advance(SampledAfter(batchTokens))
    /\ UNCHANGED <<session, batchSlots, maxBatch, pendingVars, hung, actives, tokensLen, ownVars>>

Next ==
    /\ ~hung /\ ~trapped
    /\ \/ SessionCall
       \/ InitBatched
       \/ InitBatchedFails
       \/ \E r \in Requests : AddBatchSlot(r)
       \/ \E r \in Requests : AddBatchSlotTraps(r)
       \/ \E r \in Requests : RemoveBatchSlot(r)
       \/ \E S \in SUBSET Requests :
             (\A r \in S : Layer(1)!Fresh(r)) /\ PrefillBatchedUniform(S)
       \/ DecodeTraps
       \/ DecodeAsync
       \/ DecodeSync
       \/ DecodeLogprobsBatch

HybridSpec == Init /\ [][Next]_hybridVars

-----------------------------------------------------------------------------
(* Properties                                                              *)

\* Types; no layer counts more rows than there are slots.
HybridTypeOK ==
    /\ session \in [Requests -> Nat]
    /\ batchSlots \in [Requests -> Slots \cup {NoSlot}]
    /\ batchTokens \in [Slots -> Layer(1)!Cell]
    /\ rows \in [Layers -> [Slots -> Layer(1)!Cell]]
    /\ actives \in [Layers -> 0 .. NumSlots]
    /\ maxBatch \in 0 .. NumSlots /\ tokensLen \in 0 .. NumSlots
    /\ pendingSampledTokens \in [Slots -> Layer(1)!Cell]
    /\ pendingSampledB \in 0 .. NumSlots
    /\ hung \in BOOLEAN /\ trapped \in BOOLEAN /\ failed \in BOOLEAN

\* Whatever copies fail, and wherever, the slot map stays dense; and the process
\* is lost only if max_num_seqs slots are in use and one more is asked for: no
\* failure, rebuild or removal leaves tokens or rows for fewer slots than that.
\* A client that never holds more slots loses requests to failures, and never
\* the process.
MapSurvivesFailures ==
    /\ Layer(1)!SlotsDense
    /\ trapped => BatchSize >= MaxConcurrent

\* A step of the dense engine, or none, as layer l sees it.
EngineStep(l) == Layer(l)!Next \/ UNCHANGED Layer(l)!engineVars

\* As long as no copy fails and the process lives, each layer is a dense engine:
\* attention and recurrent rows are filled, moved, counted and fed in lockstep,
\* through every operation and in any order.  The two part when an add meets a
\* full batch, which the dense engine refuses and the hybrid one does not survive.
LayersImplementEngine ==
    /\ \A l \in Layers : Layer(l)!Init
    /\ [][failed' \/ trapped' \/ \A l \in Layers : EngineStep(l)]_hybridVars

=============================================================================
