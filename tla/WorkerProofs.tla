----------------------------- MODULE WorkerProofs -----------------------------
(***************************************************************************)
(* The worker keeps the contract of the engine, so that what is proved of  *)
(* the engine under any client holds of it under the worker.               *)
(***************************************************************************)
EXTENDS Worker, BatchEngineProofs

-----------------------------------------------------------------------------
(* Type correctness                                                        *)

PCs == {"idle", "prefill", "remove", "add", "decode", "finish", "sample",
        "attribute_error", "index_error"}

LEMMA DeliverType ==
    ASSUME WorkerTypeOK, NEW S \in SUBSET Requests, NEW reply \in [S -> Cell], Deliver(reply)
    PROVE  activeRequests' \in [Requests -> Nat] /\ lastToken' \in [Requests -> Cell]
  BY DEF Deliver, WorkerTypeOK

LEMMA EnterType ==
    ASSUME WorkerTypeOK, NEW loop \in PCs, NEW S \in SUBSET Requests, Enter(loop, S)
    PROVE  /\ pc' = loop
           /\ tick' \in [new : SUBSET Requests, cached : SUBSET Requests,
                         finished : SUBSET Requests, todo : SUBSET Requests]
           /\ tick'.todo = S
  BY DEF Enter, WorkerTypeOK, PCs

LEMMA DidType ==
    ASSUME WorkerTypeOK, NEW S, Did(S)
    PROVE  /\ tick' \in [new : SUBSET Requests, cached : SUBSET Requests,
                         finished : SUBSET Requests, todo : SUBSET Requests]
           /\ tick'.todo = tick.todo \ S
  BY DEF Did, WorkerTypeOK

LEMMA TakeReplyType ==
    ASSUME WorkerTypeOK, NEW S \in SUBSET Requests, NEW reply \in [S -> Cell],
           TakeReply(reply)
    PROVE  /\ pc' \in {"finish", "index_error"}
           /\ tick' \in [new : SUBSET Requests, cached : SUBSET Requests,
                         finished : SUBSET Requests, todo : SUBSET Requests]
           /\ activeRequests' \in [Requests -> Nat] /\ lastToken' \in [Requests -> Cell]
           /\ output' \subseteq Requests
  <1> DEFINE mine == [r \in tick.cached \cap DOMAIN reply |-> reply[r]]
  <1>1. CASE Cardinality(DOMAIN reply) > Cardinality(tick.cached)
    BY <1>1 DEF TakeReply, WorkerTypeOK
  <1>2. CASE ~(Cardinality(DOMAIN reply) > Cardinality(tick.cached))
    <2>1. Deliver(mine) /\ Enter("finish", tick.finished) /\ output' = output \cup tick.cached
      BY <1>2 DEF TakeReply
    <2>2. tick.cached \in SUBSET Requests /\ tick.finished \in SUBSET Requests
          /\ output \subseteq Requests
      BY DEF WorkerTypeOK
    <2>3. tick.cached \cap S \in SUBSET Requests /\ mine \in [tick.cached \cap S -> Cell]
      BY <2>2
    <2> HIDE DEF mine
    <2>4. activeRequests' \in [Requests -> Nat] /\ lastToken' \in [Requests -> Cell]
      BY <2>1, <2>3, DeliverType
    <2> QED
      BY <2>1, <2>2, <2>4, EnterType DEF PCs
  <1> QED
    BY <1>1, <1>2

\* Every reply of the engine is a cell for each of some requests.
LEMMA ReplyTypes ==
    ASSUME TypeOK
    PROVE  /\ BatchReply \in [Batched -> Cell]
           /\ LogprobsReply \in [Batched -> Cell]
           /\ \A S \in SUBSET Requests : SemiReply(S) \in [S -> Cell]
           /\ NoReply \in [{} -> Cell]
  <1>1. \A r \in Batched : batchSlots[r] \in Slots
    BY DEF Batched, TypeOK
  <1>2. BatchReply \in [Batched -> Cell]
    BY <1>1 DEF BatchReply, TypeOK
  <1>3. SampledAfter(batchTokens) \in [Slots -> Cell]
    BY PassType DEF TypeOK
  <1>4. LogprobsReply \in [Batched -> Cell]
    BY <1>1, <1>3 DEF LogprobsReply
  <1>5. \A S \in SUBSET Requests : SemiReply(S) \in [S -> Cell]
    BY TokenType DEF SemiReply, TypeOK
  <1> QED
    BY <1>2, <1>4, <1>5 DEF NoReply

-----------------------------------------------------------------------------
(* The invariant: a request the worker has yet to prefill is not known to  *)
(* the engine.                                                             *)

Unprefilled(r) == status[r] = "waiting" \/ (pc = "prefill" /\ r \in tick.todo)

\* A request in the prefill loop is no longer waiting.
Admitted == \A r \in Requests : pc = "prefill" /\ r \in tick.todo => status[r] # "waiting"

WorkerInv ==
    /\ WorkerTypeOK
    /\ EngineInv
    /\ Admitted
    /\ \A r \in Requests : Unprefilled(r) => Fresh(r)

\* Calls that are not prefills: none of them makes a request known.
OtherCall ==
    \/ \E r \in Requests : FinishReq(r)
    \/ InitBatched
    \/ \E r \in Requests : AddBatchSlot(r)
    \/ \E r \in Requests : RemoveBatchSlot(r)
    \/ DecodeBatch
    \/ \E maxReqs \in 1 .. Cardinality(Requests), S \in SUBSET Requests :
            DecodeSemiBatched(maxReqs, S)
    \/ DecodeAllLogprobs
    \/ UNCHANGED engineVars

LEMMA OtherCallIsStep == ~hung /\ OtherCall => [Next]_engineVars
  BY DEF OtherCall, Next

LEMMA FreshStays ==
    ASSUME EngineInv, OtherCall, NEW q \in Requests, Fresh(q)
    PROVE  Fresh(q)'
  <1>1. TypeOK /\ session[q] = NoSession /\ batchSlots[q] = NoSlot /\ q \notin Live
    BY DEF EngineInv, Fresh, Live
  <1>2. ASSUME NEW S \in SUBSET Requests, session' = SessionsWithout(S) PROVE session'[q] = NoSession
    BY <1>1, <1>2 DEF SessionsWithout
  <1>3. ASSUME NEW r \in Requests, FinishReq(r) PROVE Fresh(q)'
    BY <1>1, <1>2, <1>3 DEF FinishReq, batchVars, Fresh
  <1>4. CASE InitBatched
    BY <1>1, <1>2, <1>4, Sizes DEF InitBatched, SlotsOf, Fresh
  <1>5. ASSUME NEW r \in Requests, AddBatchSlot(r) PROVE Fresh(q)'
    <2>1. q # r
      BY <1>1, <1>5 DEF AddBatchSlot
    <2> QED
      BY <1>1, <1>2, <1>5, <2>1 DEF AddBatchSlot, Fresh, TypeOK
  <1>6. ASSUME NEW r \in Requests, RemoveBatchSlot(r) PROVE Fresh(q)'
    <2>1. BatchSize - 1 # NoSlot
      <3>1. r \in Batched /\ batchSlots[r] \in 0 .. BatchSize - 1
        BY <1>6 DEF RemoveBatchSlot, Batched, EngineInv, SlotsDense, Occupied
      <3> QED
        BY <3>1, Sizes DEF NoSlot
    <2> QED
      BY <1>1, <1>6, <2>1 DEF RemoveBatchSlot, SlotsWithout, Fresh
  <1>7. CASE DecodeBatch
    BY <1>1, <1>7 DEF DecodeBatch, Fresh
  <1>8. ASSUME NEW maxReqs, NEW S \in SUBSET Requests, DecodeSemiBatched(maxReqs, S)
        PROVE  Fresh(q)'
    BY <1>1, <1>8 DEF DecodeSemiBatched, SessionsAfter, batchVars, Fresh
  <1>9. CASE DecodeAllLogprobs
    BY <1>1, <1>9 DEF DecodeAllLogprobs, DecodeLogprobsBatch, DecodeLogprobsFallback,
       batchVars, Fresh
  <1>10. CASE UNCHANGED engineVars
    BY <1>1, <1>10 DEF engineVars, Fresh
  <1> QED
    BY <1>3, <1>4, <1>5, <1>6, <1>7, <1>8, <1>9, <1>10 DEF OtherCall

\* The worker's own variables have their types after a step.
OwnTypes ==
    /\ pc \in PCs
    /\ tick \in [new : SUBSET Requests, cached : SUBSET Requests,
                 finished : SUBSET Requests, todo : SUBSET Requests]
    /\ batchedInitialized \in BOOLEAN
    /\ activeRequests \in [Requests -> Nat]
    /\ output \subseteq Requests
    /\ status \in [Requests -> {"waiting", "running", "finished", "done"}]
    /\ lastToken \in [Requests -> Cell]

LEMMA OwnTypesOf == WorkerTypeOK <=> TypeOK /\ OwnTypes
  BY DEF WorkerTypeOK, OwnTypes, PCs

\* The steps that prefill nothing.
PrefillsNothing ==
    /\ OtherCall
    /\ OwnTypes'
    /\ Admitted'
    /\ \A r \in Requests : Unprefilled(r)' => Unprefilled(r)

LEMMA PrefillUniformGroupStep ==
    ASSUME WorkerInv, NEW r \in Requests, PrefillUniformGroup(r)
    PROVE  PrefillsNothing
  BY DEF PrefillUniformGroup, PrefillsNothing, OtherCall, WorkerInv, WorkerTypeOK, OwnTypes,
         PCs, Unprefilled, Admitted

\* A loop that ends enters the next one with some requests to go through.
LEMMA LoopEnds ==
    ASSUME WorkerInv, NEW loop \in PCs \ {"prefill"}, NEW S \in SUBSET Requests,
           Enter(loop, S), OtherCall,
           UNCHANGED <<batchedInitialized, activeRequests, output, status, lastToken>>
    PROVE  PrefillsNothing
  <1>1. OwnTypes'
    BY EnterType, OwnTypesOf DEF WorkerInv, OwnTypes
  <1>2. pc' = loop /\ loop # "prefill"
    BY EnterType DEF WorkerInv
  <1> QED
    BY <1>1, <1>2 DEF PrefillsNothing, Unprefilled, Admitted

LEMMA PrefillsDoneStep == ASSUME WorkerInv, PrefillsDone PROVE PrefillsNothing
  <1>1. (IF batchedInitialized THEN tick.finished ELSE {}) \in SUBSET Requests
    BY DEF WorkerInv, WorkerTypeOK
  <1> QED
    BY <1>1, LoopEnds DEF PrefillsDone, OtherCall, PCs

LEMMA RemovesDoneStep == ASSUME WorkerInv, RemovesDone PROVE PrefillsNothing
  <1>1. (IF batchedInitialized THEN tick.new ELSE {}) \in SUBSET Requests
    BY DEF WorkerInv, WorkerTypeOK
  <1> QED
    BY <1>1, LoopEnds DEF RemovesDone, OtherCall, PCs

LEMMA AddsDoneStep == ASSUME WorkerInv, AddsDone PROVE PrefillsNothing
  <1>1. (IF tick.cached = {} THEN tick.finished ELSE {}) \in SUBSET Requests
    BY DEF WorkerInv, WorkerTypeOK
  <1>2. (IF tick.cached = {} THEN "finish" ELSE "decode") \in PCs \ {"prefill"}
    BY DEF PCs
  <1> QED
    BY <1>1, <1>2, LoopEnds DEF AddsDone, OtherCall

LEMMA FinishesDoneStep == ASSUME WorkerInv, FinishesDone PROVE PrefillsNothing
  BY LoopEnds DEF FinishesDone, OtherCall, PCs

\* One round of a loop that does not prefill.
LEMMA LoopRound ==
    ASSUME WorkerInv, NEW r \in Requests, Did({r}), OtherCall, pc # "prefill",
           activeRequests' \in [Requests -> Nat],
           UNCHANGED <<pc, batchedInitialized, output, status, lastToken>>
    PROVE  PrefillsNothing
  <1>1. OwnTypes'
    BY DidType, OwnTypesOf DEF WorkerInv, OwnTypes
  <1> QED
    BY <1>1 DEF PrefillsNothing, Unprefilled, Admitted

LEMMA RemoveFinishedStep ==
    ASSUME WorkerInv, NEW r \in Requests, RemoveFinished(r)
    PROVE  PrefillsNothing
  <1>1. OtherCall
    BY DEF RemoveFinished, OtherCall
  <1> QED
    BY <1>1, LoopRound DEF RemoveFinished, WorkerInv, WorkerTypeOK

LEMMA AddNewStep ==
    ASSUME WorkerInv, NEW r \in Requests, AddNew(r)
    PROVE  PrefillsNothing
  <1>1. OtherCall
    BY DEF AddNew, OtherCall
  <1> QED
    BY <1>1, LoopRound DEF AddNew, WorkerInv, WorkerTypeOK

LEMMA FinishOneStep ==
    ASSUME WorkerInv, NEW r \in Requests, FinishOne(r)
    PROVE  PrefillsNothing
  <1>1. OtherCall
    BY DEF FinishOne, OtherCall
  <1>2. activeRequests' \in [Requests -> Nat]
    BY DEF FinishOne, WorkerInv, WorkerTypeOK
  <1> QED
    BY <1>1, <1>2, LoopRound DEF FinishOne

LEMMA InitFirstTimeStep == ASSUME WorkerInv, InitFirstTime PROVE PrefillsNothing
  <1>1. OtherCall
    BY DEF InitFirstTime, OtherCall
  <1> QED
    BY <1>1, OwnTypesOf
    DEF InitFirstTime, PrefillsNothing, WorkerInv, OwnTypes, Unprefilled, Admitted

\* The reply of a decode call is taken in.
LEMMA ReplyTaken ==
    ASSUME WorkerInv, NEW S \in SUBSET Requests, NEW reply \in [S -> Cell],
           TakeReply(reply), OtherCall, UNCHANGED <<batchedInitialized, status>>
    PROVE  PrefillsNothing
  <1>1. /\ OwnTypes' /\ pc' # "prefill"
    BY TakeReplyType, OwnTypesOf DEF WorkerInv, OwnTypes, PCs
  <1> QED
    BY <1>1 DEF PrefillsNothing, Unprefilled, Admitted

\* A semi-batched decode is asked for between one and all of the requests.
LEMMA CachedSize ==
    ASSUME WorkerInv, NEW S, DecodeSemiBatched(Cardinality(tick.cached), S)
    PROVE  Cardinality(tick.cached) \in 1 .. Cardinality(Requests)
  <1>1. /\ S \in SUBSET Requests /\ tick.cached \in SUBSET Requests
        /\ IsFiniteSet(S) /\ Cardinality(S) \in Nat /\ Cardinality(S) # 0
    BY Sizes, SubsetSize, FS_EmptySet DEF DecodeSemiBatched, WorkerInv, WorkerTypeOK
  <1>2. Cardinality(tick.cached) \in Nat /\ Cardinality(Requests) \in Nat
        /\ Cardinality(tick.cached) <= Cardinality(Requests)
    BY <1>1, SubsetSize, EngineAssumption, FS_Subset, FS_CardinalityType
  <1>3. Cardinality(Live) \in Nat
    BY Sizes, EngineAssumption
  <1> QED
    BY <1>1, <1>2, <1>3 DEF DecodeSemiBatched, Smaller

LEMMA DecodePlainStep == ASSUME WorkerInv, DecodePlain PROVE PrefillsNothing
  <1>1. TypeOK /\ UNCHANGED <<batchedInitialized, status>>
    BY DEF WorkerInv, WorkerTypeOK, DecodePlain
  <1>2. CASE DecodeBatch /\ TakeReply(BatchReply)
    <2>1. OtherCall /\ Batched \in SUBSET Requests
      BY <1>2, Sizes DEF OtherCall
    <2> QED
      BY <1>1, <1>2, <2>1, ReplyTypes, ReplyTaken
  <1>3. ASSUME NEW S \in SUBSET Live, DecodeSemiBatched(Cardinality(tick.cached), S),
               TakeReply(SemiReply(S))
        PROVE  PrefillsNothing
    <2>1. S \in SUBSET Requests
      BY Sizes
    <2>2. Cardinality(tick.cached) \in 1 .. Cardinality(Requests)
      BY <1>3, CachedSize
    <2>3. OtherCall
      BY <1>3, <2>1, <2>2 DEF OtherCall
    <2> QED
      BY <1>1, <1>3, <2>1, <2>3, ReplyTypes, ReplyTaken
  <1>4. CASE NothingToDecode /\ UNCHANGED engineVars /\ TakeReply(NoReply)
    <2>1. OtherCall
      BY <1>4 DEF OtherCall
    <2> QED
      BY <1>1, <1>4, <2>1, ReplyTypes, ReplyTaken
  <1> QED
    BY <1>2, <1>3, <1>4 DEF DecodePlain

LEMMA DecodeLogprobsStep == ASSUME WorkerInv, DecodeLogprobs PROVE PrefillsNothing
  <1>1. TypeOK /\ UNCHANGED <<batchedInitialized, status>>
    BY DEF WorkerInv, WorkerTypeOK, DecodeLogprobs
  <1>2. CASE DecodeLogprobsBatch /\ TakeReply(LogprobsReply)
    <2>1. OtherCall /\ Batched \in SUBSET Requests
      BY <1>2, Sizes DEF OtherCall, DecodeAllLogprobs
    <2> QED
      BY <1>1, <1>2, <2>1, ReplyTypes, ReplyTaken
  <1>3. CASE /\ DecodeLogprobsFallback
             /\ UNCHANGED <<pc, tick, activeRequests, output, lastToken>>
    <2>1. OtherCall
      BY <1>3 DEF OtherCall, DecodeAllLogprobs
    <2> QED
      BY <1>1, <1>3, <2>1, OwnTypesOf DEF PrefillsNothing, WorkerInv, OwnTypes, Unprefilled, Admitted
  <1>4. CASE Live = {} /\ UNCHANGED engineVars /\ TakeReply(NoReply)
    <2>1. OtherCall
      BY <1>4 DEF OtherCall
    <2> QED
      BY <1>1, <1>4, <2>1, ReplyTypes, ReplyTaken
  <1> QED
    BY <1>2, <1>3, <1>4 DEF DecodeLogprobs

LEMMA SampleTokensStep ==
    ASSUME WorkerInv, NEW stop \in SUBSET Requests, SampleTokens(stop)
    PROVE  PrefillsNothing
  <1>1. OwnTypes' /\ pc' = "idle"
    BY EnterType, OwnTypesOf DEF SampleTokens, WorkerInv, OwnTypes, PCs
  <1>2. OtherCall
    BY DEF SampleTokens, OtherCall
  <1>3. \A r \in Requests : status'[r] = "waiting" => status[r] = "waiting"
    BY OwnTypesOf DEF SampleTokens, WorkerInv, OwnTypes
  <1> QED
    BY <1>1, <1>2, <1>3 DEF PrefillsNothing, Unprefilled, Admitted

LEMMA ScheduleStep ==
    ASSUME WorkerInv, NEW new \in SUBSET Requests, Schedule(new)
    PROVE  PrefillsNothing
  <1>1. /\ tick' = NewTick(new) /\ tick'.todo = new /\ pc' = "prefill" /\ OwnTypes'
    BY OwnTypesOf DEF Schedule, NewTick, NewReqs, Running, Finished, WorkerInv, OwnTypes, PCs
  <1>2. OtherCall
    BY DEF Schedule, OtherCall
  <1>3. \A r \in Requests : Unprefilled(r)' => status[r] = "waiting"
    BY <1>1, OwnTypesOf DEF Schedule, Unprefilled, WorkerInv, OwnTypes
  <1>4. Admitted'
    BY <1>1, OwnTypesOf DEF Schedule, Admitted, WorkerInv, OwnTypes
  <1> QED
    BY <1>1, <1>2, <1>3, <1>4 DEF PrefillsNothing, Unprefilled

-----------------------------------------------------------------------------
(* The one call of the worker that makes a request known                   *)

LEMMA PrefillFirstStep ==
    ASSUME WorkerInv, ~hung, NEW r \in Requests, PrefillFirstOfGroup(r)
    PROVE  [Next]_engineVars /\ OwnTypes' /\ Admitted' /\ \A q \in Requests : Unprefilled(q)' => Fresh(q)'
  <1>1. WorkerTypeOK /\ TypeOK /\ OwnTypes /\ Unprefilled(r) /\ Fresh(r)
    BY OwnTypesOf DEF WorkerInv, PrefillFirstOfGroup, Unprefilled
  <1> PICK first \in {PrefillReply(r), Blank} : Prefill(r, first) /\ Deliver([q \in {r} |-> first])
    BY DEF PrefillFirstOfGroup
  <1>2. PrefillReq(r) \/ UNCHANGED engineVars
    BY DEF Prefill, PrefillVlm
  <1>3. [Next]_engineVars
    BY <1>1, <1>2 DEF Next
  <1>4. r \in Group(r)
    BY DEF PrefillFirstOfGroup, Group
  <1>5. /\ pc' = pc /\ pc = "prefill" /\ status' = status
        /\ tick' \in [new : SUBSET Requests, cached : SUBSET Requests,
                      finished : SUBSET Requests, todo : SUBSET Requests]
        /\ tick'.todo = tick.todo \ Group(r)
    BY <1>1, DidType DEF PrefillFirstOfGroup
  <1>6. activeRequests' \in [Requests -> Nat] /\ lastToken' \in [Requests -> Cell]
    <2>1. [q \in {r} |-> first] \in [{r} -> Cell]
      <3>1. first \in Cell
        BY TokenType, BlankType DEF PrefillReply
      <3> QED
        BY <3>1
    <2>2. {r} \in SUBSET Requests
      OBVIOUS
    <2> QED
      BY <1>1, <2>1, <2>2, DeliverType
  <1>7. OwnTypes' /\ Admitted'
    BY <1>1, <1>5, <1>6 DEF PrefillFirstOfGroup, OwnTypes, Admitted, WorkerInv
  <1>8. ASSUME NEW q \in Requests, Unprefilled(q)' PROVE Fresh(q)'
    <2>1. Unprefilled(q) /\ q # r
      BY <1>4, <1>5, <1>8 DEF Unprefilled, WorkerInv, Admitted, PrefillFirstOfGroup
    <2> QED
      BY <1>1, <1>2, <2>1 DEF WorkerInv, Fresh, PrefillReq, batchVars, engineVars, TypeOK
  <1> QED
    BY <1>3, <1>7, <1>8

-----------------------------------------------------------------------------
(* The invariant is inductive, and every step of the worker is one that    *)
(* the engine allows                                                       *)

LEMMA WorkerInitially == WorkerInit => WorkerInv
  <1> SUFFICES ASSUME WorkerInit PROVE WorkerInv
    OBVIOUS
  <1>1. Init /\ EngineInv
    BY InitInv DEF WorkerInit
  <1>2. TypeOK
    BY <1>1 DEF EngineInv
  <1>3. OwnTypes /\ Admitted
    BY TokenType DEF WorkerInit, OwnTypes, PCs, Admitted
  <1>4. \A r \in Requests : Fresh(r)
    BY <1>1 DEF Init, Fresh
  <1> QED
    BY <1>1, <1>2, <1>3, <1>4, OwnTypesOf DEF WorkerInv

LEMMA WorkerStep ==
    ASSUME WorkerInv, WorkerNext
    PROVE  PrefillsNothing \/ \E r \in Requests : PrefillFirstOfGroup(r)
  <1>1. ASSUME NEW new \in SUBSET Requests, Schedule(new) PROVE PrefillsNothing
    BY <1>1, ScheduleStep
  <1>2. ASSUME NEW stop \in SUBSET Requests, SampleTokens(stop) PROVE PrefillsNothing
    BY <1>2, SampleTokensStep
  <1>3. CASE ExecuteModel
    BY <1>3, PrefillUniformGroupStep, PrefillsDoneStep, RemoveFinishedStep, RemovesDoneStep,
       AddNewStep, AddsDoneStep, InitFirstTimeStep, DecodePlainStep, DecodeLogprobsStep,
       FinishOneStep, FinishesDoneStep
    DEF ExecuteModel
  <1> QED
    BY <1>1, <1>2, <1>3 DEF WorkerNext

LEMMA WorkerInductive ==
    ASSUME WorkerInv, [WorkerNext]_workerVars
    PROVE  WorkerInv' /\ [Next]_engineVars
  <1>1. CASE UNCHANGED workerVars
    <2>1. UNCHANGED engineVars /\ UNCHANGED workerOnly
      BY <1>1 DEF workerVars
    <2>2. EngineInv' /\ TypeOK'
      BY <2>1, NextInv DEF WorkerInv, EngineInv
    <2>3. OwnTypes' /\ Admitted'
      BY <2>1, OwnTypesOf DEF WorkerInv, workerOnly, OwnTypes, Admitted
    <2>4. \A q \in Requests : Unprefilled(q)' => Fresh(q)'
      BY <2>1 DEF WorkerInv, workerOnly, engineVars, Unprefilled, Fresh
    <2>5. WorkerTypeOK'
      BY <2>2, <2>3 DEF WorkerTypeOK, OwnTypes, PCs
    <2> QED
      BY <2>1, <2>2, <2>3, <2>4, <2>5 DEF WorkerInv
  <1>2. CASE WorkerNext
    <2>1. [Next]_engineVars /\ OwnTypes' /\ Admitted'
      BY <1>2, WorkerStep, PrefillFirstStep, OtherCallIsStep DEF WorkerNext, PrefillsNothing
    <2>2. EngineInv' /\ TypeOK'
      BY <2>1, NextInv DEF WorkerInv, EngineInv
    <2>3. \A q \in Requests : Unprefilled(q)' => Fresh(q)'
      BY <1>2, WorkerStep, PrefillFirstStep, FreshStays
      DEF WorkerNext, PrefillsNothing, WorkerInv
    <2>4. WorkerTypeOK'
      BY <2>1, <2>2 DEF WorkerTypeOK, OwnTypes, PCs
    <2> QED
      BY <2>1, <2>2, <2>3, <2>4 DEF WorkerInv
  <1> QED
    BY <1>1, <1>2

LEMMA WorkerInvariant == WorkerSpec => []WorkerInv
  BY WorkerInitially, WorkerInductive, PTL DEF WorkerSpec

\* The state of the worker, and of the engine it drives, is always well typed.
THEOREM WorkerTypeCorrect == WorkerSpec => []WorkerTypeOK
  <1>1. WorkerInv => WorkerTypeOK
    BY DEF WorkerInv
  <1> QED
    BY <1>1, WorkerInvariant, PTL

\* The worker never hands the engine a request id that still has a session or
\* a slot: every execute_model / sample_tokens behaviour is, for the engine, a
\* behaviour of the client of BatchEngine.
THEOREM ContractKept == WorkerSpec => KeepsEngineContract
  <1>1. WorkerInit => Init
    BY DEF WorkerInit
  <1> QED
    BY <1>1, WorkerInvariant, WorkerInductive, PTL DEF WorkerSpec, Spec, KeepsEngineContract

\* Hence, under the worker, the slots stay dense, each holds its own request's
\* cache, and a cache is in one place only.
THEOREM EngineSafeUnderWorker ==
    WorkerSpec => [](SlotsDense /\ SlotHoldsItsRequest /\ KVInOnePlace /\ ActiveMatches)
  <1>1. WorkerInv => SlotsDense /\ SlotHoldsItsRequest /\ KVInOnePlace /\ ActiveMatches
    BY DEF WorkerInv, EngineInv
  <1> QED
    BY <1>1, WorkerInvariant, PTL

-----------------------------------------------------------------------------
(* A request that is served keeps its KV cache, and one that was cleaned   *)
(* up leaves nothing behind                                                *)

HasKV(r) == session[r] # NoSession \/ batchSlots[r] # NoSlot

\* The calls that take no KV cache from q.
CallSparing(q) ==
    \/ \E r \in Requests \ {q} : FinishReq(r) \/ RemoveBatchSlot(r)
    \/ InitBatched /\ Batched = {}
    \/ \E r \in Requests : AddBatchSlot(r)
    \/ DecodeBatch
    \/ \E maxReqs \in 1 .. Cardinality(Requests), S \in SUBSET Requests :
            DecodeSemiBatched(maxReqs, S)
    \/ DecodeAllLogprobs
    \/ UNCHANGED engineVars

LEMMA KVStays ==
    ASSUME EngineInv, NEW q \in Requests, HasKV(q), CallSparing(q)
    PROVE  HasKV(q)'
  <1>1. TypeOK
    BY DEF EngineInv
  <1>2. ASSUME NEW r \in Requests \ {q}, FinishReq(r) PROVE HasKV(q)'
    BY <1>2 DEF FinishReq, SessionsWithout, batchVars, HasKV
  <1>3. ASSUME NEW r \in Requests \ {q}, RemoveBatchSlot(r) PROVE HasKV(q)'
    BY <1>3 DEF RemoveBatchSlot, SlotsWithout, HasKV
  <1>4. CASE InitBatched /\ Batched = {}
    <2>1. q \in Live
      BY <1>4 DEF HasKV, Live, Batched
    <2>2. PICK f \in SlotNumberings(Live) : batchSlots' = SlotsOf(Live, f)
      BY <1>4 DEF InitBatched
    <2>3. f[q] \in 0 .. Cardinality(Live) - 1
      BY <2>1, <2>2 DEF SlotNumberings
    <2> QED
      BY <2>1, <2>2, <2>3, Sizes DEF SlotsOf, NoSlot, HasKV
  <1>5. ASSUME NEW r \in Requests, AddBatchSlot(r) PROVE HasKV(q)'
    <2>1. NextSlot # NoSlot
      BY Sizes DEF NextSlot, NoSlot
    <2> QED
      BY <1>1, <1>5, <2>1 DEF AddBatchSlot, SessionsWithout, HasKV, TypeOK
  <1>6. CASE DecodeBatch
    BY <1>6 DEF DecodeBatch, HasKV
  <1>7. ASSUME NEW maxReqs, NEW S \in SUBSET Requests, DecodeSemiBatched(maxReqs, S)
        PROVE  HasKV(q)'
    BY <1>1, <1>7 DEF DecodeSemiBatched, SessionsAfter, batchVars, HasKV, NoSession, TypeOK
  <1>8. CASE DecodeAllLogprobs
    BY <1>8 DEF DecodeAllLogprobs, DecodeLogprobsBatch, DecodeLogprobsFallback, batchVars, HasKV
  <1>9. CASE UNCHANGED engineVars
    BY <1>9 DEF engineVars, HasKV
  <1> QED
    BY <1>2, <1>3, <1>4, <1>5, <1>6, <1>7, <1>8, <1>9 DEF CallSparing

\* Only a prefill makes a session.
LEMMA GoneStays ==
    ASSUME EngineInv, OtherCall, NEW q \in Requests, session[q] = NoSession
    PROVE  session'[q] = NoSession
  <1>1. ASSUME NEW r \in Requests, FinishReq(r) \/ AddBatchSlot(r) PROVE session'[q] = NoSession
    BY <1>1 DEF FinishReq, AddBatchSlot, SessionsWithout
  <1>2. CASE InitBatched
    BY <1>2 DEF InitBatched, SessionsWithout
  <1>3. ASSUME NEW r \in Requests, RemoveBatchSlot(r) PROVE session'[q] = NoSession
    BY <1>3 DEF RemoveBatchSlot
  <1>4. CASE DecodeBatch \/ DecodeAllLogprobs \/ UNCHANGED engineVars
    BY <1>4 DEF DecodeBatch, DecodeAllLogprobs, DecodeLogprobsBatch, DecodeLogprobsFallback, engineVars
  <1>5. ASSUME NEW maxReqs, NEW S \in SUBSET Requests, DecodeSemiBatched(maxReqs, S)
        PROVE  session'[q] = NoSession
    BY <1>5 DEF DecodeSemiBatched, SessionsAfter, Live
  <1> QED
    BY <1>1, <1>2, <1>3, <1>4, <1>5 DEF OtherCall

\* Before init_batched has run there is no slot, and nothing to add.
NoBatchYet == ~batchedInitialized => Batched = {} /\ (pc = "add" => tick.todo = {})

\* A tick finishes requests that are done, and decodes running ones.
TickInv ==
    /\ \A r \in tick.finished : status[r] = "done"
    /\ pc \in {"remove", "finish"} => tick.todo \subseteq tick.finished
    /\ pc \in {"prefill", "remove", "add", "decode"} => \A r \in tick.cached : status[r] = "running"
    /\ pc = "prefill" => \A r \in tick.todo : status[r] = "running"

Clean(r) == session[r] = NoSession /\ activeRequests[r] = 0

\* The clean-up of r is still to come in this tick.
Due(r) ==
    /\ r \in tick.finished
    /\ pc \notin {"idle", "sample"}
    /\ pc = "finish" => r \in tick.todo

\* What is kept for requests that are served, waiting or done.
Served(r) == activeRequests[r] > 0 /\ status[r] = "running" /\ lastToken[r] # Blank => HasKV(r)
Released(r) ==
    /\ Unprefilled(r) => activeRequests[r] = 0
    /\ status[r] = "done" => Clean(r) \/ Due(r)

KeepInv ==
    /\ WorkerInv
    /\ NoBatchYet
    /\ TickInv
    /\ \A r \in Requests : Served(r) /\ Released(r)

LEMMA KeepInitially == WorkerInit => NoBatchYet /\ TickInv /\ \A r \in Requests : Served(r) /\ Released(r)
  BY DEF WorkerInit, Init, Batched, NoBatchYet, TickInv, Served, Released

\* What the steps below establish.
Kept == NoBatchYet' /\ TickInv' /\ \A r \in Requests : (Served(r) /\ Released(r))'

\* A step that counts no token and changes no status.
LEMMA QuietStep ==
    ASSUME KeepInv, UNCHANGED <<activeRequests, status, lastToken>>, OtherCall,
           \A q \in Requests : status[q] = "running" => CallSparing(q),
           \A q \in Requests : Unprefilled(q)' => Unprefilled(q),
           \A q \in Requests : Due(q) => Due(q)'
    PROVE  \A q \in Requests : (Served(q) /\ Released(q))'
  <1> SUFFICES ASSUME NEW q \in Requests PROVE Served(q)' /\ Released(q)'
    OBVIOUS
  <1>1. EngineInv /\ Served(q) /\ Released(q)
    BY DEF KeepInv, WorkerInv
  <1>2. Served(q)'
    BY <1>1, KVStays DEF Served
  <1>3. Clean(q) => Clean(q)'
    BY <1>1, GoneStays DEF Clean
  <1>4. Released(q)'
    BY <1>1, <1>3 DEF Released
  <1> QED
    BY <1>2, <1>4

LEMMA PrefillUniformGroupKeeps ==
    ASSUME KeepInv, NEW r \in Requests, PrefillUniformGroup(r)
    PROVE  Kept
  <1>1. OtherCall /\ \A q \in Requests : CallSparing(q)
    BY DEF PrefillUniformGroup, OtherCall, CallSparing
  <1>2. \A q \in Requests : (Served(q) /\ Released(q))'
    BY <1>1, QuietStep DEF PrefillUniformGroup, Unprefilled, Due
  <1> QED
    BY <1>2 DEF Kept, KeepInv, PrefillUniformGroup, NoBatchYet, TickInv, Batched, engineVars

\* One loop ends and the next one begins.
LEMMA LoopEndKeeps ==
    ASSUME KeepInv, NEW loop \in PCs \ {"prefill"}, NEW S \in SUBSET Requests, Enter(loop, S),
           UNCHANGED <<engineVars, batchedInitialized, activeRequests, output, status, lastToken>>,
           loop \in {"remove", "finish"} => S \subseteq tick.finished,
           loop = "add" /\ ~batchedInitialized => S = {},
           loop \in {"remove", "add", "decode"} => pc \in {"prefill", "remove", "add", "decode"},
           \A q \in Requests : Due(q) => /\ loop \notin {"idle", "sample"}
                                         /\ loop = "finish" => q \in S
    PROVE  Kept
  <1>1. OtherCall /\ \A q \in Requests : CallSparing(q)
    BY DEF OtherCall, CallSparing
  <1>2. /\ pc' = loop /\ tick'.todo = S
        /\ tick'.finished = tick.finished /\ tick'.cached = tick.cached
    BY DEF Enter, KeepInv, WorkerInv, WorkerTypeOK
  <1>3. \A q \in Requests : Unprefilled(q)' => Unprefilled(q)
    BY <1>2 DEF Unprefilled
  <1>4. \A q \in Requests : Due(q) => Due(q)'
    BY <1>2 DEF Due
  <1>5. \A q \in Requests : (Served(q) /\ Released(q))'
    BY <1>1, <1>3, <1>4, QuietStep
  <1>6. TickInv'
    BY <1>2 DEF KeepInv, TickInv
  <1>7. NoBatchYet'
    BY <1>2 DEF KeepInv, NoBatchYet, Batched, engineVars
  <1> QED
    BY <1>5, <1>6, <1>7 DEF Kept

LEMMA PrefillsDoneKeeps == ASSUME KeepInv, PrefillsDone PROVE Kept
  <1>1. (IF batchedInitialized THEN tick.finished ELSE {}) \in SUBSET Requests
    BY DEF KeepInv, WorkerInv, WorkerTypeOK
  <1> QED
    BY <1>1, LoopEndKeeps DEF PrefillsDone, PCs

LEMMA RemovesDoneKeeps == ASSUME KeepInv, RemovesDone PROVE Kept
  <1>1. (IF batchedInitialized THEN tick.new ELSE {}) \in SUBSET Requests
    BY DEF KeepInv, WorkerInv, WorkerTypeOK
  <1> QED
    BY <1>1, LoopEndKeeps DEF RemovesDone, PCs

LEMMA AddsDoneKeeps == ASSUME KeepInv, AddsDone PROVE Kept
  <1>1. tick.finished \in SUBSET Requests
    BY DEF KeepInv, WorkerInv, WorkerTypeOK
  <1>2. CASE tick.cached = {}
    BY <1>1, <1>2, LoopEndKeeps DEF AddsDone, PCs, Due
  <1>3. CASE tick.cached # {}
    BY <1>3, LoopEndKeeps DEF AddsDone, PCs, Due
  <1> QED
    BY <1>2, <1>3

LEMMA FinishesDoneKeeps == ASSUME KeepInv, FinishesDone PROVE Kept
  BY LoopEndKeeps DEF FinishesDone, PCs, Due

\* One round of the loops over the finished and over the new requests.
LEMMA RemoveFinishedKeeps ==
    ASSUME KeepInv, NEW r \in Requests, RemoveFinished(r)
    PROVE  Kept
  <1>1. /\ pc = "remove" /\ pc' = "remove" /\ r \in tick.todo /\ status[r] = "done"
        /\ tick'.todo = tick.todo \ {r}
        /\ tick'.finished = tick.finished /\ tick'.cached = tick.cached
    BY DEF RemoveFinished, Did, KeepInv, TickInv, WorkerInv, WorkerTypeOK
  <1>2. OtherCall /\ \A q \in Requests : status[q] = "running" => CallSparing(q)
    BY <1>1 DEF RemoveFinished, OtherCall, CallSparing
  <1>3. \A q \in Requests : (Served(q) /\ Released(q))'
    BY <1>1, <1>2, QuietStep DEF RemoveFinished, Unprefilled, Due
  <1>4. TickInv'
    BY <1>1 DEF RemoveFinished, KeepInv, TickInv
  <1>5. NoBatchYet'
    BY <1>1 DEF RemoveFinished, KeepInv, NoBatchYet, Batched, engineVars
  <1> QED
    BY <1>3, <1>4, <1>5 DEF Kept

LEMMA AddNewKeeps ==
    ASSUME KeepInv, NEW r \in Requests, AddNew(r)
    PROVE  Kept
  <1>1. /\ pc = "add" /\ pc' = "add" /\ batchedInitialized /\ batchedInitialized'
        /\ tick'.finished = tick.finished /\ tick'.cached = tick.cached
    BY DEF AddNew, Did, KeepInv, NoBatchYet, WorkerInv, WorkerTypeOK
  <1>2. OtherCall /\ \A q \in Requests : CallSparing(q)
    BY DEF AddNew, OtherCall, CallSparing
  <1>3. \A q \in Requests : (Served(q) /\ Released(q))'
    BY <1>1, <1>2, QuietStep DEF AddNew, Unprefilled, Due
  <1>4. TickInv'
    BY <1>1 DEF AddNew, KeepInv, TickInv
  <1> QED
    BY <1>1, <1>3, <1>4 DEF Kept, NoBatchYet

LEMMA FinishOneKeeps ==
    ASSUME KeepInv, NEW r \in Requests, FinishOne(r)
    PROVE  Kept
  <1>1. /\ pc = "finish" /\ pc' = "finish" /\ r \in tick.todo /\ status[r] = "done"
        /\ tick'.todo = tick.todo \ {r} /\ status' = status
        /\ tick'.finished = tick.finished /\ tick'.cached = tick.cached
    BY DEF FinishOne, Did, KeepInv, TickInv, WorkerInv, WorkerTypeOK
  <1>2. /\ activeRequests'[r] = 0
        /\ \A q \in Requests \ {r} : activeRequests'[q] = activeRequests[q]
    BY DEF FinishOne, KeepInv, WorkerInv, WorkerTypeOK
  <1>3. OtherCall /\ \A q \in Requests \ {r} : CallSparing(q)
    BY DEF FinishOne, OtherCall, CallSparing
  <1>4. session'[r] = NoSession
    BY DEF FinishOne, FinishReq, SessionsWithout
  <1>5. ASSUME NEW q \in Requests PROVE Served(q)' /\ Released(q)'
    <2>1. CASE q = r
      BY <1>1, <1>2, <1>4, <2>1 DEF Served, Released, Clean, Unprefilled
    <2>2. CASE q # r
      <3>1. EngineInv /\ Served(q) /\ Released(q) /\ activeRequests'[q] = activeRequests[q]
        BY <1>2, <2>2 DEF KeepInv, WorkerInv
      <3>2. Served(q)'
        BY <1>1, <1>3, <2>2, <3>1, KVStays DEF Served, FinishOne
      <3>3. Clean(q) => Clean(q)'
        BY <1>3, <3>1, GoneStays DEF Clean
      <3>4. Due(q) => Due(q)'
        BY <1>1, <2>2 DEF Due
      <3>5. Released(q)'
        BY <1>1, <3>1, <3>3, <3>4 DEF Released, Unprefilled
      <3> QED
        BY <3>2, <3>5
    <2> QED
      BY <2>1, <2>2
  <1>6. TickInv'
    BY <1>1 DEF KeepInv, TickInv
  <1>7. NoBatchYet'
    BY <1>1 DEF FinishOne, FinishReq, batchVars, KeepInv, NoBatchYet, Batched
  <1> QED
    BY <1>5, <1>6, <1>7 DEF Kept

\* The first init_batched comes when there is no batch, so it drops no slot.
LEMMA InitFirstTimeKeeps == ASSUME KeepInv, InitFirstTime PROVE Kept
  <1>1. OtherCall /\ \A q \in Requests : CallSparing(q)
    BY DEF InitFirstTime, OtherCall, CallSparing, KeepInv, NoBatchYet
  <1>2. \A q \in Requests : (Served(q) /\ Released(q))'
    BY <1>1, QuietStep DEF InitFirstTime, Unprefilled, Due
  <1> QED
    BY <1>2 DEF Kept, InitFirstTime, KeepInv, TickInv, NoBatchYet

-----------------------------------------------------------------------------
(* The steps that count a token                                            *)

LEMMA ReplyKeeps ==
    ASSUME KeepInv, pc = "decode", batchedInitialized, OtherCall,
           UNCHANGED <<batchedInitialized, status>>,
           \A q \in Requests : CallSparing(q),
           NEW S \in SUBSET Requests, NEW reply \in [S -> Cell],
           \A q \in S : HasKV(q), TakeReply(reply)
    PROVE  Kept
  <1> DEFINE mine == [r \in tick.cached \cap DOMAIN reply |-> reply[r]]
  <1>1. /\ tick'.finished = tick.finished /\ tick'.cached = tick.cached
        /\ \/ pc' = "index_error" /\ UNCHANGED <<tick, activeRequests, lastToken>>
           \/ pc' = "finish" /\ tick'.todo = tick.finished /\ Deliver(mine)
    BY DEF TakeReply, Enter, KeepInv, WorkerInv, WorkerTypeOK
  <1>2. DOMAIN mine \subseteq S /\ DOMAIN mine \subseteq tick.cached
    OBVIOUS
  <1> HIDE DEF mine
  <1>3. \A q \in Requests \ DOMAIN mine :
            activeRequests'[q] = activeRequests[q] /\ lastToken'[q] = lastToken[q]
    BY <1>1 DEF Deliver
  <1>4. ASSUME NEW q \in Requests PROVE Served(q)' /\ Released(q)'
    <2>1. EngineInv /\ Served(q) /\ Released(q) /\ status'[q] = status[q]
      BY DEF KeepInv, WorkerInv
    <2>2. HasKV(q) => HasKV(q)'
      BY <2>1, KVStays
    <2>3. CASE q \in DOMAIN mine
      <3>1. HasKV(q)' /\ status[q] = "running"
        BY <1>2, <2>2, <2>3 DEF KeepInv, TickInv
      <3> QED
        BY <1>1, <2>1, <3>1 DEF Served, Released, Unprefilled
    <2>4. CASE q \notin DOMAIN mine
      <3>1. Clean(q) => Clean(q)'
        BY <1>3, <2>1, <2>4, GoneStays DEF Clean
      <3>2. Due(q) => Due(q)'
        BY <1>1 DEF Due
      <3> QED
        BY <1>1, <1>3, <2>1, <2>2, <2>4, <3>1, <3>2 DEF Served, Released, Unprefilled
    <2> QED
      BY <2>3, <2>4
  <1>5. TickInv'
    BY <1>1 DEF KeepInv, TickInv
  <1> QED
    BY <1>4, <1>5 DEF Kept, NoBatchYet

LEMMA DecodePlainKeeps == ASSUME KeepInv, DecodePlain PROVE Kept
  <1>1. TypeOK /\ pc = "decode" /\ batchedInitialized /\ UNCHANGED <<batchedInitialized, status>>
    BY DEF KeepInv, WorkerInv, WorkerTypeOK, DecodePlain
  <1>2. CASE DecodeBatch /\ TakeReply(BatchReply)
    <2>1. OtherCall /\ \A q \in Requests : CallSparing(q)
      BY <1>2 DEF OtherCall, CallSparing
    <2>2. Batched \in SUBSET Requests /\ \A q \in Batched : HasKV(q)
      BY DEF Batched, HasKV
    <2> QED
      BY <1>1, <1>2, <2>1, <2>2, ReplyTypes, ReplyKeeps
  <1>3. ASSUME NEW S \in SUBSET Live, DecodeSemiBatched(Cardinality(tick.cached), S),
               TakeReply(SemiReply(S))
        PROVE  Kept
    <2>1. S \in SUBSET Requests /\ \A q \in S : HasKV(q)
      BY DEF Live, HasKV
    <2>2. Cardinality(tick.cached) \in 1 .. Cardinality(Requests)
      BY <1>3, CachedSize DEF KeepInv
    <2>3. OtherCall /\ \A q \in Requests : CallSparing(q)
      BY <1>3, <2>1, <2>2 DEF OtherCall, CallSparing
    <2> QED
      BY <1>1, <1>3, <2>1, <2>3, ReplyTypes, ReplyKeeps
  <1>4. CASE NothingToDecode /\ UNCHANGED engineVars /\ TakeReply(NoReply)
    <2>1. OtherCall /\ \A q \in Requests : CallSparing(q)
      BY <1>4 DEF OtherCall, CallSparing
    <2> QED
      BY <1>1, <1>4, <2>1, ReplyTypes, ReplyKeeps
  <1> QED
    BY <1>2, <1>3, <1>4 DEF DecodePlain

LEMMA DecodeLogprobsKeeps == ASSUME KeepInv, DecodeLogprobs PROVE Kept
  <1>1. TypeOK /\ pc = "decode" /\ batchedInitialized /\ UNCHANGED <<batchedInitialized, status>>
    BY DEF KeepInv, WorkerInv, WorkerTypeOK, DecodeLogprobs
  <1>2. CASE DecodeLogprobsBatch /\ TakeReply(LogprobsReply)
    <2>1. OtherCall /\ \A q \in Requests : CallSparing(q)
      BY <1>2 DEF OtherCall, CallSparing, DecodeAllLogprobs
    <2>2. Batched \in SUBSET Requests /\ \A q \in Batched : HasKV(q)
      BY DEF Batched, HasKV
    <2> QED
      BY <1>1, <1>2, <2>1, <2>2, ReplyTypes, ReplyKeeps
  <1>3. CASE /\ DecodeLogprobsFallback
             /\ UNCHANGED <<pc, tick, activeRequests, output, lastToken>>
    <2>1. OtherCall /\ \A q \in Requests : CallSparing(q)
      BY <1>3 DEF OtherCall, CallSparing, DecodeAllLogprobs
    <2>2. \A q \in Requests : (Served(q) /\ Released(q))'
      BY <1>1, <1>3, <2>1, QuietStep DEF Unprefilled, Due
    <2> QED
      BY <1>1, <1>3, <2>2 DEF Kept, KeepInv, TickInv, NoBatchYet
  <1>4. CASE Live = {} /\ UNCHANGED engineVars /\ TakeReply(NoReply)
    <2>1. OtherCall /\ \A q \in Requests : CallSparing(q)
      BY <1>4 DEF OtherCall, CallSparing
    <2> QED
      BY <1>1, <1>4, <2>1, ReplyTypes, ReplyKeeps
  <1> QED
    BY <1>2, <1>3, <1>4 DEF DecodeLogprobs

\* A prefill makes a session for its request, or gives it no token at all.
LEMMA PrefillFirstKeeps ==
    ASSUME KeepInv, NEW r \in Requests, PrefillFirstOfGroup(r)
    PROVE  Kept
  <1> PICK first \in {PrefillReply(r), Blank} : Prefill(r, first) /\ Deliver([q \in {r} |-> first])
    BY DEF PrefillFirstOfGroup
  <1>1. /\ pc = "prefill" /\ pc' = "prefill" /\ status' = status /\ status[r] = "running"
        /\ tick'.todo = tick.todo \ Group(r) /\ r \in Group(r)
        /\ tick'.finished = tick.finished /\ tick'.cached = tick.cached
    BY DEF PrefillFirstOfGroup, Did, Group, KeepInv, TickInv, WorkerInv, WorkerTypeOK
  <1>2. /\ lastToken'[r] = first
        /\ \A q \in Requests \ {r} : /\ activeRequests'[q] = activeRequests[q]
                                     /\ lastToken'[q] = lastToken[q]
    BY DEF Deliver
  <1>3. PrefillReq(r) \/ (first = Blank /\ UNCHANGED engineVars)
    BY DEF Prefill, PrefillVlm
  <1>4. /\ batchSlots' = batchSlots
        /\ \A q \in Requests \ {r} : session'[q] = session[q]
        /\ first = Blank \/ session'[r] # NoSession
    BY <1>3 DEF PrefillReq, batchVars, engineVars, NoSession, KeepInv, WorkerInv, WorkerTypeOK, TypeOK
  <1>5. ASSUME NEW q \in Requests PROVE Served(q)' /\ Released(q)'
    <2>1. CASE q = r
      BY <1>1, <1>2, <1>4, <2>1 DEF Served, Released, HasKV, Unprefilled
    <2>2. CASE q # r
      BY <1>1, <1>2, <1>4, <2>2
      DEF KeepInv, Served, Released, HasKV, Clean, Due, Unprefilled
    <2> QED
      BY <2>1, <2>2
  <1>6. TickInv'
    BY <1>1 DEF KeepInv, TickInv
  <1>7. NoBatchYet'
    BY <1>1, <1>4 DEF PrefillFirstOfGroup, KeepInv, NoBatchYet, Batched
  <1> QED
    BY <1>5, <1>6, <1>7 DEF Kept

LEMMA ScheduleKeeps ==
    ASSUME KeepInv, NEW new \in SUBSET Requests, Schedule(new)
    PROVE  Kept
  <1>1. /\ tick'.todo = new /\ tick'.cached = Running /\ tick'.finished = Finished
        /\ pc = "idle" /\ pc' = "prefill" /\ \A q \in new : status[q] = "waiting"
    BY DEF Schedule, NewTick, NewReqs
  <1>2. \A q \in Requests : status'[q] = IF q \in new THEN "running"
                                       ELSE IF q \in Finished THEN "done" ELSE status[q]
    BY DEF Schedule
  <1>3. UNCHANGED <<session, batchSlots, batchedInitialized, activeRequests, lastToken>>
    BY DEF Schedule, engineVars
  <1>4. ASSUME NEW q \in Requests PROVE Served(q)' /\ Released(q)'
    <2>1. Served(q) /\ Released(q)
      BY DEF KeepInv
    <2>2. Served(q)'
      BY <1>1, <1>2, <1>3, <2>1 DEF Served, Released, HasKV, Unprefilled
    <2>3. Unprefilled(q)' => activeRequests'[q] = 0
      BY <1>1, <1>2, <1>3, <2>1 DEF Released, Unprefilled
    <2>4. status'[q] = "done" => Clean(q)' \/ Due(q)'
      BY <1>1, <1>2, <1>3, <2>1 DEF Released, Clean, Due
    <2> QED
      BY <2>2, <2>3, <2>4 DEF Released
  <1>5. TickInv'
    BY <1>1, <1>2 DEF TickInv, Running, Finished
  <1> QED
    BY <1>1, <1>3, <1>4, <1>5 DEF Kept, KeepInv, NoBatchYet, Batched

\* A request that is stopped has a token, so it was not cleaned up before.
LEMMA SampleTokensKeeps ==
    ASSUME KeepInv, NEW stop \in SUBSET Requests, SampleTokens(stop)
    PROVE  Kept
  <1>1. /\ pc = "sample" /\ pc' = "idle" /\ tick'.finished = tick.finished
        /\ \A q \in stop : activeRequests[q] > 0
    BY DEF SampleTokens, Enter, KeepInv, WorkerInv, WorkerTypeOK
  <1>2. \A q \in Requests : status'[q] = IF q \in stop THEN "finished" ELSE status[q]
    BY DEF SampleTokens
  <1>3. UNCHANGED <<session, batchSlots, batchedInitialized, activeRequests, lastToken>>
    BY DEF SampleTokens, engineVars
  <1>4. ASSUME NEW q \in stop PROVE status[q] # "done"
    BY <1>1, <1>4 DEF KeepInv, Released, Clean, Due
  <1>5. \A q \in Requests : (Served(q) /\ Released(q))'
    BY <1>1, <1>2, <1>3 DEF KeepInv, Served, Released, HasKV, Clean, Due, Unprefilled
  <1>6. TickInv'
    BY <1>1, <1>2, <1>4 DEF KeepInv, TickInv, WorkerInv, WorkerTypeOK
  <1> QED
    BY <1>1, <1>3, <1>5, <1>6 DEF Kept, KeepInv, NoBatchYet, Batched

-----------------------------------------------------------------------------

LEMMA KeepStep == ASSUME KeepInv, WorkerNext PROVE Kept
  <1>1. CASE ExecuteModel
    BY <1>1, PrefillUniformGroupKeeps, PrefillFirstKeeps, PrefillsDoneKeeps, RemoveFinishedKeeps,
       RemovesDoneKeeps, AddNewKeeps, AddsDoneKeeps, InitFirstTimeKeeps, DecodePlainKeeps,
       DecodeLogprobsKeeps, FinishOneKeeps, FinishesDoneKeeps
    DEF ExecuteModel
  <1> QED
    BY <1>1, ScheduleKeeps, SampleTokensKeeps DEF WorkerNext

LEMMA KeepInductive == ASSUME KeepInv, [WorkerNext]_workerVars PROVE KeepInv'
  <1>1. WorkerInv'
    BY WorkerInductive DEF KeepInv
  <1>2. CASE WorkerNext
    BY <1>1, <1>2, KeepStep DEF Kept, KeepInv
  <1>3. CASE UNCHANGED workerVars
    <2>1. UNCHANGED engineVars /\ UNCHANGED workerOnly
      BY <1>3 DEF workerVars
    <2> QED
      BY <1>1, <2>1 DEF workerOnly, engineVars, KeepInv, NoBatchYet, TickInv, Served, Released,
         HasKV, Clean, Due, Unprefilled, Batched
  <1> QED
    BY <1>2, <1>3

LEMMA KeepInvariant == WorkerSpec => []KeepInv
  <1>1. WorkerInit => KeepInv
    BY WorkerInitially, KeepInitially DEF KeepInv
  <1> QED
    BY <1>1, KeepInductive, PTL DEF WorkerSpec

\* No request the worker serves loses its KV cache, whatever is prefilled,
\* added, removed or cleaned up for the others, and whichever of their prefills
\* fail: the first init_batched finds no slot to drop, and no removal or
\* clean-up names a request that still runs.
THEOREM KVKeptWhileServed == WorkerSpec => []ServedHasKV
  <1>1. KeepInv => ServedHasKV
    BY DEF KeepInv, Served, ServedHasKV, Failed, HasKV, Live, Batched
  <1> QED
    BY <1>1, KeepInvariant, PTL

\* Between ticks the engine session and the worker's entry of every request that
\* has not started, or was reported finished, are gone: the clean-up loop
\* reaches every id of finished_req_ids before the tick ends.
THEOREM NothingLeaks == WorkerSpec => []NoSessionLeak
  <1>1. ASSUME KeepInv, pc = "idle", NEW r \in Requests, status[r] \in {"waiting", "done"}
        PROVE  session[r] = NoSession /\ activeRequests[r] = 0
    <2>1. Released(r) /\ ~Due(r) /\ (Unprefilled(r) => Fresh(r))
      BY <1>1 DEF KeepInv, WorkerInv, Due
    <2> QED
      BY <1>1, <2>1 DEF Released, Clean, Unprefilled, Fresh
  <1>2. KeepInv => NoSessionLeak
    BY <1>1 DEF NoSessionLeak
  <1> QED
    BY <1>2, KeepInvariant, PTL

-----------------------------------------------------------------------------
(* Once there is a batch, it has a slot for every request that runs         *)

\* The engine may have, and memory pays for, as many slots as requests may run.
Enough == MaxRunning <= MaxConcurrent /\ MaxRunning <= BudgetBatch

RowsPaid == maxBatch > 0 => batchedInitialized /\ (Enough => MaxRunning <= maxBatch)

\* A tick is about the requests that run, new or cached.
TickShape ==
    /\ Cardinality(Running) <= MaxRunning
    /\ pc # "idle" => Running = tick.new \cup tick.cached /\ Finished = {}
    /\ pc \in {"prefill", "add"} => tick.todo \subseteq tick.new

\* The slots of requests that are gone which this tick will not free.
Strays ==
    IF pc = "prefill" THEN Zombies \ tick.finished
    ELSE IF pc = "remove" THEN Zombies \ tick.todo
    ELSE Zombies

\* The requests that run outside the batch in each loop.
Unseated ==
    IF pc \in {"prefill", "remove"} THEN tick.new
    ELSE IF pc = "add" THEN tick.todo
    ELSE {}

Seated ==
    Enough /\ maxBatch > 0 /\ Strays = {} /\ pc \notin {"attribute_error", "index_error"}
        => Live \cap Running \subseteq Unseated

SeatInv ==
    /\ KeepInv
    /\ RowsPaid
    /\ TickShape
    /\ Seated

\* What the steps below establish.
Seats == (RowsPaid /\ TickShape /\ Seated)'

LEMMA SeatTypes ==
    ASSUME SeatInv
    PROVE  /\ WorkerTypeOK /\ TypeOK /\ EngineInv /\ maxBatch \in Nat /\ MaxRunning \in Nat \ {0}
           /\ Running \in SUBSET Requests
           /\ tick \in [new : SUBSET Requests, cached : SUBSET Requests,
                        finished : SUBSET Requests, todo : SUBSET Requests]
  BY WorkerAssumption, EngineAssumption DEF SeatInv, KeepInv, WorkerInv, WorkerTypeOK, TypeOK, Running

LEMMA SeatInitially == WorkerInit => RowsPaid /\ TickShape /\ Seated
  <1> SUFFICES ASSUME WorkerInit PROVE RowsPaid /\ TickShape /\ Seated
    OBVIOUS
  <1>1. Running = {} /\ maxBatch = 0 /\ pc = "idle"
    BY DEF WorkerInit, Init, Running
  <1>2. Cardinality(Running) <= MaxRunning
    BY <1>1, FS_EmptySet, WorkerAssumption
  <1> QED
    BY <1>1, <1>2 DEF RowsPaid, TickShape, Seated

\* A step that changes no status, no slot and adds no session to a running request.
LEMMA SeatsStay ==
    ASSUME SeatInv, UNCHANGED <<status, batchSlots, maxBatch>>,
           batchedInitialized => batchedInitialized',
           \A q \in Running : session[q] = NoSession => session'[q] = NoSession,
           tick'.new = tick.new, tick'.cached = tick.cached,
           pc \notin {"idle", "attribute_error", "index_error"},
           pc' \in {"attribute_error", "index_error"} \/ (Strays \subseteq Strays' /\ Unseated \subseteq Unseated'),
           pc' \in {"prefill", "add"} => tick'.todo \subseteq tick.new
    PROVE  Seats
  <1>1. Running' = Running /\ Finished' = Finished
    BY DEF Running, Finished
  <1>2. Live' \cap Running \subseteq Live \cap Running
    BY SeatTypes DEF Live
  <1>3. RowsPaid'
    BY DEF SeatInv, RowsPaid
  <1>4. TickShape'
    BY <1>1 DEF SeatInv, TickShape
  <1>5. Seated'
    BY <1>1, <1>2 DEF SeatInv, Seated
  <1> QED
    BY <1>3, <1>4, <1>5 DEF Seats

LEMMA PrefillUniformGroupSeats ==
    ASSUME SeatInv, NEW r \in Requests, PrefillUniformGroup(r)
    PROVE  Seats
  BY SeatsStay DEF PrefillUniformGroup, engineVars

LEMMA PrefillFirstSeats ==
    ASSUME SeatInv, NEW r \in Requests, PrefillFirstOfGroup(r)
    PROVE  Seats
  <1>1. /\ pc = "prefill" /\ pc' = "prefill" /\ r \in tick.new /\ tick'.todo \subseteq tick.todo
        /\ tick'.new = tick.new /\ tick'.cached = tick.cached /\ tick'.finished = tick.finished
        /\ UNCHANGED <<status, batchedInitialized>>
    BY SeatTypes DEF PrefillFirstOfGroup, Did, SeatInv, TickShape
  <1>2. PrefillReq(r) \/ UNCHANGED engineVars
    BY DEF PrefillFirstOfGroup, Prefill, PrefillVlm
  <1>3. /\ UNCHANGED <<batchSlots, maxBatch>>
        /\ \A q \in Requests \ {r} : session'[q] = session[q]
    BY <1>2, SeatTypes DEF PrefillReq, batchVars, engineVars, TypeOK
  <1>4. Running' = Running /\ Finished' = Finished /\ Live' \subseteq Live \cup {r}
    BY <1>1, <1>3 DEF Running, Finished, Live
  <1>5. Strays' = Strays /\ Unseated' = Unseated
    BY <1>1, <1>3 DEF Strays, Unseated, Zombies, Batched
  <1>6. RowsPaid' /\ TickShape'
    BY <1>1, <1>3, <1>4 DEF SeatInv, RowsPaid, TickShape
  <1>7. Seated'
    BY <1>1, <1>3, <1>4, <1>5 DEF SeatInv, Seated, Unseated
  <1> QED
    BY <1>6, <1>7 DEF Seats

LEMMA PrefillsDoneSeats == ASSUME SeatInv, PrefillsDone PROVE Seats
  <1>1. /\ pc = "prefill" /\ pc' = "remove"
        /\ tick'.new = tick.new /\ tick'.cached = tick.cached /\ tick'.finished = tick.finished
        /\ tick'.todo = IF batchedInitialized THEN tick.finished ELSE {}
        /\ UNCHANGED <<engineVars, batchedInitialized, status>>
    BY SeatTypes DEF PrefillsDone, Enter
  <1>2. UNCHANGED <<session, batchSlots, maxBatch>>
    BY <1>1 DEF engineVars
  <1>3. Zombies' = Zombies /\ (~batchedInitialized => Zombies = {})
    BY <1>1, <1>2 DEF Zombies, Batched, SeatInv, KeepInv, NoBatchYet
  <1>4. Strays \subseteq Strays' /\ Unseated \subseteq Unseated'
    BY <1>1, <1>3 DEF Strays, Unseated
  <1> QED
    BY <1>1, <1>2, <1>4, SeatsStay

LEMMA RemoveFinishedSeats ==
    ASSUME SeatInv, NEW r \in Requests, RemoveFinished(r)
    PROVE  Seats
  <1>1. /\ pc = "remove" /\ pc' = "remove" /\ r \in tick.todo /\ tick'.todo = tick.todo \ {r}
        /\ tick'.new = tick.new /\ tick'.cached = tick.cached
        /\ UNCHANGED <<status, batchedInitialized>>
    BY SeatTypes DEF RemoveFinished, Did
  <1>2. UNCHANGED <<session, maxBatch>>
    BY DEF RemoveFinished, RemoveBatchSlot, engineVars
  <1>3. \A q \in Requests : q # r => (batchSlots[q] = NoSlot <=> batchSlots'[q] = NoSlot)
    <2>1. CASE batchSlots[r] # NoSlot
      <3>1. r \in Batched /\ batchSlots[r] \in 0 .. BatchSize - 1
        BY <2>1, SeatTypes DEF Batched, EngineInv, SlotsDense, Occupied
      <3>2. BatchSize - 1 # NoSlot
        BY <3>1, Sizes DEF NoSlot
      <3> QED
        BY <2>1, <3>2 DEF RemoveFinished, RemoveBatchSlot, SlotsWithout
    <2>2. CASE batchSlots[r] = NoSlot
      BY <2>2 DEF RemoveFinished, engineVars
    <2> QED
      BY <2>1, <2>2
  <1>4. Running' = Running /\ Finished' = Finished /\ Live' = Live
    BY <1>1, <1>2 DEF Running, Finished, Live
  <1>5. Strays \subseteq Strays' /\ Unseated' = Unseated
    BY <1>1, <1>3 DEF Strays, Unseated, Zombies, Batched
  <1>6. RowsPaid' /\ TickShape'
    BY <1>1, <1>2, <1>4 DEF SeatInv, RowsPaid, TickShape
  <1>7. Seated'
    BY <1>1, <1>2, <1>4, <1>5 DEF SeatInv, Seated
  <1> QED
    BY <1>6, <1>7 DEF Seats

LEMMA RemovesDoneSeats == ASSUME SeatInv, RemovesDone PROVE Seats
  <1>1. /\ pc = "remove" /\ pc' = "add" /\ tick.todo = {}
        /\ tick'.new = tick.new /\ tick'.cached = tick.cached
        /\ tick'.todo = IF batchedInitialized THEN tick.new ELSE {}
        /\ UNCHANGED <<engineVars, batchedInitialized, status>>
    BY SeatTypes DEF RemovesDone, Enter
  <1>2. UNCHANGED <<session, batchSlots, maxBatch>>
    BY <1>1 DEF engineVars
  <1>3. Running' = Running /\ Finished' = Finished /\ Live' = Live /\ Strays' = Strays
    BY <1>1, <1>2 DEF Running, Finished, Live, Strays, Zombies, Batched
  <1>4. RowsPaid' /\ TickShape'
    BY <1>1, <1>2, <1>3 DEF SeatInv, RowsPaid, TickShape
  <1>5. maxBatch > 0 => Unseated' = Unseated
    BY <1>1 DEF SeatInv, RowsPaid, Unseated
  <1>6. Seated'
    BY <1>1, <1>2, <1>3, <1>5 DEF SeatInv, Seated
  <1> QED
    BY <1>4, <1>6 DEF Seats

\* Without strays there is room for a request that runs: the others hold a slot
\* each at most, and the rows are enough for all that may run.
LEMMA RoomForRunning ==
    ASSUME SeatInv, Enough, pc = "add", maxBatch > 0, Strays = {}, NEW r \in Running, r \in Live
    PROVE  RoomForSlot
  <1>1. \A q \in Batched : status[q] = "running"
    <2> SUFFICES ASSUME NEW q \in Batched PROVE status[q] = "running"
      OBVIOUS
    <2>1. q \in Requests /\ status[q] \in {"waiting", "running", "finished", "done"}
      BY SeatTypes DEF Batched, WorkerTypeOK
    <2>2. status[q] # "done"
      BY DEF Strays, Zombies
    <2>3. status[q] # "finished"
      BY <2>1 DEF SeatInv, TickShape, Finished
    <2>4. status[q] # "waiting"
      BY <2>1 DEF SeatInv, KeepInv, WorkerInv, Unprefilled, Fresh, Batched
    <2> QED
      BY <2>1, <2>2, <2>3, <2>4
  <1>2. Batched \subseteq Running \ {r}
    BY <1>1, SeatTypes DEF Running, Batched, EngineInv, KVInOnePlace
  <1>3. IsFiniteSet(Running) /\ Cardinality(Running) \in Nat
    BY SeatTypes, SubsetSize
  <1>4. IsFiniteSet(Running \ {r}) /\ Cardinality(Running \ {r}) = Cardinality(Running) - 1
    BY <1>3, FS_RemoveElement
  <1>5. BatchSize <= Cardinality(Running) - 1 /\ BatchSize \in Nat
    BY <1>2, <1>4, FS_Subset, Sizes DEF BatchSize
  <1> QED
    BY <1>3, <1>5, SeatTypes DEF SeatInv, RowsPaid, TickShape, RoomForSlot

LEMMA AddNewSeats ==
    ASSUME SeatInv, NEW r \in Requests, AddNew(r)
    PROVE  Seats
  <1>1. /\ pc = "add" /\ pc' = "add" /\ r \in tick.todo /\ tick'.todo = tick.todo \ {r}
        /\ tick'.new = tick.new /\ tick'.cached = tick.cached
        /\ UNCHANGED <<status, batchedInitialized>>
    BY SeatTypes DEF AddNew, Did
  <1>2. AddBatchSlot(r) \/ UNCHANGED engineVars
    BY DEF AddNew
  <1>3. /\ (UNCHANGED maxBatch /\ session'[r] = NoSession) \/ UNCHANGED engineVars
        /\ \A q \in Requests \ {r} : session'[q] = session[q] /\ batchSlots'[q] = batchSlots[q]
        /\ maxBatch' = maxBatch
    BY <1>2, SeatTypes DEF AddBatchSlot, SessionsWithout, engineVars, TypeOK
  <1>4. Running' = Running /\ Finished' = Finished /\ Live' \subseteq Live
    BY <1>1, <1>3 DEF Running, Finished, Live, engineVars
  <1>5. Strays \subseteq Strays'
    <2>1. r \in Running
      BY <1>1 DEF SeatInv, TickShape
    <2> QED
      BY <1>1, <1>3, <2>1 DEF Strays, Zombies, Batched, Running
  <1>6. RowsPaid' /\ TickShape'
    BY <1>1, <1>3, <1>4 DEF SeatInv, RowsPaid, TickShape
  <1>7. ASSUME Enough, maxBatch > 0, Strays = {}
        PROVE  r \notin Live' \cap Running
    <2>1. CASE r \in Live /\ r \in Running
      <3>1. RoomForSlot /\ session[r] # NoSession
        BY <1>1, <1>7, <2>1, RoomForRunning DEF Live
      <3>2. AddBatchSlot(r)
        BY <3>1 DEF AddNew
      <3> QED
        BY <3>2 DEF AddBatchSlot, SessionsWithout, Live
    <2>2. CASE ~(r \in Live /\ r \in Running)
      BY <1>4, <2>2
    <2> QED
      BY <2>1, <2>2
  <1>8. Seated'
    BY <1>1, <1>3, <1>4, <1>5, <1>7 DEF SeatInv, Seated, Unseated
  <1> QED
    BY <1>6, <1>8 DEF Seats

LEMMA AddsDoneSeats == ASSUME SeatInv, AddsDone PROVE Seats
  <1>1. /\ pc = "add" /\ pc' \in {"decode", "finish"} /\ tick.todo = {}
        /\ tick'.new = tick.new /\ tick'.cached = tick.cached
        /\ UNCHANGED <<engineVars, batchedInitialized, status>>
    BY SeatTypes DEF AddsDone, Enter
  <1>2. UNCHANGED <<session, batchSlots, maxBatch>>
    BY <1>1 DEF engineVars
  <1>3. Strays \subseteq Strays' /\ Unseated \subseteq Unseated'
    BY <1>1, <1>2 DEF Strays, Unseated, Zombies, Batched
  <1> QED
    BY <1>1, <1>2, <1>3, SeatsStay

LEMMA InitFirstTimeSeats ==
    ASSUME SeatInv, InitFirstTime
    PROVE  Seats
  <1>1. /\ pc = "decode" /\ UNCHANGED <<pc, tick, status>> /\ batchedInitialized'
        /\ UNCHANGED engineVars \/ InitBatched
    BY DEF InitFirstTime
  <1>2. CASE UNCHANGED engineVars
    <2>1. UNCHANGED <<session, batchSlots, maxBatch>>
      BY <1>2 DEF engineVars
    <2>2. Strays \subseteq Strays' /\ Unseated \subseteq Unseated'
      BY <1>1, <2>1 DEF Strays, Unseated, Zombies, Batched
    <2> QED
      BY <1>1, <2>1, <2>2, SeatsStay
  <1>3. CASE InitBatched
    <2>1. /\ Live' = {}
          /\ maxBatch' = Larger(Cardinality(Live), Smaller(MaxConcurrent, BudgetBatch))
      BY <1>3 DEF InitBatched, SessionsWithout, Live
    <2>2. Enough => MaxRunning <= maxBatch'
      BY <2>1, Sizes, EngineAssumption, SeatTypes DEF Enough, Larger, Smaller
    <2>3. Running' = Running /\ Finished' = Finished
      BY <1>1 DEF Running, Finished
    <2> QED
      BY <1>1, <2>1, <2>2, <2>3 DEF Seats, SeatInv, RowsPaid, TickShape, Seated
  <1> QED
    BY <1>1, <1>2, <1>3

\* The decode calls make no session.
LEMMA DecodeQuiet ==
    ASSUME SeatInv, DecodePlain \/ DecodeLogprobs
    PROVE  /\ pc = "decode" /\ pc' \in {"decode", "finish", "index_error"}
           /\ UNCHANGED <<status, batchSlots, maxBatch, batchedInitialized>>
           /\ \A q \in Requests : session'[q] = NoSession <=> session[q] = NoSession
           /\ tick'.new = tick.new /\ tick'.cached = tick.cached /\ tick'.finished = tick.finished
  <1>1. /\ pc = "decode" /\ pc' \in {"decode", "finish", "index_error"}
        /\ UNCHANGED <<status, batchedInitialized>>
        /\ tick'.new = tick.new /\ tick'.cached = tick.cached /\ tick'.finished = tick.finished
    BY SeatTypes DEF DecodePlain, DecodeLogprobs, TakeReply, Enter
  <1>2. \/ DecodeBatch \/ DecodeAllLogprobs \/ UNCHANGED engineVars
        \/ \E S \in SUBSET Live : DecodeSemiBatched(Cardinality(tick.cached), S)
    BY DEF DecodePlain, DecodeLogprobs, DecodeAllLogprobs
  <1>3. ASSUME NEW S \in SUBSET Live, DecodeSemiBatched(Cardinality(tick.cached), S)
        PROVE  /\ UNCHANGED <<batchSlots, maxBatch>>
               /\ \A q \in Requests : session'[q] = NoSession <=> session[q] = NoSession
    <2>1. \A q \in Requests : session[q] \in Nat
      BY SeatTypes DEF TypeOK
    <2> QED
      BY <1>3, <2>1 DEF DecodeSemiBatched, SessionsAfter, batchVars, Live, NoSession
  <1>4. ASSUME DecodeBatch \/ DecodeAllLogprobs \/ UNCHANGED engineVars
        PROVE  UNCHANGED <<batchSlots, maxBatch, session>>
    BY <1>4 DEF DecodeBatch, DecodeAllLogprobs, DecodeLogprobsBatch, DecodeLogprobsFallback,
       batchVars, engineVars
  <1> QED
    BY <1>1, <1>2, <1>3, <1>4

LEMMA DecodeSeats == ASSUME SeatInv, DecodePlain \/ DecodeLogprobs PROVE Seats
  <1>1. Strays \subseteq Strays' /\ Unseated \subseteq Unseated'
    BY DecodeQuiet DEF Strays, Unseated, Zombies, Batched
  <1> QED
    BY <1>1, DecodeQuiet, SeatsStay, SeatTypes

LEMMA FinishOneSeats ==
    ASSUME SeatInv, NEW r \in Requests, FinishOne(r)
    PROVE  Seats
  <1>1. /\ pc = "finish" /\ pc' = "finish"
        /\ tick'.new = tick.new /\ tick'.cached = tick.cached
        /\ UNCHANGED <<status, batchedInitialized>>
    BY SeatTypes DEF FinishOne, Did
  <1>2. UNCHANGED <<batchSlots, maxBatch>> /\ \A q \in Requests : session[q] = NoSession => session'[q] = NoSession
    BY DEF FinishOne, FinishReq, SessionsWithout, batchVars
  <1>3. Strays \subseteq Strays' /\ Unseated \subseteq Unseated'
    BY <1>1, <1>2 DEF Strays, Unseated, Zombies, Batched
  <1> QED
    BY <1>1, <1>2, <1>3, SeatsStay, SeatTypes

LEMMA FinishesDoneSeats == ASSUME SeatInv, FinishesDone PROVE Seats
  <1>1. /\ pc = "finish" /\ pc' = "sample"
        /\ tick'.new = tick.new /\ tick'.cached = tick.cached
        /\ UNCHANGED <<engineVars, batchedInitialized, status>>
    BY SeatTypes DEF FinishesDone, Enter
  <1>2. UNCHANGED <<session, batchSlots, maxBatch>>
    BY <1>1 DEF engineVars
  <1>3. Strays \subseteq Strays' /\ Unseated \subseteq Unseated'
    BY <1>1, <1>2 DEF Strays, Unseated, Zombies, Batched
  <1> QED
    BY <1>1, <1>2, <1>3, SeatsStay

LEMMA SampleTokensSeats ==
    ASSUME SeatInv, NEW stop \in SUBSET Requests, SampleTokens(stop)
    PROVE  Seats
  <1>1. /\ pc = "sample" /\ pc' = "idle"
        /\ UNCHANGED <<engineVars, batchedInitialized>>
        /\ status' = [r \in Requests |-> IF r \in stop THEN "finished" ELSE status[r]]
        /\ \A q \in stop : activeRequests[q] > 0
    BY DEF SampleTokens, Enter
  <1>2. UNCHANGED <<session, batchSlots, maxBatch>>
    BY <1>1 DEF engineVars
  <1>3. \A q \in stop : status[q] # "done"
    BY <1>1 DEF SeatInv, KeepInv, Released, Clean, Due
  <1>4. Running' \subseteq Running /\ Live' = Live /\ Zombies' = Zombies
    BY <1>1, <1>2, <1>3 DEF Running, Live, Zombies, Batched
  <1>5. Cardinality(Running') <= MaxRunning
    <2>1. IsFiniteSet(Running) /\ Cardinality(Running) \in Nat
      BY SeatTypes, SubsetSize
    <2>2. IsFiniteSet(Running') /\ Cardinality(Running') <= Cardinality(Running) /\ Cardinality(Running') \in Nat
      BY <1>4, <2>1, FS_Subset, FS_CardinalityType
    <2> QED
      BY <2>1, <2>2, SeatTypes DEF SeatInv, TickShape
  <1>6. RowsPaid' /\ TickShape'
    BY <1>1, <1>2, <1>5 DEF SeatInv, RowsPaid, TickShape
  <1>7. Seated'
    BY <1>1, <1>2, <1>4 DEF SeatInv, Seated, Strays, Unseated
  <1> QED
    BY <1>6, <1>7 DEF Seats

LEMMA ScheduleSeats ==
    ASSUME SeatInv, NEW new \in SUBSET Requests, Schedule(new)
    PROVE  Seats
  <1>1. /\ pc = "idle" /\ pc' = "prefill"
        /\ tick'.new = new /\ tick'.todo = new /\ tick'.cached = Running /\ tick'.finished = Finished
        /\ \A q \in new : status[q] = "waiting"
        /\ Cardinality(new \cup Running) <= MaxRunning
        /\ UNCHANGED <<engineVars, batchedInitialized>>
        /\ status' = [r \in Requests |-> IF r \in new THEN "running"
                                         ELSE IF r \in Finished THEN "done" ELSE status[r]]
    BY DEF Schedule, NewTick, NewReqs
  <1>2. UNCHANGED <<session, batchSlots, maxBatch>>
    BY <1>1 DEF engineVars
  <1>3. Running' = new \cup Running /\ Finished' = {} /\ Live' = Live
    BY <1>1, <1>2 DEF Running, Finished, Live
  <1>4. Strays \subseteq Strays'
    BY <1>1, <1>2 DEF Strays, Zombies, Batched, Finished
  <1>5. RowsPaid' /\ TickShape'
    BY <1>1, <1>2, <1>3 DEF SeatInv, RowsPaid, TickShape
  <1>6. Seated'
    BY <1>1, <1>2, <1>3, <1>4 DEF SeatInv, Seated, Unseated
  <1> QED
    BY <1>5, <1>6 DEF Seats

LEMMA SeatInductive ==
    ASSUME SeatInv, [WorkerNext]_workerVars
    PROVE  SeatInv'
  <1>1. KeepInv'
    BY KeepInductive DEF SeatInv
  <1>2. CASE WorkerNext
    <2>1. ASSUME ExecuteModel PROVE Seats
      BY <2>1, PrefillUniformGroupSeats, PrefillFirstSeats, PrefillsDoneSeats, RemoveFinishedSeats,
         RemovesDoneSeats, AddNewSeats, AddsDoneSeats, InitFirstTimeSeats, DecodeSeats,
         FinishOneSeats, FinishesDoneSeats
      DEF ExecuteModel
    <2>2. Seats
      BY <1>2, <2>1, ScheduleSeats, SampleTokensSeats DEF WorkerNext
    <2> QED
      BY <1>1, <2>2 DEF Seats, SeatInv
  <1>3. CASE UNCHANGED workerVars
    <2>1. UNCHANGED engineVars /\ UNCHANGED workerOnly
      BY <1>3 DEF workerVars
    <2>2. UNCHANGED <<session, batchSlots, maxBatch, pc, tick, batchedInitialized, status>>
      BY <2>1 DEF engineVars, workerOnly
    <2>3. Running' = Running /\ Finished' = Finished /\ Live' = Live /\ Zombies' = Zombies
      BY <2>2 DEF Running, Finished, Live, Zombies, Batched
    <2> QED
      BY <1>1, <2>2, <2>3 DEF SeatInv, RowsPaid, TickShape, Seated, Strays, Unseated
  <1> QED
    BY <1>2, <1>3

LEMMA SeatInvariant == WorkerSpec => []SeatInv
  <1>1. WorkerInit => SeatInv
    BY WorkerInitially, KeepInitially, SeatInitially DEF KeepInv, SeatInv
  <1> QED
    BY <1>1, SeatInductive, PTL DEF WorkerSpec

\* When the engine has been given as many rows as requests may run, and memory
\* pays for them, no request is left in a session where decode_all never looks:
\* it is given a slot in the tick that prefills it.
THEOREM NoneStarved ==
    ASSUME MaxRunning <= MaxConcurrent, MaxRunning <= BudgetBatch
    PROVE  WorkerSpec => []NoStarvedSession
  <1>1. SeatInv => NoStarvedSession
    BY DEF Enough, SeatInv, Seated, Strays, Unseated, NoStarvedSession
  <1> QED
    BY <1>1, SeatInvariant, PTL

-----------------------------------------------------------------------------
(* A failed prefill leaves nothing in the engine, and its mark for good    *)

FailInv ==
    \A r \in Requests : /\ lastToken[r] = Blank => Fresh(r)
                        /\ Unprefilled(r) => lastToken[r] # Blank

TokenInv ==
    /\ SeatInv
    /\ Genuine
    /\ FailInv

LEMMA NotBlank == ASSUME NEW token, token.req # NoRequest PROVE token # Blank
  BY DEF Blank, Token

\* A reply is taken in for requests that have a KV cache, and is no blank.
LEMMA ReplyGiven ==
    ASSUME TokenInv, pc = "decode", NEW S \in SUBSET Requests, NEW reply \in [S -> Cell],
           \A r \in S : HasKV(r) /\ reply[r].req # NoRequest, TakeReply(reply)
    PROVE  \A q \in Requests : lastToken'[q] = lastToken[q]
                               \/ (HasKV(q) /\ lastToken'[q] # Blank /\ ~Unprefilled(q))
  <1> SUFFICES ASSUME NEW q \in Requests, lastToken'[q] # lastToken[q]
               PROVE  HasKV(q) /\ lastToken'[q] # Blank /\ ~Unprefilled(q)
    OBVIOUS
  <1> DEFINE mine == [r \in tick.cached \cap DOMAIN reply |-> reply[r]]
  <1>1. Deliver(mine)
    BY DEF TakeReply
  <1>2. q \in tick.cached \cap S /\ lastToken'[q] = reply[q]
    BY <1>1 DEF Deliver
  <1>3. status[q] = "running"
    BY <1>2 DEF TokenInv, SeatInv, KeepInv, TickInv
  <1> QED
    BY <1>2, <1>3, NotBlank DEF Unprefilled

LEMMA TokensGiven ==
    ASSUME TokenInv, WorkerNext, ~(\E r \in Requests : PrefillFirstOfGroup(r))
    PROVE  \A q \in Requests : lastToken'[q] = lastToken[q]
                               \/ (HasKV(q) /\ lastToken'[q] # Blank /\ ~Unprefilled(q))
  <1>1. CASE DecodePlain \/ DecodeLogprobs
    <2>1. TypeOK /\ EngineInv /\ Genuine /\ pc = "decode"
      BY <1>1, SeatTypes, DecodeQuiet DEF TokenInv
    <2>2. \A r \in Batched : HasKV(r) /\ r \in Requests
      BY DEF Batched, HasKV
    <2>3. ASSUME TakeReply(BatchReply) \/ TakeReply(LogprobsReply)
          PROVE  \A q \in Requests : lastToken'[q] = lastToken[q]
                                     \/ (HasKV(q) /\ lastToken'[q] # Blank /\ ~Unprefilled(q))
      <3>1. Batched \in SUBSET Requests
        BY Sizes
      <3> QED
        BY <2>1, <2>2, <2>3, <3>1, ReplyTypes, GenuineReplies, ReplyGiven
    <2>4. ASSUME NEW S \in SUBSET Live, TakeReply(SemiReply(S))
          PROVE  \A q \in Requests : lastToken'[q] = lastToken[q]
                                     \/ (HasKV(q) /\ lastToken'[q] # Blank /\ ~Unprefilled(q))
      <3>1. S \in SUBSET Requests /\ \A r \in S : HasKV(r) /\ r \in Requests
        BY DEF Live, HasKV
      <3>2. SemiReply(S) \in [S -> Cell] /\ \A r \in S : SemiReply(S)[r].req # NoRequest
        BY <2>1, <3>1, ReplyTypes, EngineAssumption DEF SemiReply, Token
      <3> QED
        BY <2>1, <2>4, <3>1, <3>2, ReplyGiven
    <2>5. ASSUME TakeReply(NoReply) PROVE \A q \in Requests : lastToken'[q] = lastToken[q]
      BY <2>5 DEF TakeReply, NoReply, Deliver
    <2> QED
      BY <1>1, <2>3, <2>4, <2>5 DEF DecodePlain, DecodeLogprobs
  <1>2. CASE ~(DecodePlain \/ DecodeLogprobs)
    BY <1>2 DEF WorkerNext, ExecuteModel, Schedule, SampleTokens, PrefillUniformGroup, PrefillsDone,
       RemoveFinished, RemovesDone, AddNew, AddsDone, InitFirstTime, FinishOne, FinishesDone
  <1> QED
    BY <1>1, <1>2

LEMMA FailStep ==
    ASSUME TokenInv, WorkerNext
    PROVE  FailInv' /\ Failed \subseteq Failed'
  <1>1. CASE \E r \in Requests : PrefillFirstOfGroup(r)
    <2> PICK r \in Requests : PrefillFirstOfGroup(r)
      BY <1>1
    <2> PICK first \in {PrefillReply(r), Blank} : Prefill(r, first) /\ Deliver([q \in {r} |-> first])
      BY DEF PrefillFirstOfGroup
    <2>1. Unprefilled(r) /\ Fresh(r) /\ lastToken[r] # Blank
      BY DEF PrefillFirstOfGroup, Unprefilled, TokenInv, FailInv, SeatInv, KeepInv, WorkerInv
    <2>2. /\ lastToken'[r] = first
          /\ \A q \in Requests \ {r} : lastToken'[q] = lastToken[q]
      BY DEF Deliver
    <2>3. /\ batchSlots' = batchSlots
          /\ \A q \in Requests \ {r} : session'[q] = session[q]
          /\ first = Blank => session'[r] = session[r]
      <3>1. (PrefillReq(r) /\ first = PrefillReply(r)) \/ (first = Blank /\ UNCHANGED engineVars)
        BY DEF Prefill, PrefillVlm
      <3>2. PrefillReply(r) # Blank
        BY EngineAssumption DEF PrefillReply, Blank, Token
      <3> QED
        BY <3>1, <3>2, SeatTypes DEF PrefillReq, batchVars, engineVars, TokenInv, TypeOK
    <2>4. /\ pc = "prefill" /\ pc' = "prefill" /\ status' = status /\ status[r] # "waiting"
          /\ tick'.todo = tick.todo \ Group(r) /\ r \in Group(r)
      BY SeatTypes DEF PrefillFirstOfGroup, Did, Group, TokenInv, SeatInv, KeepInv, WorkerInv, Admitted
    <2>5. \A q \in Requests : Unprefilled(q)' => q # r /\ Unprefilled(q)
      BY <2>4 DEF Unprefilled
    <2>6. FailInv'
      BY <2>1, <2>2, <2>3, <2>5 DEF TokenInv, FailInv, Fresh
    <2>7. Failed \subseteq Failed'
      BY <2>1, <2>2 DEF Failed
    <2> QED
      BY <2>6, <2>7
  <1>2. CASE ~(\E r \in Requests : PrefillFirstOfGroup(r))
    <2>1. OtherCall /\ \A q \in Requests : Unprefilled(q)' => Unprefilled(q)
      BY <1>2, WorkerStep DEF TokenInv, SeatInv, KeepInv, PrefillsNothing
    <2>2. ASSUME NEW q \in Requests PROVE Fresh(q) => Fresh(q)'
      BY <2>1, FreshStays, SeatTypes DEF TokenInv
    <2>3. ASSUME NEW q \in Requests PROVE lastToken'[q] = Blank <=> lastToken[q] = Blank
      BY <1>2, TokensGiven DEF TokenInv, FailInv, Fresh, HasKV
    <2> QED
      BY <2>1, <2>2, <2>3 DEF TokenInv, FailInv, Failed
  <1> QED
    BY <1>1, <1>2

LEMMA TokenInductive ==
    ASSUME TokenInv, [WorkerNext]_workerVars
    PROVE  TokenInv' /\ Failed \subseteq Failed'
  <1>1. SeatInv' /\ Genuine'
    BY SeatInductive, WorkerInductive, GenuineStep DEF TokenInv, SeatInv, KeepInv, WorkerInv
  <1>2. CASE WorkerNext
    BY <1>1, <1>2, FailStep DEF TokenInv
  <1>3. CASE UNCHANGED workerVars
    BY <1>1, <1>3 DEF TokenInv, FailInv, Failed, Fresh, Unprefilled, workerVars, workerOnly, engineVars
  <1> QED
    BY <1>2, <1>3

LEMMA TokenInitially == WorkerInit => TokenInv
  <1> SUFFICES ASSUME WorkerInit PROVE TokenInv
    OBVIOUS
  <1>1. SeatInv
    BY WorkerInitially, KeepInitially, SeatInitially DEF KeepInv, SeatInv
  <1>2. Genuine
    BY DEF WorkerInit, Init, Genuine, Batched, Slots
  <1>3. FailInv
    BY EngineAssumption DEF WorkerInit, FailInv, Blank, Token
  <1> QED
    BY <1>1, <1>2, <1>3 DEF TokenInv

-----------------------------------------------------------------------------
(* Without failed prefills and logprobs, no slot outlives its request      *)

\* The prefill of r comes in this tick, or its group was cut short in one that
\* decodes.
Ahead(r) ==
    \/ pc = "prefill" /\ r \in tick.todo
    \/ r \in tick.new /\ tick.cached # {} /\ pc \in {"prefill", "remove", "add", "decode"}

\* Up to the first init_batched every running request has been prefilled.
Prefilled ==
    /\ tick.new \cap tick.cached = {}
    /\ pc = "decode" => tick.cached # {}
    /\ ~batchedInitialized /\ pc \notin {"attribute_error", "index_error"}
           => \A r \in Running : activeRequests[r] > 0 \/ Ahead(r)

\* More slots than entries in the buffers of the decode call that comes.
TooMany ==
    /\ pc = "decode" /\ batchedInitialized /\ maxBatch > 0
    /\ Cardinality(Batched) > Cardinality(tick.cached)

NoStrays ==
    Failed = {} /\ pc \notin {"attribute_error", "index_error"} => Strays = {} \/ TooMany

BatchMade == Batchable /\ Failed = {} /\ batchedInitialized => maxBatch > 0

StrayInv ==
    /\ TokenInv
    /\ Prefilled
    /\ NoStrays
    /\ BatchMade

StrayFree == (Prefilled /\ NoStrays /\ BatchMade)'

LEMMA StrayInitially == WorkerInit => Prefilled /\ NoStrays /\ BatchMade
  BY DEF WorkerInit, Init, Prefilled, Running, NoStrays, BatchMade, Strays, Zombies, Batched

\* A step that changes no slot but frees them and marks no request as done.
LEMMA StraysStay ==
    ASSUME StrayInv, WorkerNext, UNCHANGED <<status, maxBatch, batchedInitialized>>,
           tick'.new = tick.new, tick'.cached = tick.cached,
           pc # "idle", pc # "decode", pc' = "decode" => tick.cached # {},
           Strays' \subseteq Strays,
           \A r \in Running : activeRequests[r] > 0 => activeRequests'[r] > 0,
           pc' \in {"attribute_error", "index_error"}
               \/ \A r \in Running : Ahead(r) => Ahead(r)' \/ activeRequests'[r] > 0,
           pc \notin {"attribute_error", "index_error"}
    PROVE  StrayFree
  <1>1. Failed \subseteq Failed' /\ Running' = Running
    BY TokenInductive DEF StrayInv, Running
  <1>2. Prefilled'
    BY <1>1 DEF StrayInv, Prefilled
  <1>3. NoStrays'
    BY <1>1 DEF StrayInv, NoStrays, TooMany
  <1>4. BatchMade'
    BY <1>1 DEF StrayInv, BatchMade
  <1> QED
    BY <1>2, <1>3, <1>4 DEF StrayFree

LEMMA PrefillUniformGroupStrays ==
    ASSUME StrayInv, WorkerNext, NEW r \in Requests, PrefillUniformGroup(r)
    PROVE  StrayFree
  <1>1. Failed \subseteq Failed' /\ Running' = Running
    BY TokenInductive DEF StrayInv, PrefillUniformGroup, Running
  <1> QED
    BY <1>1 DEF PrefillUniformGroup, StrayFree, StrayInv, Prefilled, NoStrays, BatchMade, engineVars

\* A group of one, or one that a tick with cached requests cuts short.
LEMMA PrefillFirstStrays ==
    ASSUME StrayInv, WorkerNext, NEW r \in Requests, PrefillFirstOfGroup(r)
    PROVE  StrayFree
  <1>1. /\ pc = "prefill" /\ pc' = "prefill" /\ r \in tick.todo /\ tick'.todo = tick.todo \ Group(r)
        /\ tick'.new = tick.new /\ tick'.cached = tick.cached /\ tick'.finished = tick.finished
        /\ UNCHANGED <<status, batchedInitialized>>
        /\ tick.todo \subseteq tick.new
    BY SeatTypes DEF PrefillFirstOfGroup, Did, StrayInv, TokenInv, SeatInv, TickShape
  <1>2. UNCHANGED <<batchSlots, maxBatch>>
    BY DEF PrefillFirstOfGroup, Prefill, PrefillReq, PrefillVlm, batchVars, engineVars
  <1>3. /\ \A q \in Requests : activeRequests[q] > 0 => activeRequests'[q] > 0
        /\ activeRequests'[r] > 0
    <2>1. PICK first : Deliver([q \in {r} |-> first])
      BY DEF PrefillFirstOfGroup
    <2> QED
      BY <2>1, SeatTypes DEF Deliver, StrayInv, TokenInv, WorkerTypeOK
  <1>4. ASSUME tick.cached = {} PROVE Group(r) = {r}
    <2>1. Group(r) \in SUBSET Requests /\ r \in Group(r) /\ Cardinality(Group(r)) < 2
      BY <1>1, <1>4, SeatTypes DEF PrefillFirstOfGroup, Group, StrayInv, TokenInv
    <2>2. IsFiniteSet(Group(r)) /\ Cardinality(Group(r)) \in Nat
      BY <2>1, SubsetSize
    <2>3. Cardinality(Group(r) \ {r}) = Cardinality(Group(r)) - 1 /\ IsFiniteSet(Group(r) \ {r})
          /\ Cardinality(Group(r) \ {r}) \in Nat
      BY <2>1, <2>2, FS_RemoveElement, FS_CardinalityType
    <2>4. Group(r) \ {r} = {}
      BY <2>1, <2>2, <2>3, FS_EmptySet
    <2> QED
      BY <2>1, <2>4
  <1>5. \A q \in Running : Ahead(q) => Ahead(q)' \/ activeRequests'[q] > 0
    BY <1>1, <1>3, <1>4 DEF Ahead
  <1>6. Strays' = Strays
    BY <1>1, <1>2 DEF Strays, Zombies, Batched
  <1> QED
    BY <1>1, <1>2, <1>3, <1>5, <1>6, StraysStay DEF Running

\* One loop of execute_model ends and the next begins.
LEMMA LoopEndStrays ==
    ASSUME StrayInv, WorkerNext, pc \in {"prefill", "remove", "add", "finish"},
           UNCHANGED <<engineVars, batchedInitialized, activeRequests, status>>,
           tick'.new = tick.new, tick'.cached = tick.cached,
           pc' = "decode" => tick.cached # {}, Strays' \subseteq Strays,
           \A r \in Running : Ahead(r) => Ahead(r)'
    PROVE  StrayFree
  <1>1. UNCHANGED maxBatch
    BY DEF engineVars
  <1> QED
    BY <1>1, StraysStay

LEMMA PrefillsDoneStrays == ASSUME StrayInv, WorkerNext, PrefillsDone PROVE StrayFree
  <1>1. /\ pc = "prefill" /\ pc' = "remove" /\ tick.todo = {}
        /\ tick'.new = tick.new /\ tick'.cached = tick.cached
        /\ tick'.todo = IF batchedInitialized THEN tick.finished ELSE {}
        /\ UNCHANGED <<engineVars, batchedInitialized, activeRequests, status>>
    BY SeatTypes DEF PrefillsDone, Enter, StrayInv, TokenInv
  <1>2. Zombies' = Zombies /\ (~batchedInitialized => Zombies = {})
    BY <1>1 DEF Zombies, Batched, engineVars, StrayInv, TokenInv, SeatInv, KeepInv, NoBatchYet
  <1>3. Strays' \subseteq Strays
    BY <1>1, <1>2 DEF Strays
  <1>4. \A r \in Running : Ahead(r) => Ahead(r)'
    BY <1>1 DEF Ahead
  <1> QED
    BY <1>1, <1>3, <1>4, LoopEndStrays

LEMMA RemoveFinishedStrays ==
    ASSUME StrayInv, WorkerNext, NEW r \in Requests, RemoveFinished(r)
    PROVE  StrayFree
  <1>1. /\ pc = "remove" /\ pc' = "remove" /\ r \in tick.todo /\ tick'.todo = tick.todo \ {r}
        /\ tick'.new = tick.new /\ tick'.cached = tick.cached
        /\ UNCHANGED <<status, batchedInitialized, activeRequests>>
    BY SeatTypes DEF RemoveFinished, Did, StrayInv, TokenInv
  <1>2. UNCHANGED maxBatch
    BY DEF RemoveFinished, RemoveBatchSlot, engineVars
  <1>3. Batched' \subseteq Batched \ {r}
    <2>1. CASE batchSlots[r] # NoSlot
      <3>1. r \in Batched /\ EngineInv
        BY <2>1, SeatTypes DEF Batched, StrayInv, TokenInv
      <3>2. batchSlots[r] \in 0 .. BatchSize - 1
        BY <3>1 DEF EngineInv, SlotsDense, Occupied
      <3>3. BatchSize - 1 # NoSlot
        BY <3>2, Sizes DEF NoSlot
      <3> QED
        BY <2>1, <3>3 DEF RemoveFinished, RemoveBatchSlot, SlotsWithout, Batched
    <2>2. CASE batchSlots[r] = NoSlot
      BY <2>2 DEF RemoveFinished, engineVars, Batched
    <2> QED
      BY <2>1, <2>2
  <1>4. Strays' \subseteq Strays
    BY <1>1, <1>3 DEF Strays, Zombies, Batched
  <1>5. \A q \in Running : Ahead(q) => Ahead(q)'
    BY <1>1 DEF Ahead
  <1> QED
    BY <1>1, <1>2, <1>4, <1>5, StraysStay

LEMMA RemovesDoneStrays == ASSUME StrayInv, WorkerNext, RemovesDone PROVE StrayFree
  <1>1. /\ pc = "remove" /\ pc' = "add" /\ tick.todo = {}
        /\ tick'.new = tick.new /\ tick'.cached = tick.cached
        /\ UNCHANGED <<engineVars, batchedInitialized, activeRequests, status>>
    BY SeatTypes DEF RemovesDone, Enter, StrayInv, TokenInv
  <1>2. Strays' \subseteq Strays /\ \A r \in Running : Ahead(r) => Ahead(r)'
    BY <1>1 DEF Strays, Zombies, Batched, engineVars, Ahead
  <1> QED
    BY <1>1, <1>2, LoopEndStrays

LEMMA AddNewStrays ==
    ASSUME StrayInv, WorkerNext, NEW r \in Requests, AddNew(r)
    PROVE  StrayFree
  <1>1. /\ pc = "add" /\ pc' = "add" /\ r \in Running
        /\ tick'.new = tick.new /\ tick'.cached = tick.cached
        /\ UNCHANGED <<status, batchedInitialized, activeRequests>>
    BY SeatTypes DEF AddNew, Did, StrayInv, TokenInv, SeatInv, TickShape
  <1>2. UNCHANGED maxBatch /\ \A q \in Requests \ {r} : batchSlots'[q] = batchSlots[q]
    BY SeatTypes DEF AddNew, AddBatchSlot, engineVars, StrayInv, TokenInv, TypeOK
  <1>3. Strays' \subseteq Strays /\ \A q \in Running : Ahead(q) => Ahead(q)'
    BY <1>1, <1>2 DEF Strays, Zombies, Batched, Running, Ahead
  <1> QED
    BY <1>1, <1>2, <1>3, StraysStay

LEMMA AddsDoneStrays == ASSUME StrayInv, WorkerNext, AddsDone PROVE StrayFree
  <1>1. /\ pc = "add" /\ pc' = IF tick.cached = {} THEN "finish" ELSE "decode"
        /\ tick'.new = tick.new /\ tick'.cached = tick.cached
        /\ UNCHANGED <<engineVars, batchedInitialized, activeRequests, status>>
    BY SeatTypes DEF AddsDone, Enter, StrayInv, TokenInv
  <1>2. Strays' \subseteq Strays /\ \A r \in Running : Ahead(r) => Ahead(r)'
    BY <1>1 DEF Strays, Zombies, Batched, engineVars, Ahead
  <1> QED
    BY <1>1, <1>2, LoopEndStrays

LEMMA FinishOneStrays ==
    ASSUME StrayInv, WorkerNext, NEW r \in Requests, FinishOne(r)
    PROVE  StrayFree
  <1>1. /\ pc = "finish" /\ pc' = "finish" /\ status[r] = "done"
        /\ tick'.new = tick.new /\ tick'.cached = tick.cached
        /\ UNCHANGED <<status, batchedInitialized>>
    BY SeatTypes DEF FinishOne, Did, StrayInv, TokenInv, SeatInv, KeepInv, TickInv
  <1>2. /\ UNCHANGED <<batchSlots, maxBatch>>
        /\ \A q \in Requests \ {r} : activeRequests'[q] = activeRequests[q]
    BY SeatTypes DEF FinishOne, FinishReq, batchVars, StrayInv, TokenInv, WorkerTypeOK
  <1>3. Strays' \subseteq Strays /\ \A q \in Running : Ahead(q) => Ahead(q)'
    BY <1>1, <1>2 DEF Strays, Zombies, Batched, Ahead
  <1>4. \A q \in Running : activeRequests[q] > 0 => activeRequests'[q] > 0
    BY <1>1, <1>2 DEF Running
  <1> QED
    BY <1>1, <1>2, <1>3, <1>4, StraysStay

LEMMA FinishesDoneStrays == ASSUME StrayInv, WorkerNext, FinishesDone PROVE StrayFree
  <1>1. /\ pc = "finish" /\ pc' = "sample"
        /\ tick'.new = tick.new /\ tick'.cached = tick.cached
        /\ UNCHANGED <<engineVars, batchedInitialized, activeRequests, status>>
    BY SeatTypes DEF FinishesDone, Enter, StrayInv, TokenInv
  <1>2. Strays' \subseteq Strays /\ \A r \in Running : Ahead(r) => Ahead(r)'
    BY <1>1 DEF Strays, Zombies, Batched, engineVars, Ahead
  <1> QED
    BY <1>1, <1>2, LoopEndStrays

\* All cached requests are in sessions when the batch is built, so that one slot
\* of another request is one more than there are cached ones.
LEMMA CachedLive ==
    ASSUME StrayInv, pc = "decode", ~batchedInitialized, Failed = {}
    PROVE  tick.cached \subseteq Live /\ tick.cached \subseteq Running
  <1> SUFFICES ASSUME NEW r \in tick.cached PROVE r \in Live /\ r \in Running
    OBVIOUS
  <1>1. r \in Requests /\ status[r] = "running"
    BY SeatTypes DEF StrayInv, TokenInv, SeatInv, KeepInv, TickInv
  <1>2. activeRequests[r] > 0
    BY <1>1 DEF StrayInv, Prefilled, Running, Ahead
  <1>3. HasKV(r)
    BY <1>1, <1>2 DEF StrayInv, TokenInv, SeatInv, KeepInv, Served, Failed
  <1>4. Batched = {}
    BY DEF StrayInv, TokenInv, SeatInv, KeepInv, NoBatchYet
  <1> QED
    BY <1>1, <1>3, <1>4 DEF HasKV, Batched, Live, Running

LEMMA InitFirstTimeStrays ==
    ASSUME StrayInv, WorkerNext, InitFirstTime
    PROVE  StrayFree
  <1>1. /\ pc = "decode" /\ ~batchedInitialized /\ batchedInitialized'
        /\ UNCHANGED <<pc, tick, status, activeRequests, lastToken>>
    BY DEF InitFirstTime
  <1>2. Prefilled'
    BY <1>1 DEF StrayInv, Prefilled
  <1>3. Failed' = Failed /\ Batched = {}
    BY <1>1 DEF Failed, StrayInv, TokenInv, SeatInv, KeepInv, NoBatchYet
  <1>4. CASE Failed # {}
    BY <1>2, <1>3, <1>4 DEF StrayFree, NoStrays, BatchMade
  <1>5. CASE Failed = {}
    <2>1. tick.cached \subseteq Live /\ tick.cached \subseteq Running /\ tick.cached # {}
      BY <1>1, <1>5, CachedLive DEF StrayInv, Prefilled
    <2>2. CASE ~Batchable
      <3>1. Strays' = {}
        BY <1>1, <1>3, <2>2 DEF InitFirstTime, engineVars, Strays, Zombies, Batched
      <3> QED
        BY <1>2, <2>2, <3>1 DEF StrayFree, NoStrays, BatchMade
    <2>3. CASE Batchable
      <3>1. PICK f \in SlotNumberings(Live) : batchSlots' = SlotsOf(Live, f)
        BY <1>1, <2>1, <2>3 DEF InitFirstTime, InitBatched
      <3>2. maxBatch' = Larger(Cardinality(Live), Smaller(MaxConcurrent, BudgetBatch))
        BY <1>1, <2>1, <2>3 DEF InitFirstTime, InitBatched
      <3>3. maxBatch' > 0
        BY <3>2, Sizes, EngineAssumption DEF Larger, Smaller
      <3>4. Batched' = Live
        <4>1. \A r \in Live : r \in Requests /\ f[r] \in 0 .. Cardinality(Live) - 1
          BY DEF SlotNumberings, Live
        <4>2. \A r \in Live : f[r] # NoSlot
          BY <4>1, Sizes DEF NoSlot
        <4> QED
          BY <3>1, <4>1, <4>2 DEF SlotsOf, Batched
      <3>5. ASSUME Strays' # {} PROVE TooMany'
        <4>1. PICK r \in Live : status[r] = "done"
          BY <1>1, <3>4, <3>5 DEF Strays, Zombies
        <4>2. r \notin tick.cached
          BY <2>1, <4>1 DEF Running
        <4>3. tick.cached \subseteq Live \ {r}
          BY <2>1, <4>2
        <4>4. /\ IsFiniteSet(Live \ {r}) /\ Cardinality(Live \ {r}) = Cardinality(Live) - 1
              /\ Cardinality(Live) \in Nat
          BY Sizes, FS_RemoveElement, EngineAssumption, <4>1, SMTT(30)
        <4>5. Cardinality(tick.cached) <= Cardinality(Live) - 1 /\ Cardinality(tick.cached) \in Nat
          BY <4>3, <4>4, FS_Subset, FS_CardinalityType
        <4> QED
          BY <1>1, <3>3, <3>4, <4>4, <4>5 DEF TooMany
      <3> QED
        BY <1>2, <3>3, <3>5 DEF StrayFree, NoStrays, BatchMade
    <2> QED
      BY <2>2, <2>3
  <1> QED
    BY <1>4, <1>5

\* A call that would write past the buffers ends the worker.
LEMMA DecodeOver ==
    ASSUME StrayInv, WantsLogprobs = {}, TooMany, DecodePlain \/ DecodeLogprobs
    PROVE  pc' = "index_error"
  <1>1. Batched # {} /\ maxBatch # 0
    <2>1. IsFiniteSet(tick.cached) /\ Cardinality(tick.cached) \in Nat
      BY SeatTypes, SubsetSize DEF StrayInv, TokenInv
    <2> QED
      BY <2>1, FS_EmptySet DEF TooMany
  <1>2. ~LogprobsTick
    BY DEF LogprobsTick
  <1>3. TakeReply(BatchReply)
    BY <1>1, <1>2 DEF DecodePlain, DecodeLogprobs, DecodeSemiBatched, NothingToDecode
  <1>4. DOMAIN BatchReply = Batched
    BY DEF BatchReply
  <1> QED
    BY <1>3, <1>4 DEF TakeReply, TooMany

LEMMA DecodeStrays ==
    ASSUME StrayInv, WantsLogprobs = {}, WorkerNext, DecodePlain \/ DecodeLogprobs
    PROVE  StrayFree
  <1>1. /\ Failed \subseteq Failed'
        /\ pc = "decode" /\ pc' \in {"decode", "finish", "index_error"} /\ batchedInitialized
        /\ UNCHANGED <<status, batchSlots, maxBatch, batchedInitialized>>
        /\ tick'.new = tick.new /\ tick'.cached = tick.cached
    BY TokenInductive, DecodeQuiet DEF StrayInv, TokenInv, DecodePlain, DecodeLogprobs
  <1>2. Prefilled' /\ BatchMade'
    BY <1>1 DEF StrayInv, Prefilled, BatchMade
  <1>3. Strays' = Strays
    BY <1>1 DEF Strays, Zombies, Batched
  <1>4. NoStrays'
    <2>1. CASE TooMany
      BY <2>1, DecodeOver DEF NoStrays
    <2>2. CASE ~TooMany
      BY <1>1, <1>3, <2>2 DEF StrayInv, NoStrays
    <2> QED
      BY <2>1, <2>2
  <1> QED
    BY <1>2, <1>4 DEF StrayFree

LEMMA SampleTokensStrays ==
    ASSUME StrayInv, WorkerNext, NEW stop \in SUBSET Requests, SampleTokens(stop)
    PROVE  StrayFree
  <1>1. /\ pc = "sample" /\ pc' = "idle" /\ Failed \subseteq Failed'
        /\ tick'.new = tick.new /\ tick'.cached = tick.cached
        /\ UNCHANGED <<engineVars, batchedInitialized, activeRequests>>
        /\ status' = [r \in Requests |-> IF r \in stop THEN "finished" ELSE status[r]]
    BY SeatTypes, TokenInductive DEF SampleTokens, Enter, StrayInv, TokenInv
  <1>2. UNCHANGED <<batchSlots, maxBatch>>
    BY <1>1 DEF engineVars
  <1>3. Running' \subseteq Running /\ Strays' \subseteq Strays
    BY <1>1, <1>2 DEF Running, Strays, Zombies, Batched
  <1>4. Prefilled'
    BY <1>1, <1>3 DEF StrayInv, Prefilled, Ahead
  <1>5. NoStrays' /\ BatchMade'
    BY <1>1, <1>2, <1>3 DEF StrayInv, NoStrays, BatchMade, TooMany
  <1> QED
    BY <1>4, <1>5 DEF StrayFree

LEMMA ScheduleStrays ==
    ASSUME StrayInv, WorkerNext, NEW new \in SUBSET Requests, Schedule(new)
    PROVE  StrayFree
  <1>1. /\ pc = "idle" /\ pc' = "prefill" /\ Failed \subseteq Failed'
        /\ tick'.new = new /\ tick'.todo = new /\ tick'.cached = Running /\ tick'.finished = Finished
        /\ \A q \in new : status[q] = "waiting"
        /\ UNCHANGED <<engineVars, batchedInitialized, activeRequests>>
        /\ status' = [r \in Requests |-> IF r \in new THEN "running"
                                         ELSE IF r \in Finished THEN "done" ELSE status[r]]
    BY TokenInductive DEF Schedule, NewTick, NewReqs, StrayInv
  <1>2. UNCHANGED <<batchSlots, maxBatch>>
    BY <1>1 DEF engineVars
  <1>3. Running' = new \cup Running /\ new \cap Running = {}
    BY <1>1 DEF Running, Finished
  <1>4. Strays' \subseteq Strays
    <2>1. Batched' = Batched /\ Batched \subseteq Requests
      BY <1>2 DEF Batched
    <2>2. \A r \in Batched : status'[r] = "done" /\ r \notin Finished => status[r] = "done"
      BY <1>1, <2>1
    <2> QED
      BY <1>1, <2>1, <2>2 DEF Strays, Zombies
  <1>5. Prefilled'
    BY <1>1, <1>3 DEF StrayInv, Prefilled, Ahead
  <1>6. NoStrays' /\ BatchMade'
    BY <1>1, <1>2, <1>4 DEF StrayInv, NoStrays, BatchMade, TooMany
  <1> QED
    BY <1>5, <1>6 DEF StrayFree

LEMMA StrayInductive ==
    ASSUME StrayInv, WantsLogprobs = {}, [WorkerNext]_workerVars
    PROVE  StrayInv'
  <1>1. TokenInv'
    BY TokenInductive DEF StrayInv
  <1>2. CASE WorkerNext
    <2>1. ASSUME ExecuteModel PROVE StrayFree
      BY <1>2, <2>1, PrefillUniformGroupStrays, PrefillFirstStrays, PrefillsDoneStrays,
         RemoveFinishedStrays, RemovesDoneStrays, AddNewStrays, AddsDoneStrays, InitFirstTimeStrays,
         DecodeStrays, FinishOneStrays, FinishesDoneStrays
      DEF ExecuteModel
    <2>2. StrayFree
      BY <1>2, <2>1, ScheduleStrays, SampleTokensStrays DEF WorkerNext
    <2> QED
      BY <1>1, <2>2 DEF StrayFree, StrayInv
  <1>3. CASE UNCHANGED workerVars
    <2>1. /\ UNCHANGED <<pc, tick, status, batchedInitialized, activeRequests, lastToken>>
          /\ UNCHANGED <<batchSlots, maxBatch>>
      BY <1>3 DEF workerVars, workerOnly, engineVars
    <2>2. Running' = Running /\ Failed' = Failed /\ Batched' = Batched /\ Zombies' = Zombies
      BY <2>1 DEF Running, Failed, Batched, Zombies
    <2> QED
      BY <1>1, <2>1, <2>2 DEF StrayInv, Prefilled, Ahead, NoStrays, Strays, TooMany, BatchMade
  <1> QED
    BY <1>2, <1>3

LEMMA StrayInvariant == ASSUME WantsLogprobs = {} PROVE WorkerSpec => []StrayInv
  <1>1. WorkerInit => StrayInv
    BY TokenInitially, StrayInitially DEF StrayInv
  <1> QED
    BY <1>1, StrayInductive, PTL DEF WorkerSpec

\* As long as no request asks for logprobs and no prefill has failed, every slot
\* is of a request that is served: a finished one that the first init_batched
\* would have moved into the batch has ended the worker, for the decode call
\* after it writes past the buffers (BufferRespected).
THEOREM NoSlotOutlives ==
    ASSUME WantsLogprobs = {}
    PROVE  WorkerSpec => []NoZombieSlot
  <1>1. StrayInv => NoZombieSlot
    BY DEF StrayInv, NoStrays, Strays, TooMany, NoZombieSlot
  <1> QED
    BY <1>1, StrayInvariant, PTL

-----------------------------------------------------------------------------
(* A decode step serves every cached request                               *)

\* A reply has an entry for each request of the batch.
LEMMA BatchServed ==
    ASSUME WorkerTypeOK, TakeReply(BatchReply), pc' = "finish",
           NEW r \in tick.cached \cap Batched
    PROVE  activeRequests'[r] = activeRequests[r] + 1
  BY DEF TakeReply, Deliver, BatchReply, WorkerTypeOK

LEMMA ServesCached ==
    ASSUME StrayInv, WantsLogprobs = {}, Batchable, Enough, WorkerNext,
           pc = "decode", pc' = "finish", Failed = {} \/ (maxBatch > 0 /\ Zombies = {}),
           NEW r \in tick.cached \cap (Live \cup Batched)
    PROVE  activeRequests'[r] = activeRequests[r] + 1
  <1>1. DecodePlain \/ DecodeLogprobs
    BY DEF WorkerNext, ExecuteModel, Schedule, SampleTokens, PrefillUniformGroup, PrefillFirstOfGroup,
       PrefillsDone, RemoveFinished, RemovesDone, AddNew, AddsDone, InitFirstTime, FinishOne,
       FinishesDone
  <1>2. DecodePlain /\ batchedInitialized
    BY <1>1 DEF DecodePlain, DecodeLogprobs, LogprobsTick
  <1>3. Zombies = {} /\ maxBatch > 0
    BY <1>1, <1>2, DecodeOver DEF StrayInv, NoStrays, Strays, BatchMade
  <1>4. r \in Batched
    <2>1. status[r] = "running" /\ r \in Requests
      BY DEF StrayInv, TokenInv, SeatInv, KeepInv, TickInv, Live, Batched
    <2>2. Live \cap Running = {}
      BY <1>3 DEF StrayInv, TokenInv, SeatInv, Seated, Strays, Unseated
    <2> QED
      BY <2>1, <2>2 DEF Running
  <1>5. TakeReply(BatchReply)
    BY <1>2, <1>3, <1>4 DEF DecodePlain, DecodeSemiBatched, NothingToDecode
  <1> QED
    BY <1>4, <1>5, BatchServed, SeatTypes DEF StrayInv, TokenInv

\* On a model that can be batched and with rows for all that may run, every
\* decode step gives each cached request that has a KV cache its token: none is
\* passed over because it was added late, moved to another slot or shares the
\* tick with a prefill, unless a prefill has failed.
THEOREM EveryTickServes ==
    ASSUME WantsLogprobs = {}, Batchable, MaxRunning <= MaxConcurrent, MaxRunning <= BudgetBatch
    PROVE  WorkerSpec => DecodeServesCached
  <1> DEFINE Serves ==
        pc = "decode" /\ pc' = "finish" /\ (Failed = {} \/ (maxBatch > 0 /\ Zombies = {}))
            => \A r \in tick.cached \cap (Live \cup Batched) :
                    activeRequests'[r] = activeRequests[r] + 1
  <1>1. Enough
    BY DEF Enough
  <1>2. StrayInv /\ [WorkerNext]_workerVars => [Serves]_workerVars
    BY <1>1, ServesCached
  <1> QED
    BY <1>2, StrayInvariant, PTL DEF WorkerSpec, DecodeServesCached

=============================================================================
