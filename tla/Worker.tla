------------------------------- MODULE Worker -------------------------------
(***************************************************************************)
(* SwiftMetalWorker.execute_model / sample_tokens (worker.py) driving the  *)
(* engine for the vLLM scheduler.  execute_model is one sequence of engine *)
(* calls, so it is cut at its calls: pc names the loop it is in and        *)
(* tick.todo what is left of that loop.  The scheduler is external: it     *)
(* admits waiting requests, schedules every running one, and reports the   *)
(* ids that finished since its last tick.                                  *)
(***************************************************************************)
EXTENDS BatchEngine

CONSTANTS
    Key,            \* (prompt length, temperature, top_p) of each request
    Vlm,            \* requests with pixel values
    WantsLogprobs,  \* requests with sampling_params.logprobs
    MayFail,        \* requests whose prefill may raise in the model library
    MaxRunning,     \* scheduler_config.max_num_seqs
    MaxTokens,      \* bound: output tokens of a request
    Overlap         \* whether a tick may admit requests while others decode

ASSUME WorkerAssumption ==
    /\ Vlm \subseteq Requests
    /\ WantsLogprobs \subseteq Requests
    /\ MayFail \subseteq Requests
    /\ MaxRunning \in Nat \ {0}
    /\ MaxTokens \in Nat \ {0}
    /\ Overlap \in BOOLEAN

VARIABLES
    pc,                   \* "idle", the loop execute_model is in, or how it died
    tick,                 \* the SchedulerOutput, and what is left of the loop
    batchedInitialized,   \* self._batched_initialized
    activeRequests,       \* length of self._active_requests[r], 0: no entry
    output,               \* req_ids of the ModelRunnerOutput being built
    status,               \* the scheduler's view of each request
    lastToken             \* history: last token put in an output for r

workerOnly == <<pc, tick, batchedInitialized, activeRequests, output, status, lastToken>>
workerVars == <<engineVars, workerOnly>>

Running == {r \in Requests : status[r] = "running"}
Finished == {r \in Requests : status[r] = "finished"}

WorkerInit ==
    /\ Init
    /\ pc = "idle"
    /\ tick = [new |-> {}, cached |-> {}, finished |-> {}, todo |-> {}]
    /\ batchedInitialized = FALSE
    /\ activeRequests = [r \in Requests |-> 0]
    /\ output = {}
    /\ status = [r \in Requests |-> "waiting"]
    /\ lastToken = [r \in Requests |-> Token(r, 0)]

\* The tokens of a reply go into the output of this tick.
Deliver(reply) ==
    /\ activeRequests' = [r \in Requests |->
            IF r \in DOMAIN reply THEN activeRequests[r] + 1 ELSE activeRequests[r]]
    /\ lastToken' = [r \in Requests |->
            IF r \in DOMAIN reply THEN reply[r] ELSE lastToken[r]]

\* Leave one loop of execute_model for the next, which has to go through S.
Enter(loop, S) ==
    /\ pc' = loop
    /\ tick' = [tick EXCEPT !.todo = S]

Did(S) == tick' = [tick EXCEPT !.todo = @ \ S]

-----------------------------------------------------------------------------
(* The scheduler                                                           *)

\* Mutant: a request that is already running is prefilled like a new one.
AllReqs(new) == new \cup Running

\* The requests execute_model starts with: scheduled_new_reqs.
NewReqs(new) == new

\* A SchedulerOutput.
NewTick(new) ==
    [new |-> new, cached |-> Running, finished |-> Finished, todo |-> NewReqs(new)]

Schedule(new) ==
    /\ pc = "idle"
    /\ \A r \in new : status[r] = "waiting"
    /\ new \cup Running \cup Finished # {}
    /\ Cardinality(new \cup Running) <= MaxRunning
    /\ Overlap \/ new = {} \/ Running = {}
    /\ tick' = NewTick(new)
    /\ pc' = "prefill"
    /\ status' = [r \in Requests |-> IF r \in new THEN "running"
                                     ELSE IF r \in Finished THEN "done" ELSE status[r]]
    /\ UNCHANGED <<engineVars, batchedInitialized, activeRequests, output, lastToken>>

\* sample_tokens hands the output over; the scheduler may finish any request
\* that got a token, and finishes it at MaxTokens.
SampleTokens(stop) ==
    /\ pc = "sample"
    /\ stop \subseteq {r \in output : activeRequests[r] > 0}
    /\ \A r \in output : activeRequests[r] >= MaxTokens => r \in stop
    /\ status' = [r \in Requests |-> IF r \in stop THEN "finished" ELSE status[r]]
    /\ output' = {}
    /\ Enter("idle", {})
    /\ UNCHANGED <<engineVars, batchedInitialized, activeRequests, lastToken>>

-----------------------------------------------------------------------------
(* execute_model: prefills                                                 *)

\* Requests of this tick that are prefilled together with r.
Group(r) == IF r \in Vlm THEN {r} ELSE {q \in tick.todo \ Vlm : Key[q] = Key[r]}

\* A group of two or more with nothing decoding calls prefill_batched_uniform,
\* which SwiftInferenceEngine does not have.
PrefillUniformGroup(r) ==
    /\ pc = "prefill"
    /\ r \in tick.todo
    /\ Cardinality(Group(r)) >= 2 /\ tick.cached = {}
    /\ pc' = "attribute_error"
    /\ UNCHANGED <<engineVars, tick, batchedInitialized, activeRequests, output,
                   status, lastToken>>

\* prefill_req or prefill_vlm: the first token, and a session; or -1, and none.
Prefill(r, first) ==
    \/ /\ first = PrefillReply(r)
       /\ IF r \in Vlm THEN PrefillVlm(r) ELSE PrefillReq(r)
    \/ /\ r \in MayFail /\ first = Blank
       /\ UNCHANGED engineVars

\* Otherwise the group's first request is prefilled, and the loop goes on to
\* the next group.  A -1 is delivered like a token.
PrefillFirstOfGroup(r) ==
    /\ pc = "prefill"
    /\ r \in tick.todo
    /\ Cardinality(Group(r)) < 2 \/ tick.cached # {}
    /\ r \in Vlm => tick.todo \subseteq Vlm
    /\ \E first \in {PrefillReply(r), Blank} :
          Prefill(r, first) /\ Deliver([q \in {r} |-> first])
    /\ output' = output \cup {r}
    /\ Did(Group(r))
    /\ UNCHANGED <<pc, batchedInitialized, status>>

\* Mutant: remove_batch_slot runs only when there are cached requests to decode.
PrefillsDoneIfCached ==
    /\ pc = "prefill"
    /\ tick.todo = {}
    /\ Enter("remove", IF batchedInitialized /\ tick.cached # {} THEN tick.finished ELSE {})
    /\ UNCHANGED <<engineVars, batchedInitialized, activeRequests, output, status, lastToken>>

PrefillsDone ==
    /\ pc = "prefill"
    /\ tick.todo = {}
    /\ Enter("remove", IF batchedInitialized THEN tick.finished ELSE {})
    /\ UNCHANGED <<engineVars, batchedInitialized, activeRequests, output, status, lastToken>>

-----------------------------------------------------------------------------
(* execute_model: the slots of the batch, return codes ignored             *)

RemoveFinished(r) ==
    /\ pc = "remove"
    /\ r \in tick.todo
    /\ IF batchSlots[r] # NoSlot THEN RemoveBatchSlot(r) ELSE UNCHANGED engineVars
    /\ Did({r})
    /\ UNCHANGED <<pc, batchedInitialized, activeRequests, output, status, lastToken>>

\* Mutant: add_batch_slot runs only when there are cached requests to decode.
RemovesDoneIfCached ==
    /\ pc = "remove"
    /\ tick.todo = {}
    /\ Enter("add", IF batchedInitialized /\ tick.cached # {} THEN tick.new ELSE {})
    /\ UNCHANGED <<engineVars, batchedInitialized, activeRequests, output, status, lastToken>>

RemovesDone ==
    /\ pc = "remove"
    /\ tick.todo = {}
    /\ Enter("add", IF batchedInitialized THEN tick.new ELSE {})
    /\ UNCHANGED <<engineVars, batchedInitialized, activeRequests, output, status, lastToken>>

AddNew(r) ==
    /\ pc = "add"
    /\ r \in tick.todo
    /\ IF session[r] # NoSession /\ RoomForSlot
       THEN AddBatchSlot(r)
       ELSE UNCHANGED engineVars
    /\ Did({r})
    /\ UNCHANGED <<pc, batchedInitialized, activeRequests, output, status, lastToken>>

AddsDone ==
    /\ pc = "add"
    /\ tick.todo = {}
    /\ Enter(IF tick.cached = {} THEN "finish" ELSE "decode",
             IF tick.cached = {} THEN tick.finished ELSE {})
    /\ UNCHANGED <<engineVars, batchedInitialized, activeRequests, output, status, lastToken>>

-----------------------------------------------------------------------------
(* execute_model: decoding the cached requests                             *)

InitFirstTime ==
    /\ pc = "decode"
    /\ ~batchedInitialized
    /\ IF Batchable /\ Live # {} THEN InitBatched ELSE UNCHANGED engineVars
    /\ batchedInitialized' = TRUE
    /\ UNCHANGED <<pc, tick, activeRequests, output, status, lastToken>>

\* What the engine wrote into buffers of len(cached) entries.  Entries past
\* their end raise IndexError when they are read back; of the others, those of
\* cached requests become output.
TakeReply(reply) ==
    IF Cardinality(DOMAIN reply) > Cardinality(tick.cached)
    THEN /\ pc' = "index_error"
         /\ UNCHANGED <<tick, activeRequests, output, lastToken>>
    ELSE /\ Deliver([r \in tick.cached \cap DOMAIN reply |-> reply[r]])
         /\ output' = output \cup tick.cached
         /\ Enter("finish", tick.finished)

NoReply == [r \in {} |-> Blank]

\* A request that was never prefilled has no entry in _request_params.
LogprobsTick == \E r \in tick.cached \cap WantsLogprobs : activeRequests[r] > 0

NothingToDecode == (maxBatch = 0 \/ Batched = {}) /\ Live = {}

DecodePlain ==
    /\ pc = "decode"
    /\ batchedInitialized
    /\ ~LogprobsTick
    /\ \/ DecodeBatch /\ TakeReply(BatchReply)
       \/ \E S \in SUBSET Live :
            DecodeSemiBatched(Cardinality(tick.cached), S) /\ TakeReply(SemiReply(S))
       \/ NothingToDecode /\ UNCHANGED engineVars /\ TakeReply(NoReply)
    /\ UNCHANGED <<batchedInitialized, status>>

DecodeLogprobs ==
    /\ pc = "decode"
    /\ batchedInitialized
    /\ LogprobsTick
    /\ \/ DecodeLogprobsBatch /\ TakeReply(LogprobsReply)
       \/ DecodeLogprobsFallback /\ UNCHANGED <<pc, tick, activeRequests, output, lastToken>>
       \/ Live = {} /\ UNCHANGED engineVars /\ TakeReply(NoReply)
    /\ UNCHANGED <<batchedInitialized, status>>

-----------------------------------------------------------------------------
(* execute_model: clean-up                                                 *)

FinishOne(r) ==
    /\ pc = "finish"
    /\ r \in tick.todo
    /\ FinishReq(r)
    /\ activeRequests' = [activeRequests EXCEPT ![r] = 0]
    /\ Did({r})
    /\ UNCHANGED <<pc, batchedInitialized, output, status, lastToken>>

FinishesDone ==
    /\ pc = "finish"
    /\ tick.todo = {}
    /\ Enter("sample", {})
    /\ UNCHANGED <<engineVars, batchedInitialized, activeRequests, output, status, lastToken>>

ExecuteModel ==
    \/ \E r \in Requests : PrefillUniformGroup(r)
    \/ \E r \in Requests : PrefillFirstOfGroup(r)
    \/ PrefillsDone
    \/ \E r \in Requests : RemoveFinished(r)
    \/ RemovesDone
    \/ \E r \in Requests : AddNew(r)
    \/ AddsDone
    \/ InitFirstTime
    \/ DecodePlain
    \/ DecodeLogprobs
    \/ \E r \in Requests : FinishOne(r)
    \/ FinishesDone

WorkerNext ==
    /\ ~hung
    /\ \/ \E new \in SUBSET Requests : Schedule(new)
       \/ ExecuteModel
       \/ \E stop \in SUBSET Requests : SampleTokens(stop)

WorkerSpec == WorkerInit /\ [][WorkerNext]_workerVars

\* EngineCore's busy loop ticks for as long as some request is unfinished.
FairWorkerSpec == WorkerSpec /\ WF_workerVars(WorkerNext)

-----------------------------------------------------------------------------
(* Properties                                                              *)

\* Types of the worker's state.
WorkerTypeOK ==
    /\ TypeOK
    /\ pc \in {"idle", "prefill", "remove", "add", "decode", "finish", "sample",
               "attribute_error", "index_error"}
    /\ tick \in [new : SUBSET Requests, cached : SUBSET Requests,
                 finished : SUBSET Requests, todo : SUBSET Requests]
    /\ batchedInitialized \in BOOLEAN
    /\ activeRequests \in [Requests -> Nat]
    /\ output \subseteq Requests
    /\ status \in [Requests -> {"waiting", "running", "finished", "done"}]
    /\ lastToken \in [Requests -> Cell]

\* The worker is a client of the kind the engine's invariants are proved for:
\* no call it makes reuses a request id that still has a session or a slot.
KeepsEngineContract == Spec

\* The requests whose prefill returned -1.
Failed == {r \in Requests : lastToken[r] = Blank}

\* No request the worker is still serving has lost its KV cache: it stays in a
\* session or a slot from prefill to clean-up, across the first init_batched
\* and every add and removal for other requests, those whose prefill failed
\* among them.
ServedHasKV ==
    \A r \in Requests \ Failed : activeRequests[r] > 0 /\ status[r] = "running"
                                     => r \in Live \cup Batched

\* Between ticks nothing is kept for a request that was cleaned up, and no
\* finished request is forgotten before it is: the engine session and the
\* worker's two dictionaries are released together.
NoSessionLeak ==
    pc = "idle" => \A r \in Requests : status[r] \in {"waiting", "done"}
                        => session[r] = NoSession /\ activeRequests[r] = 0

\* bridge.h: max_reqs is the capacity of the caller's buffers, and the engine
\* writes no more entries than that.
BufferRespected == pc # "index_error"

\* Every scheduled request has an entry in the tick's output.
OutputCoversScheduled == pc = "sample" => output = tick.new \cup tick.cached

\* A token put in the output of a request was generated for that request.
NoCrossTalk == \A r \in Requests \ Failed : lastToken[r].req = r

\* The slots of requests that are gone.
Zombies == {r \in Batched : status[r] = "done"}

\* Between ticks the batch holds requests that are still being served and no
\* others: clean-up frees the KV cache of a finished request; unless a prefill
\* failed (README, Divergences).
NoZombieSlot == pc = "idle" /\ Failed = {} => Zombies = {}

\* A decode step gives every cached request that has a KV cache a token; unless
\* a prefill failed, and there is no batch or one with a slot of a request that
\* is gone (README, Divergences).
DecodeServesCached ==
    [][pc = "decode" /\ pc' = "finish" /\ (Failed = {} \/ (maxBatch > 0 /\ Zombies = {}))
        => \A r \in tick.cached \cap (Live \cup Batched) :
                activeRequests'[r] = activeRequests[r] + 1]_workerVars

\* Once there is a batch, a request's cache is copied into it in the tick that
\* made its session: none is left in a session, where decode_all over the
\* batch never looks; as long as no slot is lost to a request that is gone.
NoStarvedSession ==
    maxBatch > 0 /\ pc = "finish" /\ Zombies = {} => Live \cap Running = {}

\* Every request the scheduler admits is decoded to its end, unless its own
\* prefill fails (README, Divergences); another's costs it nothing.
EveryRequestEnds ==
    \A r \in Requests : status[r] = "running" ~> status[r] = "done" \/ r \in Failed

=============================================================================
