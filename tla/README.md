# Verification of vllm-swift

TLA+ specifications of the parts of vllm-swift whose correctness depends on the
order of calls, the TLC configurations that check them on small instances, and
TLAPS proofs of the results that matter most. Paths below are relative to the
repository root (`src/` in `PROJECT.json`). `PROJECT.json` maps every definition
to the lines it stands for, lists the runs, and names for each property a
mutation of the code that it catches.

## 1. The system

vLLM schedules requests; a Swift library computes them. Between the two:

| Component | State it keeps | Operations | Hard behaviour |
|---|---|---|---|
| **Dense batch engine** (`Bridge.swift`, `InferenceEngine`) | `sessions` (a TokenIterator and KV cache per request), `batchSlots`, `batchTokens`, `batchedCaches` (rows, `active`), `pendingSampledTokens`, `pendingSampledB` | the C entry points: prefill, init_batched, add/remove_batch_slot, prefill_batched_uniform, decode_all, decode_all_logprobs, decode_step_req, finish_req, reset | KV moved between sessions and slots; swap removal; one sampled token in flight; three decode paths that must agree on which token was returned last |
| **Worker** (`worker.py`, `SwiftMetalWorker`) | `_active_requests`, `_request_params`, `_batched_initialized`, the pending output | `execute_model`, `sample_tokens` | one tick is a long sequence of engine calls whose return codes are ignored; arrivals, decoding and ends fall in the same tick |
| **ctypes bridge** (`engine_bridge.py`) | the engine handle | one method per entry point, with output buffers of `max_reqs` entries | buffer capacity |
| **Static-batch clients** (`scripts/test_batched_quality.py`, `scripts/bench_throughput.py`) | none | reset, prefill all, init_batched, decode_all ..., finish | request ids used again for the next batch |
| **Hybrid batch** (attention and GDN layers) | `batchedHybridCaches` and the same slot map | the hybrid branches of the entry points | partial failure in the middle of a copy |
| **Sparse decode** | `sparseSessions`, `batchedSparseCaches` | prefill and decode of RetrievalAttention | shared caches that are built once |
| **Response rewriter** (`response_rewriter.py`) | a buffer and a mode per choice of a stream | `rewrite_request`, `rewrite_chat_completion`, `stream_rewriter`, `stream_tool_recovery`, the aiohttp proxy | two buffering transformers in a chain; end of stream, finish_reason and `[DONE]` in any combination; the same answer whole and streamed; client disconnects |
| **longctx enrichment** (`response_rewriter.py`) | none | retrieve, drop what is irrelevant, format a bounded block, splice it into the messages | messages of any shape; a block exactly at its cap |
| **Launch of serve** (`cli.py`, `_serve`) | what it has made of its arguments; the sidecar | read options, start the longctx sidecar, detect parsers, decide on the proxy, choose ports, build the command | options read by scans of their own, some first, some last; two processes that must agree on ports, parsers and context length; ways out that skip the exit handler |
| **Parser detection** (`detect_tool_parser.py`, `detect_reasoning_parser.py`) | none | model directory to parser | two sets of tables in separate modules |
| **serve** (`cli.py`) | the child process | spawn, wait for ready, run the proxy, shut down; or run vLLM in the foreground | crash of the child before or after its own children; signals; timeouts |
| **Platform plugin, other commands, install scripts** | configuration | one-time patches, printing, downloads | none that a model checker reaches |

The worker calls the engine through the bridge, synchronously. Every entry point
runs inside `engineQueue.sync` on one serial queue, so the engine sees one call at
a time; what interleaves is not threads but *calls for different requests*. The
scheduler hands the worker a `SchedulerOutput` (new, cached and finished ids) and
takes back the tokens. `serve` detects the model's parsers, starts vLLM, and puts the rewriter
proxy, which sees only HTTP, in front of it where parsers, architecture or retrieval call for it.

What makes each part correct:

- engine: slots dense, rows follow their requests, each KV cache in one place,
  counters in step, every request gets exactly its own tokens in order;
- worker: no served request loses its KV cache, nothing leaks, every decode
  serves every cached request, every request ends, and the engine's contract is
  kept;
- rewriter: no text lost, duplicated or reordered, one finish_reason, last; the same tool calls and the same
  thinking whether an answer is streamed or not; a budget within the context;
- enrichment: what the client said reaches vLLM, in its order and roles, with one block of bounded size;
- launch: vLLM runs with what the user asked for and no more than detection adds, the proxy knows what vLLM runs
  with, and a sidecar is there for a proxy or not at all;
- serve: it ends when asked to, and leaves no engine core running that it has not told to stop.

## 2. Modules

| Module | Models | Extends / uses |
|---|---|---|
| `BatchEngine` | the dense engine and a client that calls it in any order | |
| `StaticBatch` | the engine under a client that decodes one batch at a time | `BatchEngine`, `TokenStream` |
| `TokenStream` | what such a client is promised: every request's tokens 1, 2, 3, ... in order, all requests of a batch in each step | |
| `Worker` | `execute_model` and `sample_tokens` over an external scheduler | `BatchEngine` |
| `HybridBatch` | the batch of hybrid models: rows and counts per layer, copies that fail in the middle | instances of `BatchEngine` |
| `Rewriter` | what the rewriter does to one request, to an answer in one piece and to one choice of a chunk, as functions | |
| `Enrichment` | what retrieval adds to the messages of a request, as functions | |
| `Proxy` | a chat completion, streamed or not: request, chain of the two stages, client, vLLM | `Rewriter`, `Enrichment` |
| `Detection` | the parsers of a model, as functions of its directory | |
| `ServeLifecycle` | the processes of `serve`: spawn, readiness, signals, crashes, shutdown | |
| `Launch` | `serve` from its arguments to these processes, and the sidecar's end | `ServeLifecycle`, `Detection` |
| `BatchEngineProofs`, `StaticBatchProofs`, `WorkerProofs`, `ProxyProofs`, `ServeProofs`, `LaunchProofs`, `HybridProofs` | theorems | the module they are about; the worker's, the proxy's and the launch's also `SequenceLemmas` |
| `SequenceLemmas` | facts about sequences, least elements, recursion and `FlattenSeq` that several proofs need | |
| `MCBatchEngine`, `MCStaticBatch`, `MCWorker`, `MCHybrid`, `MCProxy`, `MCServe` | request keys, budgets and answers for TLC | |

### BatchEngine

The variables have the names of the fields. `session[r]` stands for
`engine.sessions[r]` (0 when there is none), `kv[s]` for the rows `s` of all layers of
`batchedCaches`, `maxBatch` for `bCaches[0].maxBatch` (0 when `batchedCaches` is nil).

*Tokens.* A token is a pair of the request and its position in what the model would
generate for it. A KV cache is named by the last generated token it holds, so
`session[r] = n` and `kv[s] = Token(r, n)` say that n tokens were fed after the
prompt. `Forward` feeds a row one token. Feeding any other than the next token of
its own request leaves the row at position 0, *corrupt*: that is how a wrong token
stays visible, without modelling a single float. `Sample` is the argMax of a row.
These two are external (mlx-swift-lm), modelled from their use.

*Prefill.* `TokenIterator.init` samples token 1; its `next()` feeds it, keeps token 2 in
`y` and returns token 1. A fresh session therefore holds one token, and `y` is
always `session[r] + 1`.

*Decoding.* `decode_all` over a batch is `DecodeAsync` when a token is pending
and the batch size is unchanged, else `DecodeSync`; without a batch it is
`DecodeSemiBatched`, which steps the first `max_reqs` keys of a dictionary, hence
any subset of that size. The replies (`BatchReply`, `SemiReply`, `LogprobsReply`) are
operators over the state *before* the call. `AllGreedy` is translated as
written, and is true in all reachable states: see section 6.

*Enumeration of a dictionary* (`SlotNumberings`) is any bijection on `0 .. B-1`.

*The client of `Spec`* respects one contract: an id that has a session or a slot is not
prefilled (`Fresh`). Everything else comes in any order. `KeepsEngineContract`
shows that the worker is such a client.

### Worker

`execute_model` is cut at its engine calls. `pc` names the loop it is in (`prefill`,
`remove`, `add`, `decode`, `finish`, `sample`) and `tick.todo` the requests the loop has
still to visit: Python iterates over sets and lists in an order the scheduler
determines, so the model visits them in any order, with one exception that the
code imposes (VLM requests after the groups). `pc = "attribute_error"` and
`"index_error"` are the exceptions that end the worker. Return codes are ignored,
as in the code: an `add_batch_slot` that fails changes nothing. `Prefill` fails for any of the
requests of `MayFail`, whenever the model library raises: the engine then has no session, and the worker
takes the -1 it returns for a token (`Blank`), which is how `Failed` knows these requests.

The scheduler (`Schedule`, `SampleTokens`) is external: it admits waiting requests up
to `max_num_seqs`, schedules all running ones, may stop a request at any token
and must at `MaxTokens`, and reports ended requests in the next tick. It does not
preempt: the plugin gives it no memory pressure to do so.

`decode_all` writes one entry per slot into buffers of `len(cached)` entries. A write past
the end of a ctypes array has no defined outcome; the model takes the outcome
with memory intact, the IndexError when the entry is read back.

### HybridBatch

The state of `BatchEngine`, but `rows[l]` and `actives[l]` for every layer `l`. `Layer(l)` is the dense engine as
that layer has it, an instance of `BatchEngine` whose operators the module uses wherever the code has the same
logic. `FailsAt[r]` is the layer at which copying r's caches fails (a cache of another class than
the copy expects, or an empty one): the code tells these cases apart only by returning -1. `removeSlot`
and the forward pass are mlx-swift-lm's; `removeSlot` is taken to move each layer's own last row. A row whose
layers hold different things yields garbage (`InStep`). Clients call in any order and with any number of requests; they
add a request once. A slot that `batchTokens` or the rows lack (`Reach`) ends the process (`Traps`): an add to a full batch, which the
dense engine refuses and this one does not look for, and a decode over more slots than the old cache has rows.

### Launch

Arguments are options in the order given; `--f v` and `--f=v` are the same option. A scan of one flag is `With`, what a
strip leaves `Without`; a port or a length that is no number is `NoNumber`, while `--port 0` is the number 0. Both put together what is left of each option (`FlattenSeq`), as the table look-up `FirstIn` takes
the least row, because the prover knows neither of filters nor of searches in a sequence. `phase` says how far `_serve` has got
(`called`, `parsed`, `retrieval`, `detected`, `ready`, `over`), `job` what it has made of its arguments (its locals),
`env` what it finds: environment variables, vLLM's registries, ports in use, model directories, whether the sidecar
is installed. `CommandDirect` and `CommandBehindProxy` build the two command lines; `ProxySettings` is what
`run_rewriter` will be called with. `StartVllm` hands over to `ServeLifecycle`, and the launch is forgotten, since
nothing looks at it any more. From then on a step is one of `ServeLifecycle`'s, plus what it does to
the sidecar: its exit handler runs when serve returns and when KeyboardInterrupt ends it, not when SIGTERM meets the
default handler (`StopsSidecar`).

### StaticBatch and TokenStream

`StaticBatch` runs the loop of the scripts, with the prefilled requests in any
number and order, and request ids reused after a reset (the old batch is still in
the engine then). `Stream` maps it to `TokenStream`: the batch is the set of slots,
the counts and last tokens are the client's.

### Rewriter and Proxy

*Text* is a sequence of pieces: the thinking prefix, a newline, a word, the opening markers of the four shapes of
leaked tool calls, and the body of a call, valid (`call`) or not (`void`). That is as much as the code's regular
expressions tell apart: a transition marker is a newline and what follows it, so that two
deltas can cut it; the opening marker of one shape comes in two halves. Both thresholds of 32
characters are `Threshold` pieces. `RecoverToolCalls` tries the shapes in the code's order and takes
the first with a valid call whose blocks fill half of the text; `StripMatches` then removes all blocks of that shape.

*An answer in one piece* (`RewriteChoice`) is split by `SplitThinkingPrefix` and searched for calls.

*Stages.* `SplitChoice` and `RecoverChoice` are the loop bodies of `stream_rewriter` and
`stream_tool_recovery`: a function of the state of a choice and a choice of a chunk to the new
state and the choices forwarded. `in_reasoning` and `transition_seen` change together, so the
model has the first only. The roles, ids and metadata of chunks are left out, and so
is the framing of events in bytes.

*Proxy.* `Forward` rewrites the request, with whatever retrieval returns, or passes it on raw where the code gives up.
vLLM then answers in one piece (`AnswerWhole`) or with a stream (`Open`). The generators pull one chunk at a time
through both stages, so an action is one event of vLLM's, taken through the chain to the client (`Deliver`).
The client is taken to append deltas of the same field (`Reads`), so that `got` does not depend on how a text was
cut. vLLM is external: content
in deltas of any size, an empty one first or with the finish reason at the end, perhaps after reasoning, perhaps with a tool call its own parser
has found, a finish reason with the last delta or in a chunk of its own or not at all,
usage, `[DONE]` or a broken connection. A write to a client that has left raises, and
the handler closes the upstream response (`Cancel`). `thought`, `said`, `tooled`, `ended`, `cut` and
`void` are history: what vLLM has sent, for the properties to compare with what the client `got`.

### Enrichment

A message keeps its role, whether its content is a list, and its texts; a chunk of retrieved code only its sizes and
whether its score passes the floor. `FormatBlock` folds `AddChunk`, the body of the loop, over the chunks, with the code's
character counts: header, fence, room left, truncation mark. `Splice` puts the block in front of the first system
prompt, or makes one. The retrieval service is external.

### Detection

A model directory is its architecture, the parts of its name and the marks of its chat template that the detectors
look for. An architecture is a sequence of name pieces, so that `IsPrefix` is `startswith`. Tables are sequences of
rows in the code's order, of which the first that fits wins (`FirstIn`).

### ServeLifecycle

`pc` is `launching` until there is a process, then `direct` (`subprocess.call` waits for vLLM) or follows
`_serve_with_rewriter`: `spawned` (Popen has returned), `waiting` (the readiness loop),
`aborting` (never ready), `proxy`, then the finally block: `shutdown`, `reaping` (`proc.wait(timeout=10)`),
`sweep` (the hunt for engine cores), `exited`. A process is `alive`, `dead` (nobody has waited for it) or
`reaped`; the distinction matters, because `_shutdown_pgroup` polls, and so reaps, first, and
because a reaped pid has no process group any more, which is what `_kill_orphan_engine_cores` asks
for (`Hunted`). vLLM is external: the server starts cores as long as nobody told it to stop, any
process may die at any time, and none has to die of a SIGTERM.

Signals for serve fall between any two steps. `own` says whose handlers they meet: before they are
installed and after `run_app`, which removes its own and leaves Python's defaults, nobody's
(`SignalDeadly`); in between serve's own (`SignalHandled`), which does not end serve; during the proxy
aiohttp's (`SignalProxy`). `subprocess.call` has none; SIGINT makes it kill the server it waits for
(`InterruptDirect`). Timeouts are choices: a deadline may come before any answer. The pid is not
used again by another process.

## 3. Runs

The engine and worker runs have three requests, `MCWorker` four. Passing runs:

| Run | Question | Bounds |
|---|---|---|
| `MCBatchEngine` | do slots, rows, sessions and counters stay consistent under any order of calls? | 2 slots for 3 requests (an add fails at capacity, removals swap), caches of 2 tokens (a wrong feed shows after one) |
| `MCStaticBatch` | does every request of a batch get its tokens in order, and is this `TokenStream`? | 5 tokens: one synchronous and several pipelined steps; batches of 1 to 3, one after another |
| `MCWorker` | under overlapping arrivals, does the worker keep the contract, lose or leak no KV cache, and give every request a slot and a token in each decode? | `max_num_seqs` 2, one VLM request, 3 tokens, two requests whose prefill may fail; the fourth request is the one that a slot left behind by an earlier one could starve |
| `MCWorkerSingle` | one request at a time: does every request end? | one slot, three requests in turn, 4 tokens, two whose prefill may fail |
| `MCWorkerTight` | memory for one slot, like requests grouped, logprobs: is any KV cache of a served request lost, or a session leaked? | 3 running, 3 tokens, one whose prefill may fail |
| `MCHybrid` | do all layers stay in lockstep, each a dense engine, until a copy fails or an add traps? is the slot map still dense after copies that fail, and are there tokens and rows for every slot the scheduler's limit allows? | two layers, a copy failing between them; `max_num_seqs` 2 for three requests, so that adds meet a full batch, also after an `init_batched` over three sessions has made room for all; caches of 3 tokens; once a copy has failed states that differ only in rows and tokens are one (a VIEW), since slots and counts do not depend on them; what lies beyond the slots in use, which is written before it is read, is left out of the VIEW too |
| `MCProxy` | with either stage on or off, is text conserved and in order, a call never shown twice, the finish reason last, thinking split and calls found as in whole answers, a client gone noticed, a budget within the context, the conversation kept and the block within its cap? | 79 answers of up to 9 pieces, stopped anywhere, in one piece or in every cutting into deltas of one or two pieces; threshold of two pieces; 128 requests around every limit of the budget; 10 conversations, one with its system prompt after the question; 23 retrievals around every limit of the block |
| `MCServe` | does every launch hand vLLM and the proxy what was asked for? wherever signals, deadlines and deaths fall then, are all engine cores told to stop, the sidecar with them, and does serve end? | every command of up to three of 18 options, in five surroundings; every architecture of the tables with every mark, every template; then a server and two engine cores, so that one may start, or die, around any step of the shutdown while the other lives |

Three requests are the smallest number with a first, a middle and a last slot, so
that a swap removal moves a row past another one; two slots for them are the
smallest batch at its limit. Positions beyond the bounds repeat the states before:
nothing in the code looks at a position. A threshold of two pieces is reached by a
prefix and a word, by both halves of a marker, and by neither alone; the longest answers
have every phase of both stages in one stream: prefix, reasoning, marker, call, text after it.
Three options are a flag twice and another one between or around them, which is as much as scans of one
flag each can confuse; no scan looks at two flags at once, but for the two longctx switches. The surroundings have
each port the options lead to both free and in use, and registries that know both, one or neither of the parsers.

Runs that show a disagreement (section 6): `MCWorkerCrossTalk`, `MCWorkerBuffer`,
`MCWorkerDropped`, `MCProxySplit`.

Deadlock is not checked, because all of these systems stop: clients at the bound of
tokens, the worker when all requests are done or an exception has ended it, a stream
when it has ended, serve when it has exited.

## 4. Fairness

`FairWorkerSpec`: weak fairness of `WorkerNext` as a whole. EngineCore's
busy loop calls the scheduler and `execute_model` for as long as a request is unfinished,
and one step is always possible then; no particular choice of the scheduler is
assumed. That a request ends follows from the bound on its tokens, *provided each
tick gives it one*, which is what `EveryRequestEnds` is about: a request that is left
out of decoding would be scheduled for ever.

`FairLaunchSpec` (and `FairServeSpec`, without the launch): weak fairness of the steps serve takes by itself,
`LaunchStep` before there is a process and `Behind` after. Each is a statement of a running
program or a wait with a timeout; the waits without are for a process that was killed, which must die, and
`subprocess.call`, whose end (`DirectEnds`) is enabled only once the server is dead. Nothing
is assumed of vLLM, which may ignore SIGTERM for ever, nor that the proxy ever ends.

## 5. Proofs

Each theorem holds for every value of the constants that the assumptions allow: any finite set of requests, any number of
slots, any order of calls, answers of any length in any cut, any arguments.

*Engine* (`BatchEngineProofs`). `EngineInv` is the conjunction of the type invariant and of
`SlotsDense`, `SlotHoldsItsRequest`, `KVInOnePlace`, `ActiveMatches` and `WithinCapacity`. None of
these is inductive alone: a swap removal keeps rows with their requests only
because slots are dense (the last row belongs to one request), an add keeps slots dense only
because the request has no slot yet (`KVInOnePlace`), and adds stay within the rows
only because `active` and the slots agree. One lemma for each operation shows that it
preserves `EngineInv`; the lemmas on bijections and cardinalities they rest on come
first. `RowsSurvive` derives the action property from it. `RepliesGenuine` adds `Genuine`: every entry of `batchTokens` and of
the pending tokens that a slot in use points at was sampled for some request. So what a decode returns is never the
unwritten start of a buffer, though it may be another request's token (section 6).

*Static batches* (`StaticBatchProofs`). `StaticInv` says, beyond the engine's types, what
is in flight: while a batch decodes, either nothing is pending and `batchTokens` holds
the next token of every row, or the pending tokens do and `pendingSampledB` is the
batch size (`Decoding`); while it loads, a prefilled request has received one token
(`Loaded`). From it `InOrder` (`BatchedDecodeInOrder`), and that each step is a step of
`TokenStream` or changes nothing of it (`ImplementsStream`). Both assume `Batchable`:
without batched decode the claim is false (section 6).

*Worker* (`WorkerProofs`). Every call the worker makes is a step of the engine's
`Next`, so `EngineInv` carries over (`EngineSafeUnderWorker`). The one call that needs a
reason is prefill, whose request must be `Fresh`. `WorkerInv` strengthens the types by:
a request the worker has not prefilled yet has neither session nor slot, and a
request in the prefill loop was admitted by this tick. `ContractKept` is the refinement
`WorkerSpec => Spec`.

`KVKeptWhileServed` and `NothingLeaks` rest on `KeepInv`, which follows each request through the loops of a
tick. A running request that has got a token has a session or a slot (`Served`); `CallSparing(q)` lists the calls that take
nothing from q, and every call of the worker is one of them for a running q, because the ids it removes and
finishes are done (`TickInv`) and the first `init_batched`, which would drop every slot, comes when there is none
(`NoBatchYet`). A done request is cleaned up or still due in this tick (`Released`, `Due`), and the scheduler stops
no request twice, since only one with an entry in `_active_requests` has a token to stop at.

`NoneStarved` rests on `SeatInv`. The rows are paid for (`RowsPaid`): once there is a batch it has as many as requests may
run. `TickShape` says that those that run are the tick's new and cached ones and no more than `MaxRunning`; `Seated`, that
in each loop of the tick the ones outside the batch are those the loop has still to add. Then an add finds a free row by
counting: slots are of running requests (`Strays = {}`), the one that is added has none, so fewer than `MaxRunning` are taken.
`TokenInv` adds that a failed prefill leaves its request `Fresh` and marked for good. `StrayInv` gives `NoSlotOutlives`: up to
the first `init_batched` all running requests have been prefilled (`Prefilled`), so a request that ends in that very tick is
in the batch besides the cached ones, and the decode call that follows ends the worker at its buffers (`TooMany`; this is
`BufferRespected`, section 6). Every other slot is freed in the tick that reports its request finished. `EveryTickServes` follows for decode steps. Hypotheses, each of
which the code leaves to its configuration: `MaxRunning` within `MaxConcurrent` and `BudgetBatch` for
`NoneStarved` and `EveryTickServes`, no request that asks for logprobs for the last two, `Batchable` for the last. Without
them the claims are false, as section 6 says.

*Proxy* (`ProxyProofs`). `BudgetAlwaysSound`: for any requests and context lengths the forwarded
`max_tokens` is the client's own, or larger and within the half of the context that is not
the prompt's. The lemma `BumpFits` is the arithmetic of the integer division; the
invariant `Asked` adds that `request` still holds one of `Asks` when it is rewritten.

Of streams and whole answers, the inductive invariant is `Flows`: the states of the stages have their types and fit each
other (`ChainOK`, `Faithful`), what the client has and the two stages hold is, word for word, what vLLM has generated
(`AllText`), and no call is in two of these places (`AllCalls`). Neither conjunct survives alone: a stage
conserves what it holds only in the states the other stage lets it reach. One lemma for each
stage (`SplitChoice`, `RecoverChoice`) says what it does to the text and the calls of one choice, one puts them in a chain for
a chunk, one (`ChainSound`, `DeliverSound`) takes the chunk to the client. `RewriteSound` is the same for an answer in one
piece. From `Flows` follow `NoWordLost`, `NoCallTwice`, `AnswerConserved` and `VoidBounded`. `TypeCorrect` adds to the
types what a stage that has not decided may hold (`UndecidedStep`): stream_rewriter less than the threshold, stream_tool_recovery less than the
threshold or a text that may still open a call (`MayOpen`): white space of any length, or white space and a half of a marker.
Three invariants relate a stream to the whole text: `Finishing` (nothing follows the finish reason, which the client
has when vLLM has given it), for `OneFinish`; `Sighted` (as long as the answer goes on, what the recovery stage holds and has decided is what
`ClassifyStreamingBuffer` makes of all the text so far), for `StreamRecovers`; and
`Dividing`, for `StreamSplits`: as long as no delta cuts a marker, the reasoning and the answer the client has are a division of
the text so far at its first transition marker, because a marker in a text is in one of its two
halves or across the cut. It needs a threshold of at least two pieces, so that the decision sees
all of the prefix.

Of a request: `Filled` says of the fold in `FormatBlock` that after n chunks the block is a first part of them
in order, closed at the first without room, hence `BlockAlwaysFits`. `MessagesAlwaysKept` says of `Splice`, for conversations
of any shape and length, where the block is (`BlockBetween`, `SpliceSaysBlock`), that without it they say what they
said, and that the last question is the same (`QuestionKept`).

*Sequences* (`SequenceLemmas`). What folds, filters and recursive functions compute is proved by
induction, but not with the library's induction theorem, which no installed prover can instantiate. `SequenceInduction` takes the set of lengths
at which a claim fails and its least element (`MinIsLeast`); `RecursionExists` shows in the same way that a function defined by
recursion over a sequence has a value at every step. `FlattenSeq` is then a homomorphism, and so is every
function that treats a sequence element by element (`FlatMap`): words and calls of a text, deltas of a field, options of a flag. `Joint`
and `Around` name a sequence put together from parts.

*serve* (`ServeProofs`). `NoCoreUntold` says for any number of cores that after the wait no core is alive
that was not told to stop, unless the server crashed. `ServeInv` strengthens it: there is no process before the
launch is over (`NothingBeforeServer`); a server
that was told had all its cores told with it (killpg, and no core starts later); a server that
is gone either crashed or was told; serve waits only for a server it has told. `ShutdownPgroupTells` states
once what `_shutdown_pgroup` leaves, whatever it finds, for the three actions that call it.

*Launch* (`LaunchProofs`). For any arguments and surroundings, `LaunchSpec => ServeSpec` (`LaunchImplementsServe`): every
step of the launch is a step of `ServeLifecycle` or leaves its variables alone. So what is proved of the processes holds
however serve was called (`NoCoreUntoldAfterLaunch`). `SidecarAlwaysTied` rests on `LaunchInv`: the launch goes on as
long as serve has no process (`PhaseOK`), and a sidecar that is up is the retrieval endpoint, which makes the proxy needed
(`SidecarIsEndpoint`), so the direct way, on which nothing would use it, is closed.

`CommandInvariant` follows the arguments through the launch: what was given (`ArgsFit`), what `Parse` makes of it and no later step
changes (`JobFits`), that a parser is the detectors' and the user has named none (`ParsersFit`), and how the command is put together
(`CommandFits`). For any flags `With` is a homomorphism (`WithConcat`), so what the command has of them is what its five parts
have: the model, tool-call arguments, reasoning arguments, the user's own, the proxy's port. At most two of
these have anything to say of a flag, and argparse takes the last (`LastOfTwo`): this is `CommandAlwaysFaithful`, for any
number of options in any order. `ProxyAlwaysFronts` compares with it what the proxy is told, taken from the
user's arguments by first occurrence: without a repetition the first is the last (`NotRepeated`).
`DetectorsAgree` goes through the tables row by row: the first row that fits wins (`FirstRow`). Of Kimi models it says exactly
where the two detectors agree: a row above the Kimi rows has another parser (`RowsBeforeKimi`), and for an architecture of
DeepSeek (`DeepseekTools`, `DeepseekReasonings`) and of Nemotron (`NemotronRows`) the row is the same whatever follows its first
pieces. The two kinds of model on which they differ are in section 6.

*Hybrid batch* (`HybridProofs`). `MapSurvives` allows every failure and every order of calls. Its invariant says nothing of
the layers: the slots are dense; once there is a cache, `batchTokens` and the rows have room for `MaxConcurrent` slots
(`Allocated`), since every rebuild takes the larger of that and the number of its requests; and a process that is lost has that many slots
in use (`LostFull`), since the slot it fell over was beyond what is allocated. With it
`HybridTypeCorrect` bounds what each layer counts, though after a failure the layers count differently. It does not say that the
process survives under this worker, which may ask for one slot more (section 6). `EveryLayerIsAnEngine` is
the refinement: until a copy fails or an add traps, `Lockstep` holds (every layer has the same rows and counts the slots
in use), so each step of the hybrid batch is a `BatchEngine` step of every layer, taken by a client that keeps the
engine's contract. A copy that fails breaks `Lockstep`, and an add to a full batch is refused by the dense engine, which is why
`LayersImplementEngine` has `failed'` and `trapped'`. What `BatchEngineProofs` shows of one cache thereby holds of
each layer up to then, for any number of them.

Assumptions: `EngineAssumption` and `WorkerAssumption` (finite requests, as many slots in
the model as requests and as `maxConcurrentRequests`; any set of requests may fail; a family with a batched
branch for logprobs or without), `RewriterAssumption` and
`ProxyAssumption` (a threshold above one piece, a missing content that is no text, and the types of the parameters),
`EnrichmentAssumption` (the proxy's block is none of the client's texts), `ServeAssumption` (the server is not an engine core),
`HybridAssumption` (like the engine's, with at least `MaxConcurrent` slots, and at least one layer),
`LaunchAssumption` (the sidecar's address is not the empty string, which stands for no endpoint; `NoNumber` is no number; arguments are finite sequences
of options; each model that is named has a directory, perhaps one that is not there, with an architecture of strings); TLC
evaluates them in every run.

Only model-checked: liveness (`EveryRequestEnds`, `StopsWhenAsked`), which is out of the prover's reach under fairness. Every
invariant and action property of the passing runs is a theorem; some are so under hypotheses on
the configuration, named above. The runs that expect a violation have no theorem, of course.

## 6. Divergences

Checked by a run that finds the violation:

- **Pending tokens outlive their batch** (`NoCrossTalk`). `add_batch_slot` and
  `remove_batch_slot` leave `pendingSampledTokens` alone, and the pipelined step compares
  only the batch size. When one request ends and another enters, the new one is
  fed, and returned, the old one's token.
- **Output past the buffers** (`BufferRespected`). `decode_all` ignores `max_reqs` over a
  batch, and in a tick that admits a request there are more slots than cached
  requests.
- **Dropped requests** (`OutputCoversScheduled`). Of like requests that arrive while others
  decode only the first is prefilled.
- **A cut transition marker** (`AnswerReachesContent`). After the decision `stream_rewriter` looks
  for a marker in each delta alone. Most markers are a newline and a word, which are two
  tokens and mostly two deltas: the answer then goes on as `reasoning_content`.

Seen in the model, without a run of their own:

- the pipelined step leaves in `batchTokens` the token it returned; when the batch size
  changes, the synchronous step feeds and returns it again, so a request gets a token
  twice;
- the logprobs fallback calls `decode_all` inside `engineQueue.sync` of the same serial queue
  (`hung`, reached in `MCWorkerTight`). Only `Qwen3Model` has a batched branch for logprobs (`Bridge.swift:2600`); the other dense
  families get to the fallback (2674) with a batch as well. `LogprobsBatched` says which it is: the runs take TRUE, with which
  more happens, the theorems hold of both;
- `stream_rewriter` forwards a finish reason that comes in a chunk of its own before the text it
  still holds (an answer below 32 characters), drops a finish reason that comes with a delta
  decided inside the reasoning part, and `[DONE]` then makes `stream_tool_recovery` send a second
  one (`OneFinishLast` without its condition);
- a structured tool call flips `stream_tool_recovery` to passthrough over a held buffer, which is
  then never flushed (`TextConserved` without its condition), and the text around a
  recovered call, which the non-streaming path keeps as content, is dropped;
- two like requests in an idle tick reach `prefill_batched_uniform`, which
  `SwiftInferenceEngine` does not define (`pc = "attribute_error"`, in `MCWorkerTight`);
- a request that finishes before `init_batched` first runs is moved into a slot that
  nothing frees (`NoZombieSlot` with a request that asks for logprobs);
- `decode_all_logprobs` over a batch returns nothing unless some session is live
  (`DecodeServesCached` with logprobs);
- when `VSM_MAX_CACHE_GB` pays for fewer slots than `max_num_seqs`, `add_batch_slot` fails and
  the request is never decoded (`NoStarvedSession` with `BudgetBatch = 1`);
- the semi-batched path returns the token after `y`, so token 2 of every request is
  skipped (`InOrder` with `Batchable = FALSE`), and steps any `max_reqs` sessions, perhaps new
  ones in place of cached ones (`DecodeServesCached` with `Batchable = FALSE`);
- a malformed call next to a valid one of the same shape is removed from an answer with the valid one, and the text in it is
  lost (`WholeConserved` counts words and valid calls only); of calls in several shapes only the first shape is
  recovered: a whole answer keeps the others as text, a stream drops them with the text around;
- "keep the highest" (`response_rewriter.py:1338-1346`): no chunk is ever kept for being the best one, since all scores are
  compared with the same floor; `x-longctx-chunks-used` counts the chunks before the cap of the block drops any;
- a client that leaves during an answer in one piece is not noticed before vLLM has generated it all (`NoVoidGeneration` is about streams);
- the detectors disagree on two kinds of Kimi model (both are stated in `DetectorsInStep`). On the architectures
  DeepSeek V3.1 and V3.2 the reasoning parser is `kimi_k2` and the tool parser is the architecture's, whose name the refinement by name does
  not know. When the name has `r1` or `distill` in it, the tool parser is `kimi_k2`, but the reasoning detector has
  stopped at `deepseek_r1` (`detect_reasoning_parser.py:286`);
- the reasoning parser `qwen3` that `detect_reasoning_parser.py:49-59` wants kept from qwen3_coder models is injected for
  Qwen3.5 and Qwen3-Next all the same, and for any coder whose name has no `-Coder-` inside;
- of a flag given twice serve takes the first and vLLM the last: the proxy then listens on another port than the user's last, or
  clamps budgets to another context length; with a model given by position and by `--model`, parsers are
  detected for another model than vLLM serves (`ProxyFrontsVllm` without `Repeated`);
- a port above 64535 puts vLLM's above 65535: `_free_port` catches OSError, `bind` raises OverflowError, and serve
  ends with a traceback (`PortOverflows`);
- `LONGCTX_ENDPOINT` in the environment turns retrieval on even with `--no-enable-longctx`;
- the sidecar, of which `cli.py:454` says that it dies with serve, survives a SIGTERM that meets Python's default handler, as it does
  for all of the launch and after the proxy (`SidecarTied` without `pc`);
- serve without the proxy leaves vLLM running when it gets a SIGTERM, and SIGINT kills the server but tells no core
  (`CoresTold` is about the ways out that get to the hunt);
- parsers the user names get neither the larger budget nor tool-call recovery, which depend on what serve has injected;
- when the server has crashed, `serve` leaves its engine cores running: `poll()` reaps the server, so the group is not
  signalled, and `_kill_orphan_engine_cores`, which "Covers hard-crash scenarios where the api_server died without
  taking EngineCore with it" (`cli.py:63`), always returns 0, because its caller has reaped the pid whose
  group it asks for (`CoresTold` without `crashed`);
- a signal that falls into the readiness wait shuts vLLM down and does not end the wait; if an answer to `/health` is
  on its way, serve goes on to run the proxy in front of nothing (`StopsWhenAsked` without `proxy`);
- a second signal during the shutdown meets Python's default handlers and ends serve, perhaps before it has told or
  killed the group;
- a copy that fails in `initBatchedHybrid` has already released the sessions before it, whose copies are thrown away
  with the new cache; in `addBatchSlotHybrid` it leaves the request with a session and a slot of which some layers
  hold another request's rows, and the layers' counts apart (`LayersImplementEngine` without `failed'`);
- `addBatchSlotHybrid` (`Bridge.swift:3431-3437`) indexes `batchTokens` at the next slot without a look at its length; the guard of the
  dense engine (`Bridge.swift:2486`) comes after the hybrid path has left. The worker can ask for one slot too many: it
  prefills (`worker.py:342`) before it removes finished requests (410), and `init_batched` (418) also takes the session of a request that
  has ended before, whose slot stays for good if that tick asks for log-probabilities. With such a slot the batch is full one request early, and
  the next add traps (`AddBatchSlotTraps`; `MapSurvivesFailures` says that it takes a full batch);
- a failed `initBatchedHybrid` may register more slots than the old cache has rows for; the next decode then indexes past
  them (`DecodeTraps`);
- an undecided `stream_tool_recovery` holds white space of any length (`response_rewriter.py:738-745`), so a client of an answer that
  begins with many newlines waits for more than the 32 characters of the threshold (`ProxyTypeOK` allows it by `MayOpen`);
- temperature is ignored in a batch, because the session that holds it is gone
  (`AllGreedy`);
- the -1 of a failed prefill is delivered like a token (`worker.py:342-393`): the request is scheduled on without
  a session, gets no further token and never ends (`EveryRequestEnds` without its last words);
- if no prefill has succeeded by the first decoding tick, `init_batched` finds no session and fails, yet
  `_batched_initialized` becomes True: the worker decodes without a batch for good, one request per cached entry
  (`NoStarvedSession` and `DecodeServesCached` without their conditions);
- a failed prefill also hides the slot of a request that had ended before the first `init_batched`: the entry of the failed
  request makes the buffers long enough, the worker goes on, and the row is taken for good; for want of it a later
  `add_batch_slot` fails, and that request is never decoded (`NoStarvedSession` without `Zombies = {}`, `NoZombieSlot`
  without `Failed = {}`);
- `prefill_batched_uniform` stashes the second sampled token, not the first;
- `init_batched` called again drops the requests that are in the batch, and `reset` leaves the
  batch in place.

## 7. Not modelled

- Numerics: attention, quantisation, RoPE, sampling. A forward pass is `Forward`.
- Several cache layers: `kv` stands for all of them, so layers that alias a donor's
  cache (Gemma 4) are outside the model. `HybridBatch` has layers, but each with a cache of its own.
- The sequential TurboQuant fallback.
- The proxy's other paths, headers and connections; several choices in one answer, whose states the
  code keeps apart; message parts other than text.
- Sparse caches and aliased layers: next in the plan. Liveness of the worker without batched decode.
- Of the launch: a flag without its value, `LONGCTX_DEFAULT_SCOPE`, a `config.json` that cannot be read (it counts as
  absent), the port probe's race with other processes (the proxy then never gets an answer, `NeverReady`), and warnings.
- Platform patches (applied once at import; the limits they set are the scheduler's), the commands that download, print or
  install, and scripts: nothing in them has states.

## 8. Plan

1. `BatchEngine`, its proofs, `StaticBatch` and `TokenStream`, `Worker` and its proofs. *Done.*
2. `Rewriter`, `Enrichment`, `Proxy`, and theorems on all their properties. *Done.* Left: an abstract text
   stream that the chain implements.
3. `ServeLifecycle` and its proofs; `Detection` and `Launch`, the refinement between launch and processes, and theorems on their properties. *Done.*
4. `HybridBatch`: slot registration before the copy, partial failure, counters per layer. *Done*, with its
   theorems on types, on the slot map and on layers.
5. Left: aliased layers, whose counters one donor shares; sparse
   sessions, an experimental path that is off by default, with the sparse caches as a batch beside the dense one.
6. Worker: failing prefill, and the theorems on `ServedHasKV` and `NoSessionLeak`. `NoStarvedSession`, `NoZombieSlot`
   and `DecodeServesCached`. *Done.*
