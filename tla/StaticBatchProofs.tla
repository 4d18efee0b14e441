-------------------------- MODULE StaticBatchProofs --------------------------
(***************************************************************************)
(* One batch at a time implements TokenStream, for any number of requests, *)
(* whenever init_batched supports the model.                               *)
(***************************************************************************)
EXTENDS StaticBatch, BatchEngineProofs

-----------------------------------------------------------------------------
(* The inductive invariant                                                 *)

StaticTypeOK ==
    /\ TypeOK
    /\ phase \in {"loading", "running"}
    /\ emitted \in [Requests -> Nat]
    /\ lastToken \in [Requests -> Cell]

\* While loading, a session has fed the one token its prefill returned.
Loaded == \A r \in Requests : session[r] = emitted[r] /\ emitted[r] \in {0, 1}

\* The token to be returned next is fed next: it is the host copy after
\* init_batched, the pending one after any decode step.
Fed(r) == IF pendingSampledB = 0 THEN batchTokens[batchSlots[r]]
                                 ELSE pendingSampledTokens[batchSlots[r]]

\* While decoding, each row holds what its request was given so far, and the
\* next token of the request is the one to be fed.
Decoding ==
    /\ Live = {}
    /\ maxBatch > 0
    /\ Batched # {}
    /\ SlotsDense
    /\ pendingSampledB \in {0, BatchSize}
    /\ \A r \in Batched :
        /\ emitted[r] > 0
        /\ kv[batchSlots[r]] = Token(r, emitted[r])
        /\ Fed(r) = Token(r, emitted[r] + 1)

StaticInv ==
    /\ StaticTypeOK
    /\ InOrder
    /\ phase = "loading" => Loaded
    /\ phase = "running" => Decoding

\* A reply to the requests of S counts and records one token for each of them.
LEMMA ReturnedTo ==
    ASSUME StaticTypeOK, NEW S \in SUBSET Requests, NEW reply \in [S -> Cell],
           Returned(reply)
    PROVE  /\ emitted' \in [Requests -> Nat]
           /\ lastToken' \in [Requests -> Cell]
           /\ \A r \in S : emitted'[r] = emitted[r] + 1 /\ lastToken'[r] = reply[r]
           /\ \A r \in Requests \ S : emitted'[r] = emitted[r] /\ lastToken'[r] = lastToken[r]
  BY DEF Returned, StaticTypeOK

LEMMA StaticInitInv == StaticInit => StaticInv
  <1> SUFFICES ASSUME StaticInit PROVE StaticInv
    OBVIOUS
  <1>1. TypeOK
    BY InitType DEF StaticInit
  <1>2. \A r \in Requests : Token(r, 0) \in Cell
    BY TokenType
  <1> QED
    BY <1>1, <1>2 DEF StaticInit, Init, StaticInv, StaticTypeOK, InOrder, Loaded, NoSession

LEMMA StartOverInv ==
    ASSUME StaticInv, StartOver
    PROVE  StaticInv'
  <1>1. session' = [r \in Requests |-> NoSession] /\ TypeOK'
    BY SessionsType
    DEF StartOver, Reset, SessionsWithout, StaticInv, StaticTypeOK, TypeOK, batchVars, pendingVars
  <1>2. \A r \in Requests : Token(r, 0) \in Cell
    BY TokenType
  <1> QED
    BY <1>1, <1>2 DEF StartOver, StaticInv, StaticTypeOK, InOrder, Loaded, NoSession

\* Prefill starts the request with its first token.
LEMMA LoadEffect ==
    ASSUME StaticInv, NEW r \in Requests, Load(r)
    PROVE  /\ phase = "loading" /\ phase' = "loading" /\ emitted[r] = 0
           /\ emitted' = [emitted EXCEPT ![r] = 1]
           /\ lastToken' = [lastToken EXCEPT ![r] = Token(r, 1)]
  <1>1. phase = "loading" /\ phase' = "loading" /\ emitted[r] = 0 /\ StaticTypeOK
    BY DEF Load, StaticInv, Loaded, NoSession
  <1> DEFINE reply == [q \in {r} |-> PrefillReply(q)]
  <1>2. DOMAIN reply = {r} /\ reply[r] = Token(r, 1)
    BY DEF PrefillReply
  <1>3. Returned(reply)
    BY DEF Load
  <1> HIDE DEF reply
  <1>4. emitted' = [q \in Requests |-> IF q = r THEN 1 ELSE emitted[q]]
    BY <1>1, <1>2, <1>3 DEF Returned, StaticTypeOK
  <1>5. lastToken' = [q \in Requests |-> IF q = r THEN Token(r, 1) ELSE lastToken[q]]
    BY <1>2, <1>3 DEF Returned
  <1> QED
    BY <1>1, <1>4, <1>5 DEF StaticTypeOK

LEMMA LoadInv ==
    ASSUME StaticInv, NEW r \in Requests, Load(r)
    PROVE  StaticInv'
  <1>1. StaticTypeOK /\ Loaded /\ InOrder
    BY LoadEffect DEF StaticInv
  <1>2. TypeOK' /\ session' = [session EXCEPT ![r] = 1]
    BY <1>1 DEF Load, PrefillReq, StaticTypeOK, TypeOK, batchVars, pendingVars
  <1>3. StaticTypeOK'
    BY <1>1, <1>2, LoadEffect, TokenType DEF StaticTypeOK
  <1>4. Loaded'
    BY <1>1, <1>2, LoadEffect DEF Loaded, StaticTypeOK, TypeOK
  <1>5. InOrder'
    BY <1>1, LoadEffect DEF InOrder, StaticTypeOK
  <1> QED
    BY <1>3, <1>4, <1>5, LoadEffect DEF StaticInv

LEMMA BeginInv ==
    ASSUME Batchable, StaticInv, Begin
    PROVE  StaticInv'
  <1>1. InitBatched /\ Loaded /\ phase' = "running" /\ UNCHANGED <<emitted, lastToken>>
        /\ Live # {} /\ TypeOK
    BY DEF Begin, StaticInv, StaticTypeOK
  <1>2. PICK f \in SlotNumberings(Live) :
            /\ batchSlots' = SlotsOf(Live, f)
            /\ batchTokens' = Laid(Live, f, [r \in Live |-> Token(r, session[r] + 1)])
            /\ kv' = Laid(Live, f, [r \in Live |-> Token(r, session[r])])
    BY <1>1 DEF InitBatched
  <1> DEFINE now == [r \in Live |-> Token(r, session[r])]
             next == [r \in Live |-> Token(r, session[r] + 1)]
  <1>3. now \in [Live -> Cell] /\ next \in [Live -> Cell] /\ \A r \in Live : now[r].req = r
    BY <1>1, Sizes, TokenType DEF TypeOK, Token
  <1>4. /\ Batched' = Live /\ BatchSize' = Cardinality(Live) /\ SlotsDense'
        /\ \A r \in Live : batchSlots'[r] = f[r]
        /\ \A r \in Live : kv'[f[r]] = now[r] /\ batchTokens'[f[r]] = next[r]
    <2>1. kv' = Laid(Live, f, now) /\ batchTokens' = Laid(Live, f, next)
      BY <1>2
    <2>2. Live \in SUBSET Requests
      BY Sizes
    <2> HIDE DEF now, next
    <2>3. /\ Batched' = Live /\ BatchSize' = Cardinality(Live) /\ SlotsDense'
          /\ \A r \in Live : batchSlots'[r] = f[r]
      BY <1>2, <1>3, <2>1, <2>2, NumberedBatch
    <2>4. \A r \in Live : kv'[f[r]] = now[r]
      BY <1>3, <2>1, <2>2, LaidOut
    <2>5. \A r \in Live : batchTokens'[f[r]] = next[r]
      BY <1>3, <2>1, <2>2, LaidOut
    <2> QED
      BY <2>3, <2>4, <2>5
  <1>5. TypeOK' /\ pendingSampledB' = 0
    BY <1>1, InitBatchedType DEF InitBatched
  <1>6. Live' = {} /\ maxBatch' > 0
    <2>1. Live' = {}
      BY <1>1, LiveAfter, Sizes DEF InitBatched
    <2> QED
      BY <1>1, <2>1, Sizes, EngineAssumption DEF InitBatched, Larger, Smaller
  <1>7. \A r \in Live : session[r] = emitted[r] /\ emitted'[r] = emitted[r] /\ emitted[r] > 0
    BY <1>1, Sizes DEF Loaded, Live, NoSession
  <1>8. Decoding'
    BY <1>1, <1>4, <1>5, <1>6, <1>7 DEF Decoding, Fed
  <1> QED
    BY <1>1, <1>5, <1>8 DEF StaticInv, StaticTypeOK, InOrder

\* Feeding a row the next token of its request advances it by that token and
\* samples the one after.
LEMMA PassOverBatch ==
    ASSUME StaticTypeOK, Decoding, NEW input \in [Slots -> Cell],
           \A r \in Batched : input[batchSlots[r]] = Token(r, emitted[r] + 1)
    PROVE  \A r \in Batched :
            /\ batchSlots[r] \in Slots /\ batchSlots[r] \in Occupied
            /\ KVAfter(input)[batchSlots[r]] = Token(r, emitted[r] + 1)
            /\ SampledAfter(input)[batchSlots[r]] = Token(r, emitted[r] + 2)
  <1> SUFFICES ASSUME NEW r \in Batched
               PROVE  /\ batchSlots[r] \in Slots /\ batchSlots[r] \in Occupied
                      /\ KVAfter(input)[batchSlots[r]] = Token(r, emitted[r] + 1)
                      /\ SampledAfter(input)[batchSlots[r]] = Token(r, emitted[r] + 2)
    OBVIOUS
  <1> DEFINE slot == batchSlots[r]
  <1>1. slot \in Occupied /\ slot \in 0 .. BatchSize - 1
    BY DEF Occupied, Decoding, SlotsDense
  <1>2. slot \in Slots /\ slot < BatchSize
    BY <1>1, Sizes, EngineAssumption DEF Slots
  <1>3. emitted[r] \in Nat /\ emitted[r] > 0 /\ kv[slot] = Token(r, emitted[r])
    BY Sizes DEF Decoding, StaticTypeOK
  <1>4. Forward(kv[slot], input[slot]) = Token(r, emitted[r] + 1)
    BY <1>3 DEF Forward, Token
  <1>5. Sample(Token(r, emitted[r] + 1)) = Token(r, emitted[r] + 2)
    BY <1>3 DEF Sample, Token
  <1> QED
    BY <1>1, <1>2, <1>4, <1>5 DEF KVAfter, SampledAfter

\* What decode_all feeds and returns, in either of its two paths.
LEMMA DecodeStepInv ==
    ASSUME StaticInv, phase = "running", DecodeBatch, Returned(BatchReply), UNCHANGED phase
    PROVE  /\ StaticInv'
           /\ Batched' = Batched
           /\ \A r \in Batched : emitted'[r] = emitted[r] + 1
           /\ \A r \in Requests \ Batched : emitted'[r] = emitted[r]
  <1>1. Decoding /\ StaticTypeOK /\ TypeOK /\ InOrder
    BY DEF StaticInv, StaticTypeOK
  <1>2. TypeOK' /\ Batched \in SUBSET Requests
    BY <1>1, DecodeBatchType, Sizes
  <1>3. Batched' = Batched /\ BatchSize' = BatchSize /\ Live' = Live /\ Occupied' = Occupied
        /\ maxBatch' = maxBatch /\ batchSlots' = batchSlots
    BY DEF DecodeBatch, Batched, BatchSize, Live, Occupied
  <1>4. AllGreedy
    BY <1>1 DEF Decoding, AllGreedy, Live, Batched
  <1>5. BatchSize # 0 /\ BatchSize \in Nat
    BY <1>1, Sizes, FS_EmptySet DEF Decoding, BatchSize
  <1>6. \A r \in Batched :
            /\ BatchReply[r] = Token(r, emitted[r] + 1)
            /\ kv'[batchSlots[r]] = Token(r, emitted[r] + 1)
            /\ Fed(r)' = Token(r, emitted[r] + 2)
    <2>1. CASE DecodeAsync
      <3>1. pendingSampledB # 0 /\ PipelineValid
        BY <2>1 DEF DecodeAsync, PipelineValid
      <3>2. \A r \in Batched :
                pendingSampledTokens[batchSlots[r]] = Token(r, emitted[r] + 1)
        BY <1>1, <3>1 DEF Decoding, Fed
      <3>3. \A r \in Batched : KVAfter(pendingSampledTokens)[batchSlots[r]]
                                    = Token(r, emitted[r] + 1)
                    /\ SampledAfter(pendingSampledTokens)[batchSlots[r]]
                                    = Token(r, emitted[r] + 2)
        BY <1>1, <3>2, PassOverBatch DEF TypeOK
      <3>4. \A r \in Batched : Fed(r)' = pendingSampledTokens'[batchSlots[r]]
        BY <1>3, <1>5, <2>1 DEF DecodeAsync, Fed
      <3> QED
        BY <2>1, <3>1, <3>2, <3>3, <3>4 DEF DecodeAsync, BatchReply
    <2>2. CASE DecodeSync
      <3>1. pendingSampledB = 0 /\ ~PipelineValid
        BY <1>1, <1>4, <2>2 DEF DecodeSync, PipelineValid, Decoding
      <3>2. \A r \in Batched : batchTokens[batchSlots[r]] = Token(r, emitted[r] + 1)
        BY <1>1, <3>1 DEF Decoding, Fed
      <3>3. \A r \in Batched : KVAfter(batchTokens)[batchSlots[r]] = Token(r, emitted[r] + 1)
                    /\ SampledAfter(batchTokens)[batchSlots[r]] = Token(r, emitted[r] + 2)
        BY <1>1, <3>2, PassOverBatch DEF TypeOK
      <3>4. pendingSampledTokens' = SampledAfter(batchTokens) /\ pendingSampledB' = BatchSize
        BY <1>4, <2>2 DEF DecodeSync
      <3>5. \A r \in Batched : Fed(r)' = SampledAfter(batchTokens)[batchSlots[r]]
        BY <1>3, <1>5, <3>4 DEF Fed
      <3> QED
        BY <2>2, <3>1, <3>2, <3>3, <3>5 DEF DecodeSync, BatchReply
    <2> QED
      BY <2>1, <2>2 DEF DecodeBatch
  <1>7. pendingSampledB' = BatchSize
    BY <1>4 DEF DecodeBatch, DecodeAsync, DecodeSync
  <1>8. BatchReply \in [Batched -> Cell]
    <2>1. \A r \in Batched : Token(r, emitted[r] + 1) \in Cell
      BY <1>1, <1>2, TokenType DEF StaticTypeOK
    <2>2. DOMAIN BatchReply = Batched /\ BatchReply = [r \in Batched |-> BatchReply[r]]
      BY DEF BatchReply
    <2> QED
      BY <1>6, <2>1, <2>2
  <1>9. /\ emitted' \in [Requests -> Nat] /\ lastToken' \in [Requests -> Cell]
        /\ \A r \in Batched : emitted'[r] = emitted[r] + 1 /\ lastToken'[r] = BatchReply[r]
        /\ \A r \in Requests \ Batched :
                emitted'[r] = emitted[r] /\ lastToken'[r] = lastToken[r]
    BY <1>1, <1>2, <1>8, ReturnedTo
  <1>10. InOrder'
    BY <1>1, <1>6, <1>9 DEF InOrder
  <1>11. Decoding'
    <2>1. \A r \in Batched : emitted[r] \in Nat
      BY <1>1, <1>2 DEF StaticTypeOK
    <2>2. \A r \in Batched' :
            /\ emitted'[r] > 0
            /\ kv'[batchSlots'[r]] = Token(r, emitted'[r])
            /\ Fed(r)' = Token(r, emitted'[r] + 1)
      BY <1>3, <1>6, <1>9, <2>1
    <2>3. SlotsDense'
      BY <1>1, <1>3 DEF Decoding, SlotsDense
    <2> QED
      BY <1>1, <1>3, <1>7, <2>2, <2>3 DEF Decoding
  <1> QED
    BY <1>2, <1>3, <1>9, <1>10, <1>11 DEF StaticInv, StaticTypeOK

LEMMA StepInv ==
    ASSUME StaticInv, Step
    PROVE  /\ StaticInv' /\ phase = "running" /\ phase' = "running"
           /\ Batched' = Batched /\ Batched # {}
           /\ \A r \in Batched : emitted'[r] = emitted[r] + 1
           /\ \A r \in Requests \ Batched : emitted'[r] = emitted[r]
  <1>1. phase = "running" /\ phase' = "running" /\ Decoding /\ TypeOK
    BY DEF Step, StaticInv, StaticTypeOK
  <1>2. maxBatch # 0 /\ Batched # {}
    BY <1>1 DEF Decoding
  <1>3. DecodeBatch /\ Returned(BatchReply) /\ UNCHANGED phase
    BY <1>2 DEF Step, DecodeSemiBatched
  <1> QED
    BY <1>1, <1>2, <1>3, DecodeStepInv

LEMMA FinishInv ==
    ASSUME StaticInv, NEW r \in Requests, Finish(r)
    PROVE  /\ StaticInv' /\ phase' = "running" /\ phase = "running"
           /\ Batched' = Batched /\ UNCHANGED <<emitted, lastToken>>
  <1>1. phase = "running" /\ phase' = "running" /\ Decoding /\ StaticTypeOK
    BY DEF Finish, StaticInv
  <1>2. TypeOK' /\ Live' = {}
    <2>1. TypeOK'
      BY <1>1, SessionsType DEF Finish, FinishReq, StaticTypeOK, TypeOK, batchVars, pendingVars
    <2>2. Live' = Live \ {r}
      BY <1>1, LiveAfter DEF Finish, FinishReq, StaticTypeOK
    <2> QED
      BY <1>1, <2>1, <2>2 DEF Decoding
  <1>3. /\ Batched' = Batched /\ BatchSize' = BatchSize /\ Occupied' = Occupied
        /\ UNCHANGED <<batchSlots, batchTokens, kv, maxBatch, pendingSampledTokens,
                       pendingSampledB, emitted, lastToken>>
    BY DEF Finish, FinishReq, batchVars, pendingVars, Batched, BatchSize, Occupied
  <1>4. Decoding'
    <2>1. \A q \in Batched : Fed(q)' = Fed(q)
      BY <1>3 DEF Fed
    <2>2. SlotsDense'
      BY <1>1, <1>3 DEF Decoding, SlotsDense
    <2> QED
      BY <1>1, <1>2, <1>3, <2>1, <2>2 DEF Decoding
  <1> QED
    BY <1>1, <1>2, <1>3, <1>4 DEF StaticInv, StaticTypeOK, InOrder

LEMMA StutterInv ==
    ASSUME StaticInv, UNCHANGED staticVars
    PROVE  StaticInv'
  BY DEF staticVars, engineVars, StaticInv, StaticTypeOK, TypeOK, InOrder, Loaded, Decoding,
         Live, Batched, BatchSize, SlotsDense, Occupied, Fed

LEMMA StaticNextInv == Batchable /\ StaticInv /\ [StaticNext]_staticVars => StaticInv'
  <1> SUFFICES ASSUME Batchable, StaticInv, [StaticNext]_staticVars PROVE StaticInv'
    OBVIOUS
  <1> QED
    BY StartOverInv, LoadInv, BeginInv, StepInv, FinishInv, StutterInv DEF StaticNext

\* decode_all over a batch that init_batched formed returns every request its own
\* tokens and all of them in order, for any number of requests, through the
\* synchronous first step and the pipelined ones after it.
THEOREM BatchedDecodeInOrder == Batchable => (StaticSpec => []InOrder)
  <1> SUFFICES ASSUME Batchable PROVE StaticSpec => []InOrder
    OBVIOUS
  <1>1. StaticInit => StaticInv
    BY StaticInitInv
  <1>2. StaticInv /\ [StaticNext]_staticVars => StaticInv'
    BY StaticNextInv
  <1>3. StaticInv => InOrder
    BY DEF StaticInv
  <1> QED
    BY <1>1, <1>2, <1>3, PTL DEF StaticSpec

-----------------------------------------------------------------------------
(* Refinement                                                              *)

LEMMA MappedInit == StaticInit => Stream!Init
  BY DEF StaticInit, Stream!Init, Stream!Token, Token

LEMMA MappedStep ==
    ASSUME Batchable, StaticInv, StaticInv', [StaticNext]_staticVars
    PROVE  [Stream!Next]_(Stream!vars)
  <1>1. CASE StartOver
    BY <1>1 DEF StartOver, Stream!Next, Stream!Forget, Stream!Token, Token
  <1>2. ASSUME NEW r \in Requests, Load(r) PROVE Stream!First(r)
    BY <1>2, LoadEffect DEF Stream!First, Stream!Token, Token
  <1>3. CASE Begin
    <2>1. phase = "loading" /\ phase' = "running" /\ UNCHANGED <<emitted, lastToken>>
          /\ Loaded /\ InitBatched
      BY <1>3 DEF Begin, StaticInv
    <2>2. Batched' = Live
      BY <2>1 DEF InitBatched, Batched, SlotsOf, SlotNumberings, NoSlot, Live
    <2>3. Live = Stream!Started
      BY <2>1 DEF Live, Loaded, Stream!Started, NoSession
    <2> QED
      BY <2>1, <2>2, <2>3 DEF Stream!Begin, Stream!Next
  <1>4. CASE Step
    <2>1. /\ phase = "running" /\ phase' = "running" /\ Batched' = Batched /\ Batched # {}
          /\ \A r \in Batched : emitted'[r] = emitted[r] + 1
          /\ \A r \in Requests \ Batched : emitted'[r] = emitted[r]
      BY <1>4, StepInv
    <2>2. StaticTypeOK /\ StaticTypeOK' /\ InOrder /\ InOrder'
      BY DEF StaticInv
    <2> QED
      BY <2>1, <2>2 DEF Stream!Next, Stream!Deliver, Stream!Token, Token, InOrder, StaticTypeOK
  <1>5. ASSUME NEW r \in Requests, Finish(r) PROVE UNCHANGED Stream!vars
    BY <1>5, FinishInv DEF Stream!vars
  <1>6. CASE UNCHANGED staticVars
    BY <1>6 DEF staticVars, engineVars, Stream!vars, Batched
  <1> QED
    BY <1>1, <1>2, <1>3, <1>4, <1>5, <1>6 DEF StaticNext, Stream!Next

\* Each step of the engine under this client is a step of TokenStream or changes
\* nothing of it: whole batches are served in order, none of them in part.
THEOREM ImplementsStream == Batchable => (StaticSpec => ImplementsTokenStream)
  <1> SUFFICES ASSUME Batchable PROVE StaticSpec => Stream!Spec
    BY DEF ImplementsTokenStream
  <1>1. StaticInit => StaticInv /\ Stream!Init
    BY StaticInitInv, MappedInit
  <1>2. StaticInv /\ [StaticNext]_staticVars => StaticInv'
    BY StaticNextInv
  <1>3. StaticInv /\ StaticInv' /\ [StaticNext]_staticVars => [Stream!Next]_(Stream!vars)
    BY MappedStep
  <1> QED
    BY <1>1, <1>2, <1>3, PTL DEF StaticSpec, Stream!Spec
=============================================================================
