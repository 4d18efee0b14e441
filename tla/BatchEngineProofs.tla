-------------------------- MODULE BatchEngineProofs --------------------------
(***************************************************************************)
(* Theorems about BatchEngine for any number of requests and slots.        *)
(***************************************************************************)
EXTENDS BatchEngine, TLAPS, FiniteSetTheorems

-----------------------------------------------------------------------------
(* Sets of requests, cells and numberings                                  *)

LEMMA SubsetSize ==
    ASSUME NEW S \in SUBSET Requests
    PROVE  /\ IsFiniteSet(S)
           /\ Cardinality(S) \in Nat
           /\ Cardinality(S) <= NumSlots
  <1>1. IsFiniteSet(S) /\ Cardinality(S) <= Cardinality(Requests)
    BY EngineAssumption, FS_Subset
  <1>2. Cardinality(S) \in Nat /\ Cardinality(Requests) \in Nat
    BY <1>1, EngineAssumption, FS_CardinalityType
  <1> QED
    BY <1>1, <1>2, EngineAssumption

LEMMA TokenType ==
    ASSUME NEW r \in Requests, NEW n \in Nat
    PROVE  Token(r, n) \in Cell
  BY DEF Token, Cell

LEMMA BlankType == Blank \in Cell
  BY DEF Blank, Token, Cell

\* A row keeps its owner through a forward pass.
LEMMA ForwardKeepsOwner ==
    ASSUME NEW cache \in Cell, NEW tok \in Cell
    PROVE  /\ Forward(cache, tok) \in Cell
           /\ Forward(cache, tok).req = cache.req
  BY DEF Forward, Token, Cell

LEMMA SampleType ==
    ASSUME NEW cache \in Cell
    PROVE  Sample(cache) \in Cell
  BY DEF Sample, Token, Cell

\* Each request finds its own cell in the slot it was numbered with.
LEMMA LaidOut ==
    ASSUME NEW S \in SUBSET Requests, NEW f \in SlotNumberings(S),
           NEW cell \in [S -> Cell]
    PROVE  /\ Laid(S, f, cell) \in [Slots -> Cell]
           /\ \A r \in S : f[r] \in Slots /\ Laid(S, f, cell)[f[r]] = cell[r]
  <1>1. f \in [S -> 0 .. Cardinality(S) - 1]
    BY DEF SlotNumberings
  <1>2. \A r \in S : f[r] \in Slots
    BY <1>1, SubsetSize, EngineAssumption DEF Slots
  <1>3. ASSUME NEW s \in Slots, NEW r \in S, f[r] = s
        PROVE  r = CHOOSE q \in S : f[q] = s
    BY <1>3 DEF SlotNumberings
  <1>4. Laid(S, f, cell) \in [Slots -> Cell]
    BY BlankType DEF Laid
  <1>5. ASSUME NEW r \in S
        PROVE  Laid(S, f, cell)[f[r]] = cell[r]
    BY <1>2, <1>3 DEF Laid
  <1> QED
    BY <1>2, <1>4, <1>5

-----------------------------------------------------------------------------
(* Type correctness                                                        *)

LEMMA InitType == Init => TypeOK
  <1> SUFFICES ASSUME Init PROVE TypeOK
    OBVIOUS
  <1>1. session \in [Requests -> Nat] /\ batchSlots \in [Requests -> Slots \cup {NoSlot}]
    BY DEF Init, NoSession
  <1>2. /\ batchTokens \in [Slots -> Cell] /\ kv \in [Slots -> Cell]
        /\ pendingSampledTokens \in [Slots -> Cell]
    BY BlankType DEF Init
  <1>3. /\ active \in Nat /\ maxBatch \in 0 .. NumSlots /\ pendingSampledB \in Nat
    BY EngineAssumption DEF Init
  <1> QED
    BY <1>1, <1>2, <1>3 DEF Init, TypeOK

\* The sizes the actions compute with.
LEMMA Sizes ==
    /\ IsFiniteSet(Live) /\ Cardinality(Live) \in 0 .. NumSlots
    /\ IsFiniteSet(Batched) /\ BatchSize \in 0 .. NumSlots
    /\ Live \in SUBSET Requests /\ Batched \in SUBSET Requests
  BY SubsetSize, EngineAssumption DEF Live, Batched, BatchSize

LEMMA SessionsType ==
    ASSUME TypeOK, NEW S \in SUBSET Requests
    PROVE  /\ SessionsWithout(S) \in [Requests -> Nat]
           /\ SessionsAfter(S) \in [Requests -> Nat]
  BY DEF TypeOK, SessionsWithout, SessionsAfter, NoSession

LEMMA InitBatchedType ==
    ASSUME TypeOK, InitBatched
    PROVE  TypeOK'
  <1>1. PICK f \in SlotNumberings(Live) :
            /\ batchSlots' = SlotsOf(Live, f)
            /\ batchTokens' = Laid(Live, f, [r \in Live |-> Token(r, session[r] + 1)])
            /\ kv' = Laid(Live, f, [r \in Live |-> Token(r, session[r])])
    BY DEF InitBatched
  <1>2. Live \in SUBSET Requests /\ Cardinality(Live) \in 0 .. NumSlots
    BY Sizes
  <1>3. /\ [r \in Live |-> Token(r, session[r] + 1)] \in [Live -> Cell]
        /\ [r \in Live |-> Token(r, session[r])] \in [Live -> Cell]
    BY <1>2, TokenType DEF TypeOK
  <1>4. batchTokens' \in [Slots -> Cell] /\ kv' \in [Slots -> Cell]
    BY <1>1, <1>2, <1>3, LaidOut
  <1>5. batchSlots' \in [Requests -> Slots \cup {NoSlot}]
    BY <1>1, <1>2, LaidOut, <1>3 DEF SlotsOf
  <1>6. active' \in Nat /\ maxBatch' \in 0 .. NumSlots
    BY <1>2, EngineAssumption DEF InitBatched, Larger, Smaller
  <1>7. session' \in [Requests -> Nat]
    BY <1>2, SessionsType DEF InitBatched
  <1>8. pendingSampledTokens' \in [Slots -> Cell] /\ pendingSampledB' \in Nat
        /\ hung' \in BOOLEAN
    BY BlankType DEF InitBatched, TypeOK
  <1> QED
    BY <1>4, <1>5, <1>6, <1>7, <1>8 DEF TypeOK

LEMMA AddBatchSlotType ==
    ASSUME TypeOK, NEW r \in Requests, AddBatchSlot(r)
    PROVE  TypeOK'
  <1>1. NextSlot \in Slots
    BY Sizes, EngineAssumption DEF AddBatchSlot, RoomForSlot, NextSlot, Slots, TypeOK
  <1>2. Token(r, session[r] + 1) \in Cell /\ Token(r, session[r]) \in Cell
    BY TokenType DEF TypeOK
  <1>3. batchTokens' \in [Slots -> Cell] /\ kv' \in [Slots -> Cell]
        /\ batchSlots' \in [Requests -> Slots \cup {NoSlot}]
    BY <1>1, <1>2 DEF AddBatchSlot, TypeOK
  <1>4. active' \in Nat
    BY <1>1, EngineAssumption DEF AddBatchSlot, TypeOK, Larger, Slots
  <1>5. session' \in [Requests -> Nat]
    BY SessionsType DEF AddBatchSlot
  <1> QED
    BY <1>3, <1>4, <1>5 DEF AddBatchSlot, TypeOK, pendingVars

\* Moving the last row keeps the type of the rows.
LEMMA RowsWithoutType ==
    ASSUME TypeOK, NEW r \in Requests, NEW rows \in [Slots -> Cell], batchSlots[r] # NoSlot
    PROVE  RowsWithout(r, rows) \in [Slots -> Cell]
  <1>1. batchSlots[r] \in Slots
    BY DEF TypeOK
  <1>2. batchSlots[r] < BatchSize - 1 => BatchSize - 1 \in Slots
    BY <1>1, Sizes, EngineAssumption DEF Slots
  <1> QED
    BY <1>1, <1>2 DEF RowsWithout

LEMMA RemoveBatchSlotType ==
    ASSUME TypeOK, NEW r \in Requests, RemoveBatchSlot(r)
    PROVE  TypeOK'
  <1>1. kv' \in [Slots -> Cell] /\ batchTokens' \in [Slots -> Cell]
    BY RowsWithoutType DEF RemoveBatchSlot, TypeOK
  <1>2. SlotsWithout(r) \in [Requests -> Slots \cup {NoSlot}]
    BY DEF SlotsWithout, TypeOK
  <1>3. active' \in Nat
    BY DEF RemoveBatchSlot, ActiveWithoutOne, Larger, TypeOK
  <1> QED
    BY <1>1, <1>2, <1>3 DEF RemoveBatchSlot, TypeOK, pendingVars

LEMMA PrefillBatchedUniformType ==
    ASSUME TypeOK, NEW S \in SUBSET Requests, PrefillBatchedUniform(S)
    PROVE  TypeOK'
  <1>1. PICK f \in SlotNumberings(S) :
            /\ batchSlots' = SlotsOf(S, f)
            /\ batchTokens' = Laid(S, f, [r \in S |-> Token(r, 2)])
            /\ kv' = Laid(S, f, [r \in S |-> Token(r, 1)])
    BY DEF PrefillBatchedUniform
  <1>2. Cardinality(S) \in 0 .. NumSlots
    BY SubsetSize, EngineAssumption
  <1>3. /\ [r \in S |-> Token(r, 2)] \in [S -> Cell]
        /\ [r \in S |-> Token(r, 1)] \in [S -> Cell]
    BY TokenType
  <1>4. batchTokens' \in [Slots -> Cell] /\ kv' \in [Slots -> Cell]
    BY <1>1, <1>3, LaidOut
  <1>5. batchSlots' \in [Requests -> Slots \cup {NoSlot}]
    BY <1>1, <1>3, LaidOut DEF SlotsOf
  <1>6. active' \in Nat /\ maxBatch' \in 0 .. NumSlots
    BY <1>2, EngineAssumption DEF PrefillBatchedUniform, Larger
  <1> QED
    BY <1>4, <1>5, <1>6 DEF PrefillBatchedUniform, TypeOK, pendingVars

\* A forward pass keeps the types of the rows and samples cells.
LEMMA PassType ==
    ASSUME TypeOK, NEW input \in [Slots -> Cell]
    PROVE  /\ KVAfter(input) \in [Slots -> Cell]
           /\ SampledAfter(input) \in [Slots -> Cell]
  BY ForwardKeepsOwner, SampleType, BlankType DEF KVAfter, SampledAfter, TypeOK

LEMMA DecodeBatchType ==
    ASSUME TypeOK, DecodeBatch
    PROVE  TypeOK'
  <1>1. CASE DecodeAsync
    <2>1. kv' \in [Slots -> Cell] /\ pendingSampledTokens' \in [Slots -> Cell]
      BY <1>1, PassType DEF DecodeAsync, TypeOK
    <2>2. batchTokens' \in [Slots -> Cell]
      BY <1>1 DEF DecodeAsync, TypeOK
    <2>3. pendingSampledB' \in Nat
      BY <1>1, Sizes DEF DecodeAsync
    <2> QED
      BY <2>1, <2>2, <2>3 DEF DecodeBatch, TypeOK
  <1>2. CASE DecodeSync
    <2>1. kv' \in [Slots -> Cell] /\ SampledAfter(batchTokens) \in [Slots -> Cell]
      BY <1>2, PassType DEF DecodeSync, TypeOK
    <2>2. batchTokens' \in [Slots -> Cell]
      BY <1>2, <2>1 DEF DecodeSync, TypeOK
    <2>3. pendingSampledTokens' \in [Slots -> Cell] /\ pendingSampledB' \in Nat
      BY <1>2, <2>1, BlankType, Sizes DEF DecodeSync
    <2> QED
      BY <2>1, <2>2, <2>3 DEF DecodeBatch, TypeOK
  <1> QED
    BY <1>1, <1>2 DEF DecodeBatch

LEMMA DecodeAllLogprobsType ==
    ASSUME TypeOK, DecodeAllLogprobs
    PROVE  TypeOK'
  <1>1. CASE DecodeLogprobsBatch
    <2>1. kv' \in [Slots -> Cell] /\ SampledAfter(batchTokens) \in [Slots -> Cell]
      BY <1>1, PassType DEF DecodeLogprobsBatch, TypeOK
    <2>2. batchTokens' \in [Slots -> Cell]
      BY <1>1, <2>1 DEF DecodeLogprobsBatch, TypeOK
    <2> QED
      BY <1>1, <2>1, <2>2 DEF DecodeLogprobsBatch, TypeOK, pendingVars
  <1>2. CASE DecodeLogprobsFallback
    BY <1>2 DEF DecodeLogprobsFallback, TypeOK, batchVars, pendingVars
  <1> QED
    BY <1>1, <1>2 DEF DecodeAllLogprobs

LEMMA NextType == TypeOK /\ [Next]_engineVars => TypeOK'
  <1> SUFFICES ASSUME TypeOK, [Next]_engineVars PROVE TypeOK'
    OBVIOUS
  <1>1. ASSUME NEW r \in Requests, PrefillReq(r) PROVE TypeOK'
    BY <1>1 DEF PrefillReq, TypeOK, batchVars, pendingVars
  <1>2. ASSUME NEW r \in Requests, DecodeStepReq(r) PROVE TypeOK'
    BY <1>2, SessionsType DEF DecodeStepReq, TypeOK, batchVars, pendingVars
  <1>3. ASSUME NEW r \in Requests, FinishReq(r) PROVE TypeOK'
    BY <1>3, SessionsType DEF FinishReq, TypeOK, batchVars, pendingVars
  <1>4. CASE Reset
    BY <1>4, SessionsType DEF Reset, TypeOK, batchVars, pendingVars
  <1>5. CASE InitBatched
    BY <1>5, InitBatchedType
  <1>6. ASSUME NEW r \in Requests, AddBatchSlot(r) PROVE TypeOK'
    BY <1>6, AddBatchSlotType
  <1>7. ASSUME NEW r \in Requests, RemoveBatchSlot(r) PROVE TypeOK'
    BY <1>7, RemoveBatchSlotType
  <1>8. ASSUME NEW S \in SUBSET Requests, PrefillBatchedUniform(S) PROVE TypeOK'
    BY <1>8, PrefillBatchedUniformType
  <1>9. CASE DecodeBatch
    BY <1>9, DecodeBatchType
  <1>10. ASSUME NEW maxReqs, NEW S \in SUBSET Requests, DecodeSemiBatched(maxReqs, S)
         PROVE  TypeOK'
    BY <1>10, SessionsType DEF DecodeSemiBatched, TypeOK, batchVars, pendingVars
  <1>11. CASE DecodeAllLogprobs
    BY <1>11, DecodeAllLogprobsType
  <1>12. CASE UNCHANGED engineVars
    BY <1>12 DEF engineVars, TypeOK
  <1> QED
    BY <1>1, <1>2, <1>3, <1>4, <1>5, <1>6, <1>7, <1>8, <1>9, <1>10, <1>11, <1>12
    DEF Next

\* Every variable of the engine keeps its type, for any number of requests,
\* slots and calls: no slot index leaves the rows that exist.
THEOREM TypeCorrect == Spec => []TypeOK
  <1>1. Init => TypeOK
    BY InitType
  <1>2. TypeOK /\ [Next]_engineVars => TypeOK'
    BY NextType
  <1> QED
    BY <1>1, <1>2, PTL DEF Spec

-----------------------------------------------------------------------------
(* The slot map, the rows and the sessions                                 *)

\* The inductive invariant.  A removal re-points one request only because slots
\* are distinct, an add is free only because they are dense, and an add keeps
\* them distinct only because a request with a session has no slot.
EngineInv ==
    /\ TypeOK
    /\ SlotsDense
    /\ SlotHoldsItsRequest
    /\ KVInOnePlace
    /\ ActiveMatches
    /\ WithinCapacity

LEMMA InitInv == Init => EngineInv
  <1> SUFFICES ASSUME Init PROVE EngineInv
    OBVIOUS
  <1>1. Batched = {} /\ Live = {}
    BY DEF Init, Batched, Live
  <1>2. BatchSize = 0
    BY <1>1, FS_EmptySet DEF BatchSize
  <1> QED
    BY <1>1, <1>2, InitType
    DEF EngineInv, SlotsDense, SlotHoldsItsRequest, KVInOnePlace, ActiveMatches,
        WithinCapacity, Occupied, Init

\* A step on sessions alone only has to leave batched requests without one.
LEMMA SessionStepInv ==
    ASSUME EngineInv, TypeOK', UNCHANGED batchVars, Live' \cap Batched = {}
    PROVE  EngineInv'
  BY DEF EngineInv, SlotsDense, SlotHoldsItsRequest, KVInOnePlace, ActiveMatches,
         WithinCapacity, Occupied, Batched, BatchSize, batchVars

LEMMA LiveAfter ==
    ASSUME TypeOK, NEW S \in SUBSET Requests
    PROVE  /\ session' = SessionsWithout(S) => Live' = Live \ S
           /\ session' = SessionsAfter(S) => Live' \subseteq Live \cup S
  BY DEF Live, SessionsWithout, SessionsAfter, TypeOK, NoSession

\* Numbering the requests of S from 0 on makes a dense batch of them.
LEMMA NumberedBatch ==
    ASSUME NEW S \in SUBSET Requests, NEW f \in SlotNumberings(S),
           NEW cell \in [S -> Cell], \A r \in S : cell[r].req = r,
           batchSlots' = SlotsOf(S, f), kv' = Laid(S, f, cell)
    PROVE  /\ Batched' = S /\ BatchSize' = Cardinality(S)
           /\ SlotsDense' /\ SlotHoldsItsRequest'
           /\ \A r \in S : batchSlots'[r] = f[r] /\ f[r] < Cardinality(S)
  <1>1. f \in [S -> 0 .. Cardinality(S) - 1] /\ Cardinality(S) \in Nat
    BY SubsetSize DEF SlotNumberings
  <1>2. \A r \in S : batchSlots'[r] = f[r] /\ f[r] < Cardinality(S) /\ f[r] # NoSlot
    BY <1>1 DEF SlotsOf, NoSlot
  <1>3. Batched' = S
    BY <1>2 DEF Batched, SlotsOf
  <1>4. Occupied' = 0 .. Cardinality(S) - 1
    <2>1. Occupied' \subseteq 0 .. Cardinality(S) - 1
      BY <1>1, <1>2, <1>3 DEF Occupied
    <2>2. 0 .. Cardinality(S) - 1 \subseteq Occupied'
      BY <1>2, <1>3 DEF Occupied, SlotNumberings
    <2> QED
      BY <2>1, <2>2
  <1>5. \A r, q \in Batched' : r # q => batchSlots'[r] # batchSlots'[q]
    BY <1>2, <1>3 DEF SlotNumberings
  <1>6. SlotHoldsItsRequest'
    BY <1>2, <1>3, LaidOut DEF SlotHoldsItsRequest
  <1> QED
    BY <1>2, <1>3, <1>4, <1>5, <1>6 DEF SlotsDense, BatchSize

LEMMA InitBatchedInv ==
    ASSUME EngineInv, InitBatched
    PROVE  EngineInv'
  <1>1. TypeOK'
    BY InitBatchedType DEF EngineInv
  <1>2. PICK f \in SlotNumberings(Live) :
            /\ batchSlots' = SlotsOf(Live, f)
            /\ kv' = Laid(Live, f, [r \in Live |-> Token(r, session[r])])
    BY DEF InitBatched
  <1> DEFINE cell == [r \in Live |-> Token(r, session[r])]
  <1>3. cell \in [Live -> Cell] /\ \A r \in Live : cell[r].req = r
    BY Sizes, TokenType DEF EngineInv, TypeOK, Token
  <1>4. /\ Batched' = Live /\ BatchSize' = Cardinality(Live)
        /\ SlotsDense' /\ SlotHoldsItsRequest'
        /\ \A r \in Live : batchSlots'[r] < Cardinality(Live)
    <2> HIDE DEF cell
    <2>1. kv' = Laid(Live, f, cell)
      BY <1>2 DEF cell
    <2> QED
      BY <1>2, <1>3, <2>1, Sizes, NumberedBatch
  <1>5. Live' = {}
    BY LiveAfter, Sizes DEF InitBatched, EngineInv
  <1>6. maxBatch' >= Cardinality(Live)
    BY Sizes, EngineAssumption DEF InitBatched, Larger, Smaller
  <1>7. WithinCapacity'
    BY <1>1, <1>4, <1>6, Sizes, EngineAssumption DEF WithinCapacity, TypeOK, Slots, NoSlot
  <1> QED
    BY <1>1, <1>4, <1>5, <1>7 DEF EngineInv, KVInOnePlace, ActiveMatches, InitBatched

LEMMA PrefillBatchedUniformInv ==
    ASSUME EngineInv, NEW S \in SUBSET Requests, \A r \in S : Fresh(r),
           PrefillBatchedUniform(S)
    PROVE  EngineInv'
  <1>1. TypeOK'
    BY PrefillBatchedUniformType DEF EngineInv
  <1>2. PICK f \in SlotNumberings(S) :
            /\ batchSlots' = SlotsOf(S, f)
            /\ kv' = Laid(S, f, [r \in S |-> Token(r, 1)])
    BY DEF PrefillBatchedUniform
  <1> DEFINE cell == [r \in S |-> Token(r, 1)]
  <1>3. cell \in [S -> Cell] /\ \A r \in S : cell[r].req = r
    BY TokenType DEF Token
  <1>4. /\ Batched' = S /\ BatchSize' = Cardinality(S)
        /\ SlotsDense' /\ SlotHoldsItsRequest'
        /\ \A r \in S : batchSlots'[r] < Cardinality(S)
    <2> HIDE DEF cell
    <2>1. kv' = Laid(S, f, cell)
      BY <1>2 DEF cell
    <2> QED
      BY <1>2, <1>3, <2>1, NumberedBatch
  <1>5. Live' \cap S = {}
    BY DEF PrefillBatchedUniform, Live, Fresh
  <1>6. maxBatch' >= Cardinality(S) /\ Cardinality(S) \in Nat
    BY SubsetSize, EngineAssumption DEF PrefillBatchedUniform, Larger
  <1>7. WithinCapacity'
    BY <1>1, <1>4, <1>6, EngineAssumption DEF WithinCapacity, TypeOK, Slots, NoSlot
  <1> QED
    BY <1>1, <1>4, <1>5, <1>7 DEF EngineInv, KVInOnePlace, ActiveMatches,
       PrefillBatchedUniform

LEMMA AddBatchSlotInv ==
    ASSUME EngineInv, NEW r \in Requests, AddBatchSlot(r)
    PROVE  EngineInv'
  <1>1. TypeOK'
    BY AddBatchSlotType DEF EngineInv
  <1>2. /\ NextSlot = BatchSize /\ BatchSize \in Slots /\ BatchSize < maxBatch
        /\ active = BatchSize
    BY Sizes, EngineAssumption
    DEF AddBatchSlot, RoomForSlot, NextSlot, Slots, EngineInv, TypeOK, ActiveMatches
  <1>3. r \notin Batched
    BY DEF AddBatchSlot, EngineInv, KVInOnePlace, Live
  <1>4. /\ batchSlots' = [batchSlots EXCEPT ![r] = BatchSize]
        /\ kv' = [kv EXCEPT ![BatchSize] = Token(r, session[r])]
    BY <1>2 DEF AddBatchSlot
  <1>5. Batched' = Batched \cup {r} /\ BatchSize' = BatchSize + 1
    <2>1. Batched' = Batched \cup {r}
      BY <1>2, <1>4 DEF Batched, EngineInv, TypeOK, Slots, NoSlot
    <2> QED
      BY <2>1, <1>3, Sizes, FS_AddElement DEF BatchSize
  <1>6. \A q \in Batched : batchSlots'[q] = batchSlots[q] /\ batchSlots[q] \in 0 .. BatchSize - 1
    BY <1>3, <1>4 DEF EngineInv, SlotsDense, Occupied, TypeOK, Batched
  <1>7. batchSlots'[r] = BatchSize
    BY <1>4 DEF EngineInv, TypeOK
  <1>8. SlotsDense'
    <2>1. Occupied' = Occupied \cup {BatchSize}
      BY <1>5, <1>6, <1>7 DEF Occupied
    <2>2. Occupied' = 0 .. BatchSize' - 1
      BY <2>1, <1>5, <1>2 DEF EngineInv, SlotsDense, Slots
    <2>3. \A p, q \in Batched' : p # q => batchSlots'[p] # batchSlots'[q]
      BY <1>2, <1>5, <1>6, <1>7 DEF EngineInv, SlotsDense, Slots
    <2> QED
      BY <2>2, <2>3 DEF SlotsDense
  <1>9. SlotHoldsItsRequest'
    <2>1. kv'[BatchSize].req = r
      BY <1>2, <1>4 DEF EngineInv, TypeOK, Token
    <2>2. \A q \in Batched : kv'[batchSlots[q]] = kv[batchSlots[q]]
      BY <1>2, <1>4, <1>6 DEF EngineInv, TypeOK, Slots, Batched
    <2> QED
      BY <2>1, <2>2, <1>5, <1>6, <1>7 DEF EngineInv, SlotHoldsItsRequest
  <1>10. KVInOnePlace'
    <2>1. Live' = Live \ {r}
      BY LiveAfter DEF AddBatchSlot, EngineInv
    <2> QED
      BY <2>1, <1>5 DEF EngineInv, KVInOnePlace
  <1>11. ActiveMatches'
    BY <1>2, <1>5 DEF AddBatchSlot, ActiveMatches, Larger, Slots
  <1>12. WithinCapacity'
    BY <1>2, <1>5, <1>6, <1>7 DEF AddBatchSlot, WithinCapacity, EngineInv
  <1> QED
    BY <1>1, <1>8, <1>9, <1>10, <1>11, <1>12 DEF EngineInv

LEMMA RemoveBatchSlotInv ==
    ASSUME EngineInv, NEW r \in Requests, RemoveBatchSlot(r)
    PROVE  EngineInv'
  <1> DEFINE slot == batchSlots[r]
             lastSlot == BatchSize - 1
  <1>1. TypeOK'
    BY RemoveBatchSlotType DEF EngineInv
  <1>2. r \in Batched /\ slot \in 0 .. lastSlot /\ lastSlot \in Slots
    <2>1. r \in Batched
      BY DEF RemoveBatchSlot, Batched
    <2>2. slot \in 0 .. lastSlot
      BY <2>1 DEF EngineInv, SlotsDense, Occupied
    <2> QED
      BY <2>1, <2>2, Sizes, EngineAssumption DEF Slots
  <1>3. Batched' = Batched \ {r} /\ BatchSize' = BatchSize - 1 /\ active = BatchSize
    <2>1. Batched' = Batched \ {r}
      BY <1>2 DEF RemoveBatchSlot, SlotsWithout, Batched, NoSlot
    <2> QED
      BY <2>1, <1>2, Sizes, FS_RemoveElement DEF BatchSize, EngineInv, ActiveMatches
  <1>4. \A q \in Batched' : batchSlots[q] \in 0 .. lastSlot /\ batchSlots[q] # slot
    BY <1>2, <1>3 DEF EngineInv, SlotsDense, Occupied
  <1>5. \A q \in Batched' :
            batchSlots'[q] = IF batchSlots[q] = lastSlot THEN slot ELSE batchSlots[q]
    BY <1>3, Sizes DEF RemoveBatchSlot, SlotsWithout, Batched
  <1>6. \A q \in Batched' : kv'[batchSlots'[q]] = kv[batchSlots[q]]
    <2> SUFFICES ASSUME NEW q \in Batched' PROVE kv'[batchSlots'[q]] = kv[batchSlots[q]]
      OBVIOUS
    <2>1. kv' = IF slot < lastSlot THEN [kv EXCEPT ![slot] = kv[lastSlot]] ELSE kv
      BY DEF RemoveBatchSlot, RowsWithout
    <2>2. slot \in Slots /\ batchSlots[q] \in Slots
      BY <1>2, <1>4, Sizes, EngineAssumption DEF Slots
    <2>3. CASE batchSlots[q] = lastSlot
      BY <2>1, <2>2, <2>3, <1>2, <1>4, <1>5 DEF EngineInv, TypeOK, Slots
    <2>4. CASE batchSlots[q] # lastSlot
      BY <2>1, <2>2, <2>4, <1>4, <1>5 DEF EngineInv, TypeOK
    <2> QED
      BY <2>3, <2>4
  <1>7. SlotsDense'
    <2>1. Occupied' \subseteq 0 .. lastSlot - 1
      BY <1>2, <1>4, <1>5 DEF Occupied, Slots
    <2>2. ASSUME NEW s \in 0 .. lastSlot - 1 PROVE s \in Occupied'
      <3>1. PICK q \in Batched : batchSlots[q] = s
        BY <2>2, <1>2 DEF EngineInv, SlotsDense, Occupied, Slots
      <3>2. CASE s # slot
        BY <3>1, <3>2, <1>3, <1>5, <1>2, <2>2 DEF Occupied, Slots
      <3>3. CASE s = slot
        <4>1. PICK p \in Batched : batchSlots[p] = lastSlot
          BY <1>2 DEF EngineInv, SlotsDense, Occupied, Slots
        <4>2. p \in Batched'
          BY <4>1, <3>3, <2>2, <1>2, <1>3 DEF Slots
        <4> QED
          BY <4>1, <4>2, <3>3, <1>5 DEF Occupied
      <3> QED
        BY <3>2, <3>3
    <2>3. \A p, q \in Batched' : p # q => batchSlots'[p] # batchSlots'[q]
      BY <1>3, <1>4, <1>5 DEF EngineInv, SlotsDense
    <2>4. Occupied' = 0 .. BatchSize' - 1
      BY <2>1, <2>2, <1>3
    <2> QED
      BY <2>3, <2>4 DEF SlotsDense
  <1>8. SlotHoldsItsRequest'
    BY <1>3, <1>6 DEF EngineInv, SlotHoldsItsRequest
  <1>9. KVInOnePlace'
    BY <1>3 DEF RemoveBatchSlot, EngineInv, KVInOnePlace, Live
  <1>10. ActiveMatches'
    BY <1>2, <1>3 DEF RemoveBatchSlot, ActiveWithoutOne, ActiveMatches, Larger, Slots
  <1>11. WithinCapacity'
    BY <1>2, <1>3, <1>4, <1>5 DEF RemoveBatchSlot, WithinCapacity, EngineInv
  <1> QED
    BY <1>1, <1>7, <1>8, <1>9, <1>10, <1>11 DEF EngineInv

\* Decoding changes what rows hold, not whose they are.
LEMMA DecodeInv ==
    ASSUME EngineInv, TypeOK', NEW input \in [Slots -> Cell], kv' = KVAfter(input),
           UNCHANGED <<session, batchSlots, active, maxBatch>>
    PROVE  EngineInv'
  <1>1. \A s \in Slots : kv'[s].req = kv[s].req
    BY ForwardKeepsOwner DEF KVAfter, EngineInv, TypeOK
  <1>2. Batched' = Batched /\ BatchSize' = BatchSize /\ Occupied' = Occupied /\ Live' = Live
    BY DEF Batched, BatchSize, Occupied, Live
  <1>3. \A r \in Batched : batchSlots[r] \in Slots
    BY DEF EngineInv, TypeOK, Batched
  <1>4. SlotHoldsItsRequest'
    BY <1>1, <1>2, <1>3 DEF SlotHoldsItsRequest, EngineInv
  <1> QED
    BY <1>2, <1>4 DEF EngineInv, SlotsDense, KVInOnePlace, ActiveMatches, WithinCapacity

LEMMA DecodeBatchInv ==
    ASSUME EngineInv, DecodeBatch
    PROVE  EngineInv'
  <1>1. TypeOK' /\ batchTokens \in [Slots -> Cell] /\ pendingSampledTokens \in [Slots -> Cell]
    BY DecodeBatchType DEF EngineInv, TypeOK
  <1> QED
    BY <1>1, DecodeInv DEF DecodeBatch, DecodeAsync, DecodeSync

LEMMA DecodeAllLogprobsInv ==
    ASSUME EngineInv, DecodeAllLogprobs
    PROVE  EngineInv'
  <1>1. TypeOK' /\ batchTokens \in [Slots -> Cell]
    BY DecodeAllLogprobsType DEF EngineInv, TypeOK
  <1>2. CASE DecodeLogprobsBatch
    BY <1>1, <1>2, DecodeInv DEF DecodeLogprobsBatch
  <1>3. CASE DecodeLogprobsFallback
    <2>1. Live' \cap Batched = {}
      BY <1>3 DEF DecodeLogprobsFallback, EngineInv, KVInOnePlace, Live
    <2> QED
      BY <1>1, <1>3, <2>1, SessionStepInv DEF DecodeLogprobsFallback, batchVars
  <1> QED
    BY <1>2, <1>3 DEF DecodeAllLogprobs

LEMMA NextInv == EngineInv /\ [Next]_engineVars => EngineInv'
  <1> SUFFICES ASSUME EngineInv, [Next]_engineVars PROVE EngineInv'
    OBVIOUS
  <1>0. TypeOK /\ TypeOK' /\ Live \cap Batched = {}
    BY NextType DEF EngineInv, KVInOnePlace
  <1>1. ASSUME NEW r \in Requests, Fresh(r), PrefillReq(r) PROVE EngineInv'
    <2>1. Live' \cap Batched = {}
      BY <1>0, <1>1 DEF PrefillReq, Fresh, Live, Batched, TypeOK
    <2> QED
      BY <1>0, <1>1, <2>1, SessionStepInv DEF PrefillReq
  <1>2. ASSUME NEW r \in Requests, DecodeStepReq(r) PROVE EngineInv'
    <2>1. Live' \cap Batched = {}
      BY <1>0, <1>2, LiveAfter DEF DecodeStepReq, Live
    <2> QED
      BY <1>0, <1>2, <2>1, SessionStepInv DEF DecodeStepReq
  <1>3. ASSUME NEW r \in Requests, FinishReq(r) PROVE EngineInv'
    <2>1. Live' \cap Batched = {}
      BY <1>0, <1>3, LiveAfter DEF FinishReq
    <2> QED
      BY <1>0, <1>3, <2>1, SessionStepInv DEF FinishReq
  <1>4. CASE Reset
    <2>1. Live' \cap Batched = {}
      BY <1>0, <1>4, LiveAfter DEF Reset
    <2> QED
      BY <1>0, <1>4, <2>1, SessionStepInv DEF Reset
  <1>5. CASE InitBatched
    BY <1>5, InitBatchedInv
  <1>6. ASSUME NEW r \in Requests, AddBatchSlot(r) PROVE EngineInv'
    BY <1>6, AddBatchSlotInv
  <1>7. ASSUME NEW r \in Requests, RemoveBatchSlot(r) PROVE EngineInv'
    BY <1>7, RemoveBatchSlotInv
  <1>8. ASSUME NEW S \in SUBSET Requests, \A r \in S : Fresh(r), PrefillBatchedUniform(S)
        PROVE  EngineInv'
    BY <1>8, PrefillBatchedUniformInv
  <1>9. CASE DecodeBatch
    BY <1>9, DecodeBatchInv
  <1>10. ASSUME NEW maxReqs, NEW S \in SUBSET Requests, DecodeSemiBatched(maxReqs, S)
         PROVE  EngineInv'
    <2>1. Live' \cap Batched = {}
      BY <1>0, <1>10, LiveAfter DEF DecodeSemiBatched
    <2> QED
      BY <1>0, <1>10, <2>1, SessionStepInv DEF DecodeSemiBatched
  <1>11. CASE DecodeAllLogprobs
    BY <1>11, DecodeAllLogprobsInv
  <1>12. CASE UNCHANGED engineVars
    <2>1. Live' \cap Batched = {}
      BY <1>0, <1>12 DEF engineVars, Live
    <2> QED
      BY <1>0, <1>12, <2>1, SessionStepInv DEF engineVars, batchVars
  <1> QED
    BY <1>1, <1>2, <1>3, <1>4, <1>5, <1>6, <1>7, <1>8, <1>9, <1>10, <1>11, <1>12
    DEF Next

\* Whatever the order of the engine's entry points, each request's rows, slot and
\* counters stay consistent: EngineInv is inductive.
THEOREM EngineInvariant == Spec => []EngineInv
  <1>1. Init => EngineInv
    BY InitInv
  <1>2. EngineInv /\ [Next]_engineVars => EngineInv'
    BY NextInv
  <1> QED
    BY <1>1, <1>2, PTL DEF Spec

\* The batch stays dense: its requests are in the slots 0 .. B-1, one in each.
THEOREM BatchIsDense == Spec => []SlotsDense
  BY EngineInvariant, PTL DEF EngineInv

\* The row a request's slot points at was built from that request's prompt.
THEOREM RowsFollowRequests == Spec => []SlotHoldsItsRequest
  BY EngineInvariant, PTL DEF EngineInv

\* No request has its KV cache both in a session and in the batch.
THEOREM KVHeldOnce == Spec => []KVInOnePlace
  BY EngineInvariant, PTL DEF EngineInv

\* The caches' own row count is the number of slots in use.
THEOREM CountersAgree == Spec => []ActiveMatches
  BY EngineInvariant, PTL DEF EngineInv

\* Slots stay below the number of rows allocated.
THEOREM SlotsWithinCapacity == Spec => []WithinCapacity
  BY EngineInvariant, PTL DEF EngineInv

-----------------------------------------------------------------------------
(* What a change of the slot map leaves alone                              *)

LEMMA AddKeepsRows ==
    ASSUME EngineInv, NEW r \in Requests, AddBatchSlot(r), NEW q \in Batched
    PROVE  /\ kv'[batchSlots'[q]] = kv[batchSlots[q]]
           /\ batchTokens'[batchSlots'[q]] = batchTokens[batchSlots[q]]
  <1>1. r \notin Batched
    BY DEF AddBatchSlot, EngineInv, KVInOnePlace, Live
  <1>2. batchSlots'[q] = batchSlots[q] /\ batchSlots[q] \in 0 .. BatchSize - 1
        /\ batchSlots[q] \in Slots
    BY <1>1 DEF AddBatchSlot, EngineInv, SlotsDense, Occupied, TypeOK, Batched
  <1> QED
    BY <1>2, Sizes DEF AddBatchSlot, NextSlot, EngineInv, TypeOK

LEMMA RemoveKeepsRows ==
    ASSUME EngineInv, NEW r \in Requests, RemoveBatchSlot(r),
           NEW q \in Batched, q # r
    PROVE  /\ kv'[batchSlots'[q]] = kv[batchSlots[q]]
           /\ batchTokens'[batchSlots'[q]] = batchTokens[batchSlots[q]]
  <1> DEFINE slot == batchSlots[r]
             lastSlot == BatchSize - 1
  <1>1. /\ r \in Batched /\ slot \in 0 .. lastSlot /\ batchSlots[q] \in 0 .. lastSlot
        /\ batchSlots[q] # slot
    BY DEF RemoveBatchSlot, Batched, EngineInv, SlotsDense, Occupied
  <1>2. slot \in Slots /\ batchSlots[q] \in Slots
    BY <1>1, Sizes, EngineAssumption DEF Slots
  <1>3. batchSlots'[q] = IF batchSlots[q] = lastSlot THEN slot ELSE batchSlots[q]
    BY DEF RemoveBatchSlot, SlotsWithout, Batched
  <1>4. ASSUME NEW rows \in [Slots -> Cell]
        PROVE  RowsWithout(r, rows)[batchSlots'[q]] = rows[batchSlots[q]]
    BY <1>1, <1>2, <1>3, Sizes DEF RowsWithout
  <1> QED
    BY <1>4 DEF RemoveBatchSlot, EngineInv, TypeOK

\* A request that stays in the batch keeps its KV rows and its next token
\* whenever requests are added to the batch or removed from it.
THEOREM RowsSurvive == Spec => RowsSurviveMoves
  <1> DEFINE Kept(q) == batchSlots'[q] # NoSlot =>
                /\ kv'[batchSlots'[q]] = kv[batchSlots[q]]
                /\ batchTokens'[batchSlots'[q]] = batchTokens[batchSlots[q]]
  <1>1. EngineInv /\ [Next]_engineVars => MovesKeepRows
    <2> SUFFICES ASSUME EngineInv, [Next]_engineVars, batchSlots' # batchSlots,
                        NEW q \in Batched
                 PROVE  Kept(q)
      BY DEF MovesKeepRows
    <2>1. ASSUME NEW r \in Requests, AddBatchSlot(r) PROVE Kept(q)
      BY <2>1, AddKeepsRows
    <2>2. ASSUME NEW r \in Requests, RemoveBatchSlot(r) PROVE Kept(q)
      <3>1. CASE q = r
        BY <2>2, <3>1 DEF RemoveBatchSlot, SlotsWithout
      <3>2. CASE q # r
        BY <2>2, <3>2, RemoveKeepsRows
      <3> QED
        BY <3>1, <3>2
    <2>3. CASE InitBatched
      <3>1. q \in Requests /\ q \notin Live
        BY DEF EngineInv, KVInOnePlace, Batched
      <3> QED
        BY <2>3, <3>1 DEF InitBatched, SlotsOf
    <2>4. ASSUME NEW S \in SUBSET Requests, \A r \in S : Fresh(r), PrefillBatchedUniform(S)
          PROVE  Kept(q)
      <3>1. q \in Requests /\ q \notin S
        BY <2>4 DEF Fresh, Batched
      <3> QED
        BY <2>4, <3>1 DEF PrefillBatchedUniform, SlotsOf
    <2> QED
      BY <2>1, <2>2, <2>3, <2>4
      DEF Next, PrefillReq, DecodeStepReq, FinishReq, Reset, DecodeBatch,
          DecodeSemiBatched, DecodeAllLogprobs, DecodeLogprobsBatch,
          DecodeLogprobsFallback, batchVars, engineVars
  <1> QED
    BY <1>1, EngineInvariant, PTL DEF Spec, RowsSurviveMoves
-----------------------------------------------------------------------------
(* No token is read from a slot that was never written                     *)

\* The next token of every batched request, and every token that is pending for
\* a slot, was sampled for some request.
Genuine ==
    /\ \A r \in Batched : batchTokens[batchSlots[r]].req # NoRequest
    /\ \A s \in Slots : s < pendingSampledB => pendingSampledTokens[s].req # NoRequest

\* The batch occupies the slots below its size, and no others.
LEMMA SlotRange ==
    ASSUME EngineInv
    PROVE  /\ \A r \in Batched : batchSlots[r] \in Slots /\ batchSlots[r] \in Occupied /\ batchSlots[r] < BatchSize
           /\ \A s \in Slots : s < BatchSize => \E r \in Batched : batchSlots[r] = s
  <1>1. /\ \A r \in Batched : batchSlots[r] \in Occupied
        /\ \A s \in Occupied : \E r \in Batched : batchSlots[r] = s
    BY DEF Occupied
  <1>2. Occupied = 0 .. BatchSize - 1
    BY DEF EngineInv, SlotsDense
  <1>3. \A s \in Occupied : s \in Slots /\ s < BatchSize
    BY <1>2, Sizes, EngineAssumption DEF Slots
  <1>4. \A s \in Slots : s < BatchSize => s \in Occupied
    BY <1>2, Sizes, EngineAssumption DEF Slots
  <1> QED
    BY <1>1, <1>3, <1>4

LEMMA TokenGenuine ==
    ASSUME NEW r \in Requests, NEW n
    PROVE  Token(r, n).req # NoRequest
  BY EngineAssumption DEF Token

\* A forward pass over the batch samples for the requests in its rows.
LEMMA SampledGenuine ==
    ASSUME EngineInv, NEW input \in [Slots -> Cell]
    PROVE  /\ \A s \in Slots : s < BatchSize => SampledAfter(input)[s].req # NoRequest
           /\ \A r \in Batched : SampledAfter(input)[batchSlots[r]].req # NoRequest
  <1>1. \A r \in Batched : batchSlots[r] \in Slots /\ batchSlots[r] < BatchSize /\ r \in Requests
    BY SlotRange DEF Batched
  <1>2. ASSUME NEW s \in Slots, s < BatchSize PROVE SampledAfter(input)[s].req # NoRequest
    <2>1. PICK r \in Batched : batchSlots[r] = s
      BY <1>2, SlotRange
    <2>2. kv[s] \in Cell /\ kv[s].req = r
      BY <2>1 DEF EngineInv, TypeOK, SlotHoldsItsRequest
    <2>3. Forward(kv[s], input[s]) \in Cell /\ Forward(kv[s], input[s]).req = r
      BY <2>2, ForwardKeepsOwner
    <2>4. Sample(Forward(kv[s], input[s])).req = r
      BY <2>3 DEF Sample, Token
    <2> QED
      BY <1>1, <1>2, <2>1, <2>4, EngineAssumption DEF SampledAfter
  <1> QED
    BY <1>1, <1>2

\* A numbering hands each request a token of its own.
LEMMA LaidGenuine ==
    ASSUME TypeOK, NEW S \in SUBSET Requests, NEW f \in SlotNumberings(S),
           NEW n \in [S -> Nat],
           batchSlots' = SlotsOf(S, f),
           batchTokens' = Laid(S, f, [r \in S |-> Token(r, n[r])])
    PROVE  \A r \in Batched' : batchTokens'[batchSlots'[r]].req # NoRequest
  <1>1. [r \in S |-> Token(r, n[r])] \in [S -> Cell]
    BY TokenType
  <1>2. \A r \in S : batchTokens'[f[r]] = Token(r, n[r])
    BY <1>1, LaidOut
  <1>3. \A r \in Batched' : r \in S /\ batchSlots'[r] = f[r]
    BY DEF Batched, SlotsOf
  <1> QED
    BY <1>2, <1>3, TokenGenuine

LEMMA GenuineStep ==
    ASSUME EngineInv, Genuine, [Next]_engineVars
    PROVE  Genuine'
  <1>1. TypeOK
    BY DEF EngineInv
  <1>2. ASSUME UNCHANGED <<batchSlots, batchTokens, pendingSampledTokens, pendingSampledB>>
        PROVE  Genuine'
    BY <1>2 DEF Genuine, Batched
  <1>3. CASE \/ UNCHANGED engineVars
             \/ \E r \in Requests : PrefillReq(r) \/ DecodeStepReq(r) \/ FinishReq(r)
             \/ Reset
             \/ \E maxReqs \in 1 .. Cardinality(Requests), S \in SUBSET Requests :
                    DecodeSemiBatched(maxReqs, S)
             \/ DecodeLogprobsFallback
    BY <1>2, <1>3 DEF engineVars, PrefillReq, DecodeStepReq, FinishReq, Reset, DecodeSemiBatched,
       DecodeLogprobsFallback, batchVars, pendingVars
  <1>4. CASE InitBatched
    <2>1. PICK f \in SlotNumberings(Live) :
              /\ batchSlots' = SlotsOf(Live, f)
              /\ batchTokens' = Laid(Live, f, [r \in Live |-> Token(r, session[r] + 1)])
      BY <1>4 DEF InitBatched
    <2> DEFINE n == [r \in Live |-> session[r] + 1]
    <2>2. n \in [Live -> Nat] /\ Live \in SUBSET Requests
      BY <1>1, Sizes DEF TypeOK, Live
    <2>3. batchTokens' = Laid(Live, f, [r \in Live |-> Token(r, n[r])])
      BY <2>1
    <2> HIDE DEF n
    <2>4. \A r \in Batched' : batchTokens'[batchSlots'[r]].req # NoRequest
      BY <1>1, <2>1, <2>2, <2>3, LaidGenuine
    <2>5. \A s \in Slots : ~(s < pendingSampledB')
      BY <1>4 DEF InitBatched, Slots
    <2> QED
      BY <2>4, <2>5 DEF Genuine
  <1>5. ASSUME NEW S \in SUBSET Requests, PrefillBatchedUniform(S) PROVE Genuine'
    <2>1. PICK f \in SlotNumberings(S) :
              /\ batchSlots' = SlotsOf(S, f)
              /\ batchTokens' = Laid(S, f, [r \in S |-> Token(r, 2)])
      BY <1>5 DEF PrefillBatchedUniform
    <2> DEFINE n == [r \in S |-> 2]
    <2>2. n \in [S -> Nat] /\ batchTokens' = Laid(S, f, [r \in S |-> Token(r, n[r])])
      BY <2>1
    <2> HIDE DEF n
    <2>3. \A r \in Batched' : batchTokens'[batchSlots'[r]].req # NoRequest
      BY <1>1, <2>1, <2>2, LaidGenuine
    <2> QED
      BY <1>5, <2>3 DEF Genuine, PrefillBatchedUniform, pendingVars
  <1>6. ASSUME NEW r \in Requests, AddBatchSlot(r) PROVE Genuine'
    <2>1. \A q \in Batched' : q # r => q \in Batched
      BY <1>1, <1>6 DEF AddBatchSlot, Batched, TypeOK
    <2>2. batchSlots'[r] = NextSlot /\ NextSlot \in Slots
      BY <1>1, <1>6, Sizes, EngineAssumption DEF AddBatchSlot, TypeOK, NextSlot, RoomForSlot, Slots
    <2>3. batchTokens'[batchSlots'[r]].req # NoRequest
      BY <1>1, <1>6, <2>2, TokenGenuine DEF AddBatchSlot, TypeOK
    <2> QED
      BY <1>6, <2>1, <2>3, AddKeepsRows DEF Genuine, AddBatchSlot, pendingVars
  <1>7. ASSUME NEW r \in Requests, RemoveBatchSlot(r) PROVE Genuine'
    <2>1. \A q \in Batched' : q # r /\ q \in Batched
      <3>1. BatchSize - 1 # NoSlot
        <4>1. r \in Batched /\ batchSlots[r] \in 0 .. BatchSize - 1
          BY <1>7 DEF RemoveBatchSlot, Batched, EngineInv, SlotsDense, Occupied
        <4> QED
          BY <4>1, Sizes DEF NoSlot
      <3> QED
        BY <1>7, <3>1 DEF RemoveBatchSlot, SlotsWithout, Batched
    <2> QED
      BY <1>7, <2>1, RemoveKeepsRows DEF Genuine, RemoveBatchSlot, pendingVars
  <1>8. \A r \in Batched : batchSlots[r] \in Slots /\ batchSlots[r] \in Occupied
    BY SlotRange
  <1>9. CASE DecodeBatch
    <2>1. Batched' = Batched /\ batchSlots' = batchSlots
      BY <1>9 DEF DecodeBatch, Batched
    <2>2. CASE DecodeAsync
      <3>1. /\ \A s \in Slots : s < BatchSize => SampledAfter(pendingSampledTokens)[s].req # NoRequest
            /\ \A r \in Batched : batchSlots[r] < BatchSize
        BY <1>1, SampledGenuine, SlotRange DEF TypeOK
      <3>2. \A r \in Batched : batchTokens'[batchSlots[r]] = pendingSampledTokens[batchSlots[r]]
        BY <1>8, <2>2 DEF DecodeAsync
      <3>3. pendingSampledB = BatchSize /\ pendingSampledB' = BatchSize
            /\ pendingSampledTokens' = SampledAfter(pendingSampledTokens)
        BY <2>2 DEF DecodeAsync, PipelineValid
      <3> QED
        BY <1>8, <2>1, <3>1, <3>2, <3>3 DEF Genuine
    <2>3. CASE DecodeSync
      <3>1. /\ \A s \in Slots : s < BatchSize => SampledAfter(batchTokens)[s].req # NoRequest
            /\ \A r \in Batched : SampledAfter(batchTokens)[batchSlots[r]].req # NoRequest
        BY <1>1, SampledGenuine DEF TypeOK
      <3>2. \A r \in Batched : batchTokens'[batchSlots[r]] = SampledAfter(batchTokens)[batchSlots[r]]
        BY <1>8, <2>3 DEF DecodeSync
      <3>3. \/ pendingSampledB' = BatchSize /\ pendingSampledTokens' = SampledAfter(batchTokens)
            \/ pendingSampledB' = 0
        BY <2>3 DEF DecodeSync
      <3>4. \A s \in Slots : ~(s < 0)
        BY DEF Slots
      <3> QED
        BY <2>1, <3>1, <3>2, <3>3, <3>4 DEF Genuine
    <2> QED
      BY <1>9, <2>2, <2>3 DEF DecodeBatch
  <1>10. CASE DecodeLogprobsBatch
    <2>1. \A r \in Batched : SampledAfter(batchTokens)[batchSlots[r]].req # NoRequest
      BY <1>1, SampledGenuine DEF TypeOK
    <2>2. \A r \in Batched : batchTokens'[batchSlots[r]] = SampledAfter(batchTokens)[batchSlots[r]]
      BY <1>8, <1>10 DEF DecodeLogprobsBatch
    <2> QED
      BY <1>10, <2>1, <2>2 DEF Genuine, DecodeLogprobsBatch, Batched, pendingVars
  <1> QED
    BY <1>3, <1>4, <1>5, <1>6, <1>7, <1>9, <1>10 DEF Next, DecodeAllLogprobs

\* What decode_all and decode_all_logprobs return for the requests of a batch.
LEMMA GenuineReplies ==
    ASSUME EngineInv, Genuine
    PROVE  \A r \in Batched : BatchReply[r].req # NoRequest /\ LogprobsReply[r].req # NoRequest
  <1>1. \A r \in Batched : batchSlots[r] \in Slots /\ batchSlots[r] < BatchSize
    BY SlotRange
  <1>2. \A r \in Batched : BatchReply[r].req # NoRequest
    BY <1>1 DEF Genuine, BatchReply, PipelineValid
  <1>3. \A r \in Batched : LogprobsReply[r].req # NoRequest
    BY SampledGenuine DEF LogprobsReply, EngineInv, TypeOK
  <1> QED
    BY <1>2, <1>3

\* In any order of calls, no decode of the batch returns a token that was not
\* sampled for some request: neither the host copies nor what is pending can
\* reach a slot that no request has been given.
THEOREM RepliesGenuine ==
    Spec => [](\A r \in Batched : BatchReply[r].req # NoRequest /\ LogprobsReply[r].req # NoRequest)
  <1>1. Init => Genuine
    BY DEF Init, Genuine, Batched, Slots
  <1>2. EngineInv /\ Genuine /\ [Next]_engineVars => Genuine'
    BY GenuineStep
  <1> QED
    BY <1>1, <1>2, EngineInvariant, GenuineReplies, PTL DEF Spec

=============================================================================
