---------------------------- MODULE HybridProofs ----------------------------
(***************************************************************************)
(* Theorems about HybridBatch: its types; no copy that fails leaves a hole *)
(* in the slot map, or tokens and rows for fewer than max_num_seqs slots;  *)
(* and without failures every layer is a dense engine.                     *)
(***************************************************************************)
EXTENDS HybridBatch, TLAPS, FiniteSetTheorems

Occupied == Layer(1)!Occupied
SlotsDense == Layer(1)!SlotsDense
NoSession == Layer(1)!NoSession

\* How the engine's definitions read the slot map, before and after a step.
MapReads ==
    /\ Live = {r \in Requests : session[r] # 0}
    /\ Batched = {r \in Requests : batchSlots[r] # -1}
    /\ Occupied = {batchSlots[r] : r \in Batched}
    /\ BatchSize = Cardinality(Batched)
    /\ SlotsDense <=> /\ Occupied = 0 .. BatchSize - 1
                      /\ \A r, q \in Batched : r # q => batchSlots[r] # batchSlots[q]
    /\ NoSlot = -1 /\ NoSession = 0

LEMMA MapDefs == MapReads /\ MapReads'
  BY DEF MapReads, Live, Batched, Occupied, BatchSize, SlotsDense, NoSlot, NoSession,
         Layer!Live, Layer!Batched, Layer!Occupied, Layer!BatchSize, Layer!SlotsDense,
         Layer!NoSlot, Layer!NoSession, Layer!Cardinality, Cardinality

\* The types of the slot map and its counts.
MapTypes ==
    /\ session \in [Requests -> Nat]
    /\ batchSlots \in [Requests -> Int]
    /\ maxBatch \in Nat
    /\ tokensLen \in Nat

\* What keeps max_num_seqs slots within the allocation.
Allocated == maxBatch > 0 => maxBatch >= MaxConcurrent /\ tokensLen >= MaxConcurrent

MapInv == MapTypes /\ SlotsDense /\ Allocated

LEMMA MapSizes ==
    /\ Live \in SUBSET Requests /\ Batched \in SUBSET Requests
    /\ \A S \in SUBSET Requests : IsFiniteSet(S) /\ Cardinality(S) \in Nat
                                  /\ Cardinality(S) <= Cardinality(Requests)
  <1>1. Live \in SUBSET Requests /\ Batched \in SUBSET Requests
    BY MapDefs DEF MapReads
  <1>2. ASSUME NEW S \in SUBSET Requests
        PROVE  IsFiniteSet(S) /\ Cardinality(S) \in Nat /\ Cardinality(S) <= Cardinality(Requests)
    BY HybridAssumption, FS_Subset, FS_CardinalityType
  <1> QED
    BY <1>1, <1>2

LEMMA MapInitially == Init => MapInv
  <1> SUFFICES ASSUME Init PROVE MapInv
    OBVIOUS
  <1>1. /\ session = [r \in Requests |-> 0] /\ batchSlots = [r \in Requests |-> -1]
        /\ maxBatch = 0 /\ tokensLen = 0
    BY DEF Init, Layer!Init, Layer!NoSession, Layer!NoSlot
  <1>2. Live = {} /\ Batched = {}
    BY <1>1, MapDefs DEF MapReads
  <1>3. Cardinality({}) = 0
    BY FS_EmptySet
  <1>4. SlotsDense
    BY <1>2, <1>3, MapDefs DEF MapReads
  <1> QED
    BY <1>1, <1>4 DEF MapInv, MapTypes, Allocated

-----------------------------------------------------------------------------
(* The slot map                                                            *)

\* Requests that are given the slots 0 .. k-1, each its own, are a dense batch.
LEMMA DenseBy ==
    ASSUME NEW S \in SUBSET Requests, NEW k \in Nat, NEW f, Cardinality(S) = k,
           \A r \in S : f[r] \in 0 .. k - 1,
           \A r, q \in S : r # q => f[r] # f[q],
           \A s \in 0 .. k - 1 : \E r \in S : f[r] = s,
           batchSlots' = Layer(1)!SlotsOf(S, f)
    PROVE  /\ Batched' = S /\ SlotsDense' /\ batchSlots' \in [Requests -> Int]
  <1>1. \A r \in Requests : batchSlots'[r] = IF r \in S THEN f[r] ELSE -1
    BY DEF Layer!SlotsOf, Layer!NoSlot
  <1>2. Batched' = S
    BY <1>1, MapDefs DEF MapReads
  <1>3. Occupied' = {f[r] : r \in S}
    <2>1. Occupied' = {batchSlots'[r] : r \in S}
      BY <1>2, MapDefs DEF MapReads
    <2> QED
      BY <1>1, <2>1
  <1>4. Occupied' = 0 .. k - 1
    BY <1>3
  <1>5. SlotsDense'
    <2>1. \A r, q \in Batched' : r # q => batchSlots'[r] # batchSlots'[q]
      BY <1>1, <1>2
    <2>2. BatchSize' = k
      BY <1>2, MapDefs DEF MapReads
    <2> QED
      BY <1>4, <2>1, <2>2, MapDefs DEF MapReads
  <1>6. batchSlots' \in [Requests -> Int]
    BY <1>1 DEF Layer!SlotsOf, Layer!NoSlot
  <1> QED
    BY <1>2, <1>5, <1>6

LEMMA NumberingDefs ==
    ASSUME NEW S \in SUBSET Requests, NEW f \in Layer(1)!SlotNumberings(S)
    PROVE  /\ f \in [S -> 0 .. Cardinality(S) - 1]
           /\ \A r, q \in S : r # q => f[r] # f[q]
           /\ \A s \in 0 .. Cardinality(S) - 1 : \E r \in S : f[r] = s
  BY DEF Layer!SlotNumberings, Layer!Cardinality, Cardinality

\* The first k+1 slots of a numbering have k+1 requests.
LEMMA PrefixSize ==
    ASSUME NEW S \in SUBSET Requests, NEW f \in Layer(1)!SlotNumberings(S), NEW k \in Nat,
           k < Cardinality(S)
    PROVE  Cardinality({r \in S : f[r] <= k}) = k + 1
  <1> DEFINE P == {r \in S : f[r] <= k}
             g == [r \in P |-> f[r]]
  <1>1. Cardinality(S) \in Nat /\ IsFiniteSet(P)
    <2>1. P \in SUBSET Requests
      OBVIOUS
    <2> QED
      BY <2>1, MapSizes
  <1>2. g \in Bijection(P, 0 .. k)
    <2>1. \A r \in P : f[r] \in 0 .. k
      BY <1>1, NumberingDefs
    <2>2. \A s \in 0 .. k : \E r \in P : f[r] = s
      BY <1>1, NumberingDefs
    <2>3. \A r, q \in P : f[r] = f[q] => r = q
      BY NumberingDefs
    <2> QED
      BY <2>1, <2>2, <2>3 DEF Bijection, Injection, Surjection, IsInjective
  <1>3. Cardinality(0 .. k) = Cardinality(P)
    BY <1>1, <1>2, FS_Bijection DEF ExistsBijection
  <1>4. Cardinality(0 .. k) = k + 1
    BY FS_Interval
  <1> QED
    BY <1>3, <1>4

-----------------------------------------------------------------------------
(* Each operation keeps the slot map dense and within the allocation       *)

LEMMA AllocatedEnough ==
    ASSUME NEW k \in Nat
    PROVE  TokensFor(k) \in Nat /\ TokensFor(k) >= MaxConcurrent
  BY HybridAssumption DEF TokensFor, Layer!Larger

\* Calls that leave the slots alone.
LEMMA SlotsUntouched ==
    ASSUME MapInv, UNCHANGED <<batchSlots, maxBatch, tokensLen>>, session' \in [Requests -> Nat]
    PROVE  MapInv'
  <1>1. Batched' = Batched /\ Occupied' = Occupied /\ BatchSize' = BatchSize
    BY MapDefs DEF MapReads
  <1>2. SlotsDense'
    BY <1>1, MapDefs DEF MapInv, MapReads
  <1> QED
    BY <1>2 DEF MapInv, MapTypes, Allocated

LEMMA SessionCallMap == ASSUME MapInv, SessionCall PROVE MapInv'
  <1>1. tokensLen' = tokensLen
    BY DEF SessionCall, NoBatchTouched
  <1>2. session \in [Requests -> Nat]
    BY DEF MapInv, MapTypes
  <1>3. session' \in [Requests -> Nat] /\ UNCHANGED <<batchSlots, maxBatch>>
    BY <1>2 DEF SessionCall, Layer!PrefillReq, Layer!DecodeStepReq, Layer!FinishReq, Layer!Reset,
       Layer!DecodeSemiBatched, Layer!DecodeLogprobsFallback, Layer!SessionsWithout,
       Layer!SessionsAfter, Layer!NoSession, Layer!batchVars
  <1> QED
    BY <1>1, <1>3, SlotsUntouched

\* A numbering of the requests in use, or of its first slots, is the new map.
LEMMA Renumbered ==
    ASSUME MapInv, NEW S \in SUBSET Requests, NEW k \in Nat, NEW f, Cardinality(S) = k,
           \A r \in S : f[r] \in 0 .. k - 1,
           \A r, q \in S : r # q => f[r] # f[q],
           \A s \in 0 .. k - 1 : \E r \in S : f[r] = s,
           batchSlots' = Layer(1)!SlotsOf(S, f),
           session' \in [Requests -> Nat], maxBatch' \in Nat, tokensLen' \in Nat, Allocated'
    PROVE  MapInv'
  <1>1. /\ Batched' = S /\ SlotsDense' /\ batchSlots' \in [Requests -> Int]
    BY DenseBy
  <1> QED
    BY <1>1 DEF MapInv, MapTypes

LEMMA SessionsDropped ==
    ASSUME MapInv, NEW S \in SUBSET Requests, session' = Layer(1)!SessionsWithout(S)
    PROVE  session' \in [Requests -> Nat] /\ Live' = Live \ S
  <1>1. session' = [r \in Requests |-> IF r \in S THEN 0 ELSE session[r]]
    BY DEF Layer!SessionsWithout, Layer!NoSession
  <1> QED
    BY <1>1, MapDefs DEF MapReads, MapInv, MapTypes

LEMMA InitBatchedMap == ASSUME MapInv, InitBatched PROVE MapInv'
  <1>1. PICK f \in Layer(1)!SlotNumberings(Live) : NewBatch(Live, f, session)
    BY DEF InitBatched
  <1>2. Live \in SUBSET Requests /\ Cardinality(Live) \in Nat
    BY MapSizes
  <1>3. session' \in [Requests -> Nat] /\ Live' = {}
    BY <1>2, SessionsDropped DEF InitBatched
  <1>4. /\ batchSlots' = Layer(1)!SlotsOf(Live, f) /\ maxBatch' = TokensFor(Cardinality(Live))
        /\ tokensLen' = TokensFor(Cardinality(Live))
    BY <1>1 DEF NewBatch
  <1>5. maxBatch' \in Nat /\ tokensLen' \in Nat /\ Allocated'
    BY <1>2, <1>4, AllocatedEnough DEF Allocated
  <1>6. /\ \A r \in Live : f[r] \in 0 .. Cardinality(Live) - 1
        /\ \A r, q \in Live : r # q => f[r] # f[q]
        /\ \A s \in 0 .. Cardinality(Live) - 1 : \E r \in Live : f[r] = s
    BY <1>2, NumberingDefs
  <1> QED
    BY <1>2, <1>3, <1>4, <1>5, <1>6, Renumbered

LEMMA PrefillBatchedUniformMap ==
    ASSUME MapInv, NEW S \in SUBSET Requests, PrefillBatchedUniform(S)
    PROVE  MapInv'
  <1>1. PICK f \in Layer(1)!SlotNumberings(S) : NewBatch(S, f, [r \in S |-> 1])
    BY DEF PrefillBatchedUniform
  <1>2. Cardinality(S) \in Nat
    BY MapSizes
  <1>3. session' \in [Requests -> Nat] /\ Live' = Live
    BY MapDefs DEF MapReads, PrefillBatchedUniform, MapInv, MapTypes
  <1>4. /\ batchSlots' = Layer(1)!SlotsOf(S, f) /\ maxBatch' = TokensFor(Cardinality(S))
        /\ tokensLen' = TokensFor(Cardinality(S))
    BY <1>1 DEF NewBatch
  <1>5. maxBatch' \in Nat /\ tokensLen' \in Nat /\ Allocated'
    BY <1>2, <1>4, AllocatedEnough DEF Allocated
  <1>6. /\ \A r \in S : f[r] \in 0 .. Cardinality(S) - 1
        /\ \A r, q \in S : r # q => f[r] # f[q]
        /\ \A s \in 0 .. Cardinality(S) - 1 : \E r \in S : f[r] = s
    BY <1>2, NumberingDefs
  <1> QED
    BY <1>2, <1>3, <1>4, <1>5, <1>6, Renumbered

\* A failed init_batched leaves the slots up to the failing request's.
LEMMA InitBatchedFailsMap == ASSUME MapInv, InitBatchedFails PROVE MapInv'
  <1>1. PICK f \in Layer(1)!SlotNumberings(Live), r \in Live :
            /\ batchSlots' = Layer(1)!SlotsOf({q \in Live : f[q] <= f[r]}, f)
            /\ session' = Layer(1)!SessionsWithout({q \in Live : f[q] <= f[r]} \ {r})
    BY DEF InitBatchedFails
  <1> DEFINE S == {q \in Live : f[q] <= f[r]}
             k == f[r] + 1
  <1>2. Live \in SUBSET Requests /\ Cardinality(Live) \in Nat
    BY MapSizes
  <1>3. /\ \A q \in Live : f[q] \in 0 .. Cardinality(Live) - 1
        /\ \A p, q \in Live : p # q => f[p] # f[q]
        /\ \A s \in 0 .. Cardinality(Live) - 1 : \E q \in Live : f[q] = s
    BY <1>2, NumberingDefs
  <1>4. f[r] \in Nat /\ f[r] < Cardinality(Live)
    BY <1>2, <1>3
  <1>5. Cardinality(S) = k /\ k \in Nat
    BY <1>2, <1>4, PrefixSize
  <1>6. /\ \A q \in S : f[q] \in 0 .. k - 1
        /\ \A p, q \in S : p # q => f[p] # f[q]
        /\ \A s \in 0 .. k - 1 : \E q \in S : f[q] = s
    BY <1>2, <1>3, <1>4
  <1>7. S \in SUBSET Requests
    BY <1>2
  <1>8. session' \in [Requests -> Nat] /\ Live' \subseteq Live
    <2>1. S \ {r} \in SUBSET Requests
      BY <1>7
    <2>2. session' = Layer(1)!SessionsWithout(S \ {r})
      BY <1>1
    <2> HIDE DEF S
    <2> QED
      BY <2>1, <2>2, SessionsDropped
  <1>9. maxBatch' \in Nat /\ tokensLen' \in Nat /\ Allocated'
    <2>1. maxBatch' = maxBatch /\ tokensLen' = TokensFor(Cardinality(Live))
      BY DEF InitBatchedFails
    <2> QED
      BY <1>2, <2>1, AllocatedEnough DEF MapInv, MapTypes, Allocated
  <1>10. batchSlots' = Layer(1)!SlotsOf(S, f)
    BY <1>1
  <1> HIDE DEF S, k
  <1> QED
    BY <1>2, <1>5, <1>6, <1>7, <1>8, <1>9, <1>10, Renumbered

\* A request of the batch has one of the first slots.
LEMMA SlotBounds ==
    ASSUME MapInv
    PROVE  /\ BatchSize \in Nat /\ BatchSize = Cardinality(Batched) /\ IsFiniteSet(Batched)
           /\ \A q \in Batched : batchSlots[q] \in 0 .. BatchSize - 1
           /\ \A s \in 0 .. BatchSize - 1 : \E q \in Batched : batchSlots[q] = s
           /\ \A p, q \in Batched : p # q => batchSlots[p] # batchSlots[q]
  <1>1. BatchSize = Cardinality(Batched) /\ BatchSize \in Nat /\ IsFiniteSet(Batched)
    BY MapSizes, MapDefs DEF MapReads
  <1>2. /\ {batchSlots[q] : q \in Batched} = 0 .. BatchSize - 1
        /\ \A p, q \in Batched : p # q => batchSlots[p] # batchSlots[q]
    BY MapDefs DEF MapReads, MapInv
  <1> QED
    BY <1>1, <1>2

\* A request that is added has a session and no slot, so that a slot is left of
\* those that exist in the model.
LEMMA AddFits ==
    ASSUME MapInv, NEW r \in Requests, MayAdd(r)
    PROVE  r \in Live /\ r \notin Batched /\ BatchSize < NumSlots
  <1>1. r \in Live /\ r \notin Batched
    BY MapDefs DEF MayAdd, MapReads, NoSession
  <1>2. Cardinality(Batched \cup {r}) = BatchSize + 1 /\ BatchSize \in Nat
    BY <1>1, SlotBounds, FS_AddElement
  <1>3. Batched \cup {r} \in SUBSET Requests
    BY MapSizes
  <1>4. Cardinality(Batched \cup {r}) <= Cardinality(Requests) /\ Cardinality(Requests) \in Nat
    BY <1>3, MapSizes
  <1> QED
    BY <1>1, <1>2, <1>4, HybridAssumption

LEMMA AddSize ==
    ASSUME MapInv, NEW r \in Requests, AddBatchSlot(r)
    PROVE  Batched' = Batched \cup {r} /\ BatchSize' = BatchSize + 1
  <1>1. r \in Live /\ r \notin Batched /\ BatchSize \in Nat
    BY AddFits, SlotBounds DEF AddBatchSlot
  <1>2. /\ batchSlots' = [batchSlots EXCEPT ![r] = BatchSize]
        /\ batchSlots' \in [Requests -> Int]
    BY <1>1 DEF AddBatchSlot, MapInv, MapTypes
  <1>3. Batched' = Batched \cup {r}
    <2>1. \A q \in Requests : batchSlots'[q] = IF q = r THEN BatchSize ELSE batchSlots[q]
      BY <1>2 DEF MapInv, MapTypes
    <2>2. BatchSize # -1
      BY <1>1
    <2>3. Batched' = {q \in Requests : q = r \/ batchSlots[q] # -1}
      BY <2>1, <2>2, MapDefs DEF MapReads
    <2> QED
      BY <2>3, MapDefs DEF MapReads
  <1>4. BatchSize' = BatchSize + 1
    <2>1. Cardinality(Batched \cup {r}) = BatchSize + 1
      BY <1>1, SlotBounds, FS_AddElement
    <2> QED
      BY <1>3, <2>1, MapDefs DEF MapReads
  <1> QED
    BY <1>3, <1>4

LEMMA AddBatchSlotMap ==
    ASSUME MapInv, NEW r \in Requests, AddBatchSlot(r)
    PROVE  MapInv'
  <1>1. r \in Live /\ r \notin Batched /\ BatchSize \in Nat
    BY AddFits, SlotBounds DEF AddBatchSlot
  <1>2. /\ batchSlots' = [batchSlots EXCEPT ![r] = BatchSize]
        /\ batchSlots' \in [Requests -> Int]
    BY <1>1 DEF AddBatchSlot, MapInv, MapTypes
  <1>3. Batched' = Batched \cup {r}
    BY AddSize
  <1>4. BatchSize' = BatchSize + 1
    BY AddSize
  <1>5. /\ batchSlots'[r] = BatchSize
        /\ \A q \in Batched : batchSlots'[q] = batchSlots[q]
    BY <1>1, <1>2 DEF MapInv, MapTypes
  <1>6. Occupied' = 0 .. BatchSize' - 1
    <2>1. Occupied' = {batchSlots'[q] : q \in Batched'}
      BY MapDefs DEF MapReads
    <2>2. Occupied' \subseteq 0 .. BatchSize
      BY <1>1, <1>3, <1>5, <2>1, SlotBounds
    <2>3. ASSUME NEW s \in 0 .. BatchSize PROVE s \in Occupied'
      <3>1. CASE s = BatchSize
        BY <1>3, <1>5, <2>1, <3>1
      <3>2. CASE s # BatchSize
        <4>1. s \in 0 .. BatchSize - 1
          BY <1>1, <3>2
        <4>2. PICK q \in Batched : batchSlots[q] = s
          BY <4>1, SlotBounds
        <4> QED
          BY <1>3, <1>5, <2>1, <4>2
      <3> QED
        BY <3>1, <3>2
    <2>4. BatchSize' - 1 = BatchSize
      BY <1>1, <1>4
    <2>5. Occupied' = 0 .. BatchSize
      BY <2>2, <2>3
    <2> QED
      BY <2>4, <2>5
  <1>7. \A p, q \in Batched' : p # q => batchSlots'[p] # batchSlots'[q]
    BY <1>1, <1>3, <1>5, SlotBounds
  <1>8. SlotsDense'
    BY <1>6, <1>7, MapDefs DEF MapReads
  <1>9. session' \in [Requests -> Nat]
    <2>1. CASE Intact(r)
      BY <2>1, SessionsDropped DEF AddBatchSlot
    <2>2. CASE ~Intact(r)
      BY <2>2 DEF AddBatchSlot, MapInv, MapTypes
    <2> QED
      BY <2>1, <2>2
  <1> QED
    BY <1>2, <1>8, <1>9 DEF AddBatchSlot, MapInv, MapTypes, Allocated

LEMMA RemoveSize ==
    ASSUME MapInv, NEW r \in Requests, RemoveBatchSlot(r)
    PROVE  Batched' = Batched \ {r} /\ BatchSize' = BatchSize - 1
  <1> DEFINE slot == batchSlots[r]
             lastSlot == BatchSize - 1
  <1>1. r \in Batched /\ slot \in 0 .. lastSlot /\ lastSlot \in Nat
    <2>1. r \in Batched
      BY MapDefs DEF RemoveBatchSlot, MapReads
    <2> QED
      BY <2>1, SlotBounds
  <1>2. \A q \in Requests :
            batchSlots'[q] = IF q = r THEN -1
                             ELSE IF batchSlots[q] = lastSlot THEN slot ELSE batchSlots[q]
    BY DEF RemoveBatchSlot, Layer!SlotsWithout, Layer!NoSlot, BatchSize
  <1>3. Batched' = Batched \ {r}
    BY <1>1, <1>2, MapDefs DEF MapReads
  <1>4. BatchSize' = lastSlot
    <2>1. Cardinality(Batched \ {r}) = lastSlot
      BY <1>1, SlotBounds, FS_RemoveElement
    <2> QED
      BY <1>3, <2>1, MapDefs DEF MapReads
  <1> QED
    BY <1>3, <1>4

LEMMA RemoveBatchSlotMap ==
    ASSUME MapInv, NEW r \in Requests, RemoveBatchSlot(r)
    PROVE  MapInv'
  <1> DEFINE slot == batchSlots[r]
             lastSlot == BatchSize - 1
  <1>1. r \in Batched /\ slot \in 0 .. lastSlot /\ lastSlot \in Nat
    <2>1. r \in Batched
      BY MapDefs DEF RemoveBatchSlot, MapReads
    <2> QED
      BY <2>1, SlotBounds
  <1>2. \A q \in Requests :
            batchSlots'[q] = IF q = r THEN -1
                             ELSE IF batchSlots[q] = lastSlot THEN slot ELSE batchSlots[q]
    BY DEF RemoveBatchSlot, Layer!SlotsWithout, Layer!NoSlot, BatchSize
  <1>3. Batched' = Batched \ {r}
    BY RemoveSize
  <1>4. BatchSize' = lastSlot
    BY RemoveSize
  <1>5. \A q \in Batched' : /\ batchSlots[q] \in 0 .. lastSlot /\ batchSlots[q] # slot
                            /\ batchSlots'[q] = IF batchSlots[q] = lastSlot THEN slot
                                                ELSE batchSlots[q]
    <2>1. Batched \in SUBSET Requests
      BY MapSizes
    <2> QED
      BY <1>1, <1>2, <1>3, <2>1, SlotBounds
  <1>6. Occupied' = 0 .. BatchSize' - 1
    <2>1. Occupied' = {batchSlots'[q] : q \in Batched'}
      BY MapDefs DEF MapReads
    <2>2. Occupied' \subseteq 0 .. lastSlot - 1
      BY <1>1, <1>5, <2>1
    <2>3. ASSUME NEW s \in 0 .. lastSlot - 1 PROVE s \in Occupied'
      <3>1. PICK q \in Batched : batchSlots[q] = s
        BY <1>1, SlotBounds
      <3>2. CASE s # slot
        BY <3>1, <3>2, <1>1, <1>3, <1>5, <2>1
      <3>3. CASE s = slot
        <4>1. PICK p \in Batched : batchSlots[p] = lastSlot
          BY <1>1, SlotBounds
        <4>2. p \in Batched'
          BY <4>1, <3>3, <1>1, <1>3
        <4> QED
          BY <4>1, <4>2, <3>3, <1>5, <2>1
      <3> QED
        BY <3>2, <3>3
    <2> QED
      BY <1>4, <2>2, <2>3
  <1>7. \A p, q \in Batched' : p # q => batchSlots'[p] # batchSlots'[q]
    BY <1>3, <1>5, SlotBounds
  <1>8. SlotsDense'
    BY <1>6, <1>7, MapDefs DEF MapReads
  <1>9. batchSlots' \in [Requests -> Int]
    <2>1. batchSlots' = [q \in Requests |-> batchSlots'[q]]
      BY DEF RemoveBatchSlot, Layer!SlotsWithout
    <2>2. \A q \in Requests : batchSlots'[q] \in Int
      BY <1>1, <1>2 DEF MapInv, MapTypes
    <2> QED
      BY <2>1, <2>2
  <1> QED
    BY <1>8, <1>9 DEF RemoveBatchSlot, MapInv, MapTypes, Allocated

LEMMA DecodeMap ==
    ASSUME MapInv, DecodeAsync \/ DecodeSync \/ DecodeLogprobsBatch
    PROVE  MapInv'
  <1>1. UNCHANGED <<session, batchSlots, maxBatch, tokensLen>>
    BY DEF DecodeAsync, DecodeSync, DecodeLogprobsBatch
  <1> QED
    BY <1>1, SlotsUntouched DEF MapInv, MapTypes

\* A trap leaves the map as it is, and is one of a slot beyond max_num_seqs.
LEMMA TrapMap ==
    ASSUME MapInv, NEW s \in Int, Traps(s)
    PROVE  MapInv' /\ BatchSize' = BatchSize /\ s >= MaxConcurrent
  <1>1. UNCHANGED <<session, batchSlots, maxBatch, tokensLen>>
    BY DEF Traps
  <1>2. MapInv'
    BY <1>1, SlotsUntouched DEF MapInv, MapTypes
  <1>3. Batched' = Batched
    BY <1>1, MapDefs DEF MapReads
  <1>4. BatchSize' = BatchSize
    BY <1>3, MapDefs DEF MapReads
  <1>5. s >= MaxConcurrent
    BY HybridAssumption DEF Traps, Reach, Layer!Smaller, MapInv, MapTypes, Allocated
  <1> QED
    BY <1>2, <1>4, <1>5

\* The two calls that may trap.
LEMMA TrapStep ==
    ASSUME MapInv, DecodeTraps \/ \E r \in Requests : AddBatchSlotTraps(r)
    PROVE  MapInv' /\ BatchSize' >= MaxConcurrent
  <1>1. BatchSize \in Int /\ BatchSize - 1 \in Int
    BY SlotBounds
  <1>2. PICK s \in {BatchSize, BatchSize - 1} : Traps(s)
    BY DEF DecodeTraps, AddBatchSlotTraps
  <1>3. MapInv' /\ BatchSize' = BatchSize /\ s >= MaxConcurrent
    BY <1>1, <1>2, TrapMap
  <1> QED
    BY <1>1, <1>3, HybridAssumption

LEMMA MapInductive == MapInv /\ [Next]_hybridVars => MapInv'
  <1> SUFFICES ASSUME MapInv, [Next]_hybridVars PROVE MapInv'
    OBVIOUS
  <1>1. CASE Next
    BY <1>1, SessionCallMap, InitBatchedMap, InitBatchedFailsMap, AddBatchSlotMap, TrapStep,
       RemoveBatchSlotMap, PrefillBatchedUniformMap, DecodeMap
    DEF Next
  <1>2. CASE UNCHANGED hybridVars
    BY <1>2, SlotsUntouched DEF hybridVars, MapInv, MapTypes
  <1> QED
    BY <1>1, <1>2

LEMMA MapInvariant == HybridSpec => []MapInv
  BY MapInitially, MapInductive, PTL DEF HybridSpec

\* The process is lost with max_num_seqs slots in use.
LostFull == trapped => BatchSize >= MaxConcurrent

LEMMA LostFullKept == MapInv /\ LostFull /\ [Next]_hybridVars => LostFull'
  <1> SUFFICES ASSUME MapInv, LostFull, [Next]_hybridVars PROVE LostFull'
    OBVIOUS
  <1>1. CASE DecodeTraps \/ \E r \in Requests : AddBatchSlotTraps(r)
    BY <1>1, TrapStep DEF LostFull
  <1>2. CASE Next /\ ~(DecodeTraps \/ \E r \in Requests : AddBatchSlotTraps(r))
    <2>1. ~trapped /\ trapped' = trapped
      BY <1>2 DEF Next, SessionCall, NoBatchTouched, InitBatched, InitBatchedFails, AddBatchSlot,
         RemoveBatchSlot, PrefillBatchedUniform, DecodeAsync, DecodeSync, DecodeLogprobsBatch, ownVars
    <2> QED
      BY <2>1 DEF LostFull
  <1>3. CASE UNCHANGED hybridVars
    <2>1. UNCHANGED <<session, batchSlots, trapped>>
      BY <1>3 DEF hybridVars, ownVars
    <2>2. Batched' = Batched
      BY <2>1, MapDefs DEF MapReads
    <2> QED
      BY <2>1, <2>2, MapDefs DEF MapReads, LostFull
  <1> QED
    BY <1>1, <1>2, <1>3

\* Whatever copies fail, at whatever layer, for any number of requests, layers
\* and calls by any client: the slots stay dense, and an index is out of range
\* only when max_num_seqs slots are in use, although addBatchSlotHybrid never
\* compares its slot with what was allocated.
THEOREM MapSurvives == HybridSpec => []MapSurvivesFailures
  <1>1. Init => LostFull
    BY DEF Init, LostFull
  <1>2. MapInv /\ LostFull => MapSurvivesFailures
    BY DEF MapInv, LostFull, MapSurvivesFailures, SlotsDense
  <1> QED
    BY <1>1, <1>2, LostFullKept, MapInvariant, PTL DEF HybridSpec

-----------------------------------------------------------------------------
(* Type correctness                                                        *)

Cell == Layer(1)!Cell

\* The part of HybridTypeOK that the slot map does not give.
CellsTyped ==
    /\ batchTokens \in [Slots -> Cell]
    /\ rows \in [Layers -> [Slots -> Cell]]
    /\ actives \in [Layers -> 0 .. NumSlots]
    /\ maxBatch \in 0 .. NumSlots /\ tokensLen \in 0 .. NumSlots
    /\ pendingSampledTokens \in [Slots -> Cell]
    /\ pendingSampledB \in 0 .. NumSlots
    /\ hung \in BOOLEAN /\ trapped \in BOOLEAN /\ failed \in BOOLEAN

LEMMA SlotRange == Slots = 0 .. NumSlots - 1 /\ NumSlots \in Nat
  BY HybridAssumption DEF Slots, Layer!Slots

LEMMA CellsMade ==
    /\ \A r \in Requests, n \in Nat : Token(r, n) \in Cell
    /\ \A c \in Cell : Token(c.req, 0) \in Cell
  BY DEF Cell, Token, Layer!Cell, Layer!Token

LEMMA BlanksTyped == Blanks \in [Slots -> Cell]
  BY DEF Cell, Slots, Blanks, Layer!Cell, Layer!Token, Layer!Blank

\* The batch is no larger than the requests, which the slots suffice for.
LEMMA BatchFits ==
    ASSUME MapInv
    PROVE  /\ BatchSize \in 0 .. NumSlots
           /\ batchSlots \in [Requests -> Slots \cup {NoSlot}]
           /\ Occupied = 0 .. BatchSize - 1
  <1>1. BatchSize \in Nat /\ BatchSize <= Cardinality(Requests) /\ Cardinality(Requests) \in Nat
    BY SlotBounds, MapSizes
  <1>2. BatchSize \in 0 .. NumSlots
    BY <1>1, HybridAssumption
  <1>3. ASSUME NEW r \in Requests PROVE batchSlots[r] \in Slots \cup {NoSlot}
    BY <1>2, SlotBounds, MapDefs, SlotRange DEF MapReads
  <1> QED
    BY <1>2, <1>3, MapDefs DEF MapInv, MapTypes, MapReads

LEMMA TypedAll == MapInv /\ CellsTyped => HybridTypeOK
  BY BatchFits DEF CellsTyped, HybridTypeOK, MapInv, MapTypes, Cell

LEMMA TokensFit ==
    ASSUME NEW S \in SUBSET Requests
    PROVE  /\ Cardinality(S) \in 0 .. NumSlots
           /\ TokensFor(Cardinality(S)) \in 0 .. NumSlots
  <1>1. /\ Cardinality(S) \in Nat /\ Cardinality(S) <= Cardinality(Requests)
        /\ Cardinality(Requests) \in Nat
    BY MapSizes
  <1> QED
    BY <1>1, HybridAssumption DEF TokensFor, Layer!Larger

LEMMA LaidTyped ==
    ASSUME NEW S, NEW f, NEW cell, \A r \in S : cell[r] \in Cell
    PROVE  Layer(1)!Laid(S, f, cell) \in [Slots -> Cell]
  <1>1. ASSUME NEW s, \E r \in S : f[r] = s
        PROVE  (CHOOSE r \in S : f[r] = s) \in S
    BY <1>1
  <1>2. Layer(1)!Blank \in Cell
    BY DEF Cell, Layer!Cell, Layer!Blank, Layer!Token
  <1> QED
    BY <1>1, <1>2 DEF Layer!Laid, Slots

\* A forward pass and a sample make cells of cells.
LEMMA PassTyped ==
    ASSUME CellsTyped, NEW input \in [Slots -> Cell]
    PROVE  /\ RowsAfter(input) \in [Layers -> [Slots -> Cell]]
           /\ SampledAfter(input) \in [Slots -> Cell]
           /\ Advance(input) \in [Slots -> Cell]
  <1>1. ASSUME NEW l \in Layers, NEW c \in Cell, NEW t \in Cell
        PROVE  Layer(l)!Forward(c, t) \in Cell
    BY <1>1 DEF Cell, Layer!Cell, Layer!Forward, Layer!Token
  <1>2. ASSUME NEW l \in Layers, NEW s \in Slots
        PROVE  RowsAfter(input)[l][s] \in Cell
    <2>1. rows[l][s] \in Cell /\ input[s] \in Cell
      BY DEF CellsTyped
    <2>2. Layer(l)!Forward(rows[l][s], input[s]) \in Cell
      BY <1>1, <2>1
    <2>3. Token(rows[l][s].req, 0) \in Cell
      BY <2>1, CellsMade
    <2> QED
      BY <2>1, <2>2, <2>3 DEF RowsAfter
  <1>3. RowsAfter(input) \in [Layers -> [Slots -> Cell]]
    BY <1>2 DEF RowsAfter
  <1>4. ASSUME NEW c \in Cell PROVE Layer(1)!Sample(c) \in Cell
    BY DEF Cell, Layer!Cell, Layer!Sample, Layer!Token
  <1>5. 1 \in Layers /\ Layer(1)!Blank \in Cell
    BY HybridAssumption DEF Layers, Cell, Layer!Cell, Layer!Blank, Layer!Token
  <1>6. SampledAfter(input) \in [Slots -> Cell]
    BY <1>2, <1>4, <1>5 DEF SampledAfter
  <1>7. Advance(input) \in [Slots -> Cell]
    BY DEF Advance, CellsTyped
  <1> QED
    BY <1>3, <1>6, <1>7

LEMMA NewBatchTyped ==
    ASSUME NEW S \in SUBSET Requests, NEW f, NEW n, \A r \in S : n[r] \in Nat, NewBatch(S, f, n)
    PROVE  /\ batchTokens' \in [Slots -> Cell] /\ rows' \in [Layers -> [Slots -> Cell]]
           /\ actives' \in [Layers -> 0 .. NumSlots]
           /\ maxBatch' \in 0 .. NumSlots /\ tokensLen' \in 0 .. NumSlots
  <1> DEFINE fed == [r \in S |-> Token(r, n[r])]
             next == [r \in S |-> Token(r, n[r] + 1)]
  <1>1. (\A r \in S : fed[r] \in Cell) /\ (\A r \in S : next[r] \in Cell)
    BY CellsMade
  <1>2. batchTokens' = Layer(1)!Laid(S, f, next) /\ rows' = [l \in Layers |-> Layer(1)!Laid(S, f, fed)]
    BY DEF NewBatch
  <1> HIDE DEF fed, next
  <1>3. batchTokens' \in [Slots -> Cell] /\ rows' \in [Layers -> [Slots -> Cell]]
    BY <1>1, <1>2, LaidTyped
  <1> QED
    BY <1>3, TokensFit DEF NewBatch

LEMMA FillTyped ==
    ASSUME MapInv, CellsTyped,
           InitBatched \/ InitBatchedFails \/ \E S \in SUBSET Requests : PrefillBatchedUniform(S)
    PROVE  CellsTyped'
  <1>1. Live \in SUBSET Requests /\ \A r \in Live : session[r] \in Nat
    BY MapSizes DEF MapInv, MapTypes
  <1>2. CASE InitBatched
    <2>1. PICK f \in Layer(1)!SlotNumberings(Live) : NewBatch(Live, f, session)
      BY <1>2 DEF InitBatched
    <2>2. /\ pendingSampledTokens' = Blanks /\ pendingSampledB' = 0
          /\ UNCHANGED <<hung, trapped, failed>>
      BY <1>2 DEF InitBatched, ownVars
    <2>3. /\ batchTokens' \in [Slots -> Cell] /\ rows' \in [Layers -> [Slots -> Cell]]
          /\ actives' \in [Layers -> 0 .. NumSlots]
          /\ maxBatch' \in 0 .. NumSlots /\ tokensLen' \in 0 .. NumSlots
      BY <1>1, <2>1, NewBatchTyped
    <2>4. pendingSampledTokens' \in [Slots -> Cell] /\ pendingSampledB' \in 0 .. NumSlots
      BY <2>2, BlanksTyped, SlotRange
    <2> QED
      BY <2>2, <2>3, <2>4 DEF CellsTyped
  <1>3. CASE InitBatchedFails
    <2>1. PICK f \in Layer(1)!SlotNumberings(Live), r \in Live :
              batchTokens' = Layer(1)!Laid({q \in Live : f[q] <= f[r]}, f,
                                [q \in {q \in Live : f[q] <= f[r]} |-> Token(q, session[q] + 1)])
      BY <1>3 DEF InitBatchedFails
    <2> DEFINE S == {q \in Live : f[q] <= f[r]}
               next == [q \in S |-> Token(q, session[q] + 1)]
    <2>2. \A q \in S : next[q] \in Cell
      BY <1>1, CellsMade
    <2>3. batchTokens' = Layer(1)!Laid(S, f, next)
      BY <2>1
    <2> HIDE DEF S, next
    <2>4. batchTokens' \in [Slots -> Cell]
      BY <2>2, <2>3, LaidTyped
    <2>5. tokensLen' \in 0 .. NumSlots
      BY <1>1, <1>3, TokensFit DEF InitBatchedFails
    <2>6. UNCHANGED <<rows, actives, maxBatch, pendingSampledTokens, pendingSampledB, hung, trapped>>
          /\ failed' = TRUE
      BY <1>3 DEF InitBatchedFails, pendingVars
    <2> QED
      BY <2>4, <2>5, <2>6 DEF CellsTyped
  <1>4. ASSUME NEW S \in SUBSET Requests, PrefillBatchedUniform(S) PROVE CellsTyped'
    <2>1. PICK f \in Layer(1)!SlotNumberings(S) : NewBatch(S, f, [r \in S |-> 1])
      BY <1>4 DEF PrefillBatchedUniform
    <2>2. \A r \in S : [q \in S |-> 1][r] \in Nat
      OBVIOUS
    <2>3. UNCHANGED <<pendingSampledTokens, pendingSampledB, hung, trapped, failed>>
      BY <1>4 DEF PrefillBatchedUniform, ownVars, pendingVars
    <2> QED
      BY <2>1, <2>2, <2>3, NewBatchTyped DEF CellsTyped
  <1> QED
    BY <1>2, <1>3, <1>4

LEMMA AddTyped ==
    ASSUME MapInv, CellsTyped, NEW r \in Requests, AddBatchSlot(r)
    PROVE  CellsTyped'
  <1>1. BatchSize \in Slots /\ BatchSize + 1 \in 0 .. NumSlots
    BY AddFits, BatchFits, SlotRange DEF AddBatchSlot
  <1>2. Token(r, session[r] + 1) \in Cell /\ Token(r, session[r]) \in Cell
    BY CellsMade DEF MapInv, MapTypes
  <1>3. batchTokens' \in [Slots -> Cell]
    BY <1>1, <1>2 DEF AddBatchSlot, CellsTyped
  <1>4. rows' \in [Layers -> [Slots -> Cell]]
    <2>1. rows' = CopiedInto(r)
      BY DEF AddBatchSlot
    <2>2. ASSUME NEW l \in Layers
          PROVE  [rows[l] EXCEPT ![BatchSize] = Token(r, session[r])] \in [Slots -> Cell]
      BY <1>1, <1>2 DEF CellsTyped
    <2> QED
      BY <2>1, <2>2 DEF CopiedInto, CellsTyped
  <1>5. actives' \in [Layers -> 0 .. NumSlots]
    <2>1. ASSUME NEW l \in Layers PROVE CountWith(l) \in 0 .. NumSlots
      BY <1>1 DEF CountWith, CellsTyped, Layer!Larger
    <2> QED
      BY <2>1 DEF AddBatchSlot, CellsTyped
  <1>6. trapped' \in BOOLEAN /\ failed' \in BOOLEAN
    BY DEF AddBatchSlot, CellsTyped
  <1>7. UNCHANGED <<maxBatch, tokensLen, pendingSampledTokens, pendingSampledB, hung>>
    BY DEF AddBatchSlot, pendingVars
  <1> QED
    BY <1>3, <1>4, <1>5, <1>6, <1>7 DEF CellsTyped

LEMMA RemoveTyped ==
    ASSUME MapInv, CellsTyped, NEW r \in Requests, RemoveBatchSlot(r)
    PROVE  CellsTyped'
  <1>1. batchSlots[r] \in 0 .. BatchSize - 1 /\ BatchSize \in 0 .. NumSlots
    BY SlotBounds, BatchFits, MapDefs DEF MapReads, RemoveBatchSlot
  <1>2. batchTokens' \in [Slots -> Cell]
    <2>1. BatchSize - 1 \in Slots
      BY <1>1, SlotRange
    <2>2. batchTokens' = IF batchSlots[r] < BatchSize - 1
                         THEN [batchTokens EXCEPT ![batchSlots[r]] = batchTokens[BatchSize - 1]]
                         ELSE batchTokens
      BY DEF RemoveBatchSlot, Layer!RowsWithout, BatchSize
    <2> QED
      BY <2>1, <2>2 DEF CellsTyped
  <1>3. rows' \in [Layers -> [Slots -> Cell]]
    <2>1. ASSUME NEW l \in Layers PROVE LayerWithout(l, batchSlots[r]) \in [Slots -> Cell]
      <3>1. actives[l] \in 0 .. NumSlots /\ rows[l] \in [Slots -> Cell]
        BY DEF CellsTyped
      <3>2. CASE batchSlots[r] < actives[l] - 1
        <4>1. actives[l] - 1 \in Slots
          BY <1>1, <3>1, <3>2, SlotRange
        <4> QED
          BY <3>1, <3>2, <4>1 DEF LayerWithout
      <3> QED
        BY <3>1, <3>2 DEF LayerWithout
    <2> QED
      BY <2>1 DEF RemoveBatchSlot
  <1>4. actives' \in [Layers -> 0 .. NumSlots]
    <2>1. ASSUME NEW l \in Layers PROVE Layer(l)!ActiveWithoutOne \in 0 .. NumSlots
      <3>1. actives[l] \in 0 .. NumSlots
        BY DEF CellsTyped
      <3> QED
        BY <3>1, HybridAssumption DEF Layer!ActiveWithoutOne, Layer!Larger
    <2> QED
      BY <2>1 DEF RemoveBatchSlot
  <1>5. UNCHANGED <<maxBatch, tokensLen, pendingSampledTokens, pendingSampledB, hung, trapped, failed>>
    BY DEF RemoveBatchSlot, pendingVars, ownVars
  <1> QED
    BY <1>2, <1>3, <1>4, <1>5 DEF CellsTyped

LEMMA DecodeTyped ==
    ASSUME MapInv, CellsTyped, DecodeAsync \/ DecodeSync \/ DecodeLogprobsBatch
    PROVE  CellsTyped'
  <1>1. batchTokens \in [Slots -> Cell] /\ pendingSampledTokens \in [Slots -> Cell]
    BY DEF CellsTyped
  <1>2. SampledAfter(batchTokens) \in [Slots -> Cell]
    BY <1>1, PassTyped
  <1>3. BatchSize \in 0 .. NumSlots /\ 0 \in 0 .. NumSlots
    BY BatchFits, HybridAssumption
  <1>4. UNCHANGED <<actives, maxBatch, tokensLen, hung, trapped, failed>>
    BY DEF DecodeAsync, DecodeSync, DecodeLogprobsBatch, ownVars
  <1>5. rows' \in [Layers -> [Slots -> Cell]] /\ batchTokens' \in [Slots -> Cell]
    BY <1>1, <1>2, PassTyped DEF DecodeAsync, DecodeSync, DecodeLogprobsBatch
  <1>6. pendingSampledTokens' \in [Slots -> Cell] /\ pendingSampledB' \in 0 .. NumSlots
    <2>1. CASE DecodeAsync
      BY <1>1, <1>3, <2>1, PassTyped DEF DecodeAsync
    <2>2. CASE DecodeSync
      BY <1>2, <1>3, <2>2, BlanksTyped DEF DecodeSync
    <2>3. CASE DecodeLogprobsBatch
      BY <2>3 DEF DecodeLogprobsBatch, pendingVars, CellsTyped
    <2> QED
      BY <2>1, <2>2, <2>3
  <1> QED
    BY <1>4, <1>5, <1>6 DEF CellsTyped

LEMMA TrapTyped ==
    ASSUME CellsTyped, DecodeTraps \/ \E r \in Requests : AddBatchSlotTraps(r)
    PROVE  CellsTyped'
  BY DEF DecodeTraps, AddBatchSlotTraps, Traps, pendingVars, CellsTyped

LEMMA SessionCallTyped == ASSUME CellsTyped, SessionCall PROVE CellsTyped'
  <1>1. UNCHANGED <<rows, actives, tokensLen, trapped, failed>>
    BY DEF SessionCall, NoBatchTouched, ownVars
  <1>2. /\ UNCHANGED <<batchTokens, maxBatch, pendingSampledTokens, pendingSampledB>>
        /\ hung' = hung \/ hung' = TRUE
    BY DEF SessionCall, Layer!PrefillReq, Layer!DecodeStepReq, Layer!FinishReq, Layer!Reset,
           Layer!DecodeSemiBatched, Layer!DecodeLogprobsFallback, Layer!batchVars, Layer!pendingVars
  <1> QED
    BY <1>1, <1>2 DEF CellsTyped

\* The batch's state is well typed whichever copies fail: no layer ever counts
\* more rows than there are slots, though the layers' counts drift apart.
THEOREM HybridTypeCorrect == HybridSpec => []HybridTypeOK
  <1>1. Init => CellsTyped
    <2> SUFFICES ASSUME Init PROVE CellsTyped
      OBVIOUS
    <2>1. /\ rows = [l \in Layers |-> Blanks] /\ actives = [l \in Layers |-> 0]
          /\ batchTokens = Blanks /\ maxBatch = 0 /\ tokensLen = 0
          /\ pendingSampledTokens = Blanks /\ pendingSampledB = 0
          /\ hung = FALSE /\ trapped = FALSE /\ failed = FALSE
      BY DEF Init, Layer!Init, Blanks, Slots, Layer!Slots
    <2>2. 0 \in 0 .. NumSlots
      BY SlotRange
    <2>3. rows \in [Layers -> [Slots -> Cell]] /\ actives \in [Layers -> 0 .. NumSlots]
      BY <2>1, <2>2, BlanksTyped
    <2> QED
      BY <2>1, <2>2, <2>3, BlanksTyped DEF CellsTyped
  <1>2. MapInv /\ CellsTyped /\ [Next]_hybridVars => CellsTyped'
    <2> SUFFICES ASSUME MapInv, CellsTyped, [Next]_hybridVars PROVE CellsTyped'
      OBVIOUS
    <2>1. CASE Next
      BY <2>1, SessionCallTyped, FillTyped, AddTyped, TrapTyped, RemoveTyped, DecodeTyped
      DEF Next
    <2>2. CASE UNCHANGED hybridVars
      BY <2>2 DEF hybridVars, ownVars, pendingVars, CellsTyped
    <2> QED
      BY <2>1, <2>2
  <1> QED
    BY <1>1, <1>2, MapInvariant, TypedAll, PTL DEF HybridSpec

-----------------------------------------------------------------------------
(* Without failures the layers stay in lockstep                            *)

\* All layers hold the same rows and count as many as there are slots in use.
Lockstep == \A l \in Layers : rows[l] = rows[1] /\ actives[l] = BatchSize

LockstepInv == MapInv /\ (~failed => Lockstep)

\* What a layer's engine reads of the slot map is the slot map.
LEMMA OneMap ==
    ASSUME NEW l \in Layers
    PROVE  /\ Layer(l)!Live = Live /\ Layer(l)!Batched = Batched
           /\ Layer(l)!BatchSize = BatchSize /\ Layer(l)!Occupied = Occupied
           /\ Layer(l)!AllGreedy = Layer(1)!AllGreedy
           /\ Layer(l)!PipelineValid = Layer(1)!PipelineValid
           /\ \A r \in Requests : Layer(l)!Fresh(r) = Layer(1)!Fresh(r)
  <1>1. Layer(l)!Live = Live /\ Layer(l)!Batched = Batched
    BY DEF Live, Batched, Layer!Live, Layer!Batched, Layer!NoSession, Layer!NoSlot
  <1>2. Layer(l)!BatchSize = BatchSize /\ Layer(l)!Occupied = Occupied
    BY DEF BatchSize, Occupied, Layer!BatchSize, Layer!Occupied, Layer!Batched, Layer!NoSlot,
           Layer!Cardinality
  <1>3. Layer(l)!AllGreedy = Layer(1)!AllGreedy
    BY DEF Layer!AllGreedy, Layer!Batched, Layer!NoSession, Layer!NoSlot
  <1>4. Layer(l)!PipelineValid = Layer(1)!PipelineValid
    BY DEF Layer!PipelineValid, Layer!AllGreedy, Layer!BatchSize, Layer!Cardinality,
           Layer!Batched, Layer!NoSession, Layer!NoSlot
  <1>5. \A r \in Requests : Layer(l)!Fresh(r) = Layer(1)!Fresh(r)
    BY DEF Layer!Fresh, Layer!NoSession, Layer!NoSlot
  <1> QED
    BY <1>1, <1>2, <1>3, <1>4, <1>5

\* Calls on sessions are calls on the sessions of every layer's engine.
LEMMA SessionCallStep ==
    ASSUME MapInv, ~hung, SessionCall, NEW l \in Layers
    PROVE  EngineStep(l)
  <1>1. rows' = rows /\ actives' = actives
    BY DEF SessionCall, NoBatchTouched
  <1>2. ASSUME NEW r \in Requests, Layer(1)!Fresh(r), Layer(1)!PrefillReq(r)
        PROVE  Layer(l)!Next
    <2>1. Layer(l)!Fresh(r)
      BY <1>2, OneMap
    <2>2. Layer(l)!PrefillReq(r)
      BY <1>1, <1>2 DEF Layer!PrefillReq, Layer!batchVars, Layer!pendingVars
    <2> QED
      BY <2>1, <2>2 DEF Layer!Next
  <1>3. ASSUME NEW r \in Requests, Layer(1)!DecodeStepReq(r) PROVE Layer(l)!Next
    <2>1. Layer(l)!DecodeStepReq(r)
      BY <1>1, <1>3 DEF Layer!DecodeStepReq, Layer!SessionsAfter, Layer!NoSession,
         Layer!batchVars, Layer!pendingVars
    <2> QED
      BY <2>1 DEF Layer!Next
  <1>4. ASSUME NEW r \in Requests, Layer(1)!FinishReq(r) PROVE Layer(l)!Next
    <2>1. Layer(l)!FinishReq(r)
      BY <1>1, <1>4 DEF Layer!FinishReq, Layer!SessionsWithout, Layer!NoSession,
         Layer!batchVars, Layer!pendingVars
    <2> QED
      BY <2>1 DEF Layer!Next
  <1>5. CASE Layer(1)!Reset
    <2>1. Layer(l)!Reset
      BY <1>1, <1>5 DEF Layer!Reset, Layer!SessionsWithout, Layer!NoSession,
         Layer!batchVars, Layer!pendingVars
    <2> QED
      BY <2>1 DEF Layer!Next, EngineStep
  <1>6. ASSUME NEW maxReqs \in 1 .. Cardinality(Requests), NEW S \in SUBSET Requests,
               Layer(1)!DecodeSemiBatched(maxReqs, S)
        PROVE  Layer(l)!Next
    <2>1. Layer(l)!DecodeSemiBatched(maxReqs, S)
      BY <1>1, <1>6 DEF Layer!DecodeSemiBatched, Layer!Smaller, Layer!Live, Layer!Batched,
         Layer!NoSession, Layer!NoSlot, Layer!SessionsAfter, Layer!batchVars, Layer!pendingVars,
         Layer!Cardinality, Cardinality
    <2>2. Layer(l)!Cardinality(Requests) = Cardinality(Requests)
      BY DEF Layer!Cardinality, Cardinality
    <2> QED
      BY <2>1, <2>2 DEF Layer!Next
  <1>7. CASE Layer(1)!DecodeLogprobsFallback
    <2>1. Layer(l)!DecodeLogprobsFallback
      BY <1>1, <1>7, OneMap DEF Layer!DecodeLogprobsFallback, Layer!batchVars, Layer!pendingVars,
         Live, Batched
    <2> QED
      BY <2>1 DEF Layer!Next, Layer!DecodeAllLogprobs, EngineStep
  <1> QED
    BY <1>2, <1>3, <1>4, <1>5, <1>6, <1>7 DEF SessionCall, EngineStep

\* What NewBatch writes is what the dense engine writes into layer l.
LEMMA NewBatchLayer ==
    ASSUME NEW S \in SUBSET Requests, NEW f, NEW n, NewBatch(S, f, n), NEW l \in Layers
    PROVE  /\ batchSlots' = Layer(l)!SlotsOf(S, f)
           /\ batchTokens' = Layer(l)!Laid(S, f, [r \in S |-> Layer(l)!Token(r, n[r] + 1)])
           /\ rows'[l] = Layer(l)!Laid(S, f, [r \in S |-> Layer(l)!Token(r, n[r])])
           /\ actives'[l] = Cardinality(S)
           /\ maxBatch' = TokensFor(Cardinality(S))
  BY DEF NewBatch, Token, Layer!SlotsOf, Layer!NoSlot, Layer!Laid, Layer!Slots, Layer!Blank, Layer!Token

LEMMA InitBatchedStep ==
    ASSUME MapInv, ~hung, InitBatched, NEW l \in Layers
    PROVE  EngineStep(l)
  <1>1. PICK f \in Layer(1)!SlotNumberings(Live) : NewBatch(Live, f, session)
    BY DEF InitBatched
  <1>2. Live \in SUBSET Requests /\ Cardinality(Live) \in Nat
    BY MapSizes
  <1>3. Layer(l)!Cardinality(Live) = Cardinality(Live)
    BY DEF Layer!Cardinality, Cardinality
  <1>4. f \in Layer(l)!SlotNumberings(Live)
    BY DEF Layer!SlotNumberings, Layer!Cardinality
  <1>5. maxBatch' = Layer(l)!Larger(Cardinality(Live), Layer(l)!Smaller(MaxConcurrent, NumSlots))
    BY <1>1, <1>2, NewBatchLayer, HybridAssumption DEF TokensFor, Layer!Larger, Layer!Smaller
  <1>6. session' = Layer(l)!SessionsWithout(Live)
    BY DEF InitBatched, Layer!SessionsWithout, Layer!NoSession
  <1>7. pendingSampledTokens' = [s \in Layer(l)!Slots |-> Layer(l)!Blank]
    BY DEF InitBatched, Blanks, Slots, Layer!Slots, Layer!Blank, Layer!Token
  <1>8. Layer(l)!Live = Live
    BY OneMap
  <1>9. /\ batchSlots' = Layer(l)!SlotsOf(Live, f)
        /\ batchTokens' = Layer(l)!Laid(Live, f, [r \in Live |-> Layer(l)!Token(r, session[r] + 1)])
        /\ rows'[l] = Layer(l)!Laid(Live, f, [r \in Live |-> Layer(l)!Token(r, session[r])])
        /\ actives'[l] = Layer(l)!Cardinality(Live)
    BY <1>1, <1>2, <1>3, NewBatchLayer
  <1>10. \E g \in Layer(l)!SlotNumberings(Layer(l)!Live) :
            /\ batchSlots' = Layer(l)!SlotsOf(Layer(l)!Live, g)
            /\ batchTokens' = Layer(l)!Laid(Layer(l)!Live, g,
                                 [r \in Layer(l)!Live |-> Layer(l)!Token(r, session[r] + 1)])
            /\ rows'[l] = Layer(l)!Laid(Layer(l)!Live, g,
                                 [r \in Layer(l)!Live |-> Layer(l)!Token(r, session[r])])
    BY <1>4, <1>8, <1>9, Zenon
  <1>11. /\ Live # {} /\ pendingSampledB' = 0 /\ hung' = hung
    BY DEF InitBatched
  <1>12. Layer(l)!InitBatched
    BY <1>3, <1>5, <1>6, <1>7, <1>8, <1>9, <1>10, <1>11 DEF Layer!InitBatched
  <1> QED
    BY <1>12 DEF Layer!Next, EngineStep

LEMMA PrefillBatchedUniformStep ==
    ASSUME MapInv, ~hung, NEW S \in SUBSET Requests, \A r \in S : Layer(1)!Fresh(r),
           PrefillBatchedUniform(S), NEW l \in Layers
    PROVE  EngineStep(l)
  <1> DEFINE n == [r \in S |-> 1]
  <1>1. PICK f \in Layer(1)!SlotNumberings(S) : NewBatch(S, f, n)
    BY DEF PrefillBatchedUniform
  <1>2. Layer(l)!Cardinality(S) = Cardinality(S)
    BY DEF Layer!Cardinality, Cardinality
  <1>3. f \in Layer(l)!SlotNumberings(S)
    BY DEF Layer!SlotNumberings, Layer!Cardinality
  <1>4. /\ [r \in S |-> Layer(l)!Token(r, n[r] + 1)] = [r \in S |-> Layer(l)!Token(r, 2)]
        /\ [r \in S |-> Layer(l)!Token(r, n[r])] = [r \in S |-> Layer(l)!Token(r, 1)]
    OBVIOUS
  <1>5. maxBatch' = Layer(l)!Larger(Cardinality(S), MaxConcurrent)
    BY <1>1, NewBatchLayer DEF TokensFor, Layer!Larger
  <1>6. \A r \in S : Layer(l)!Fresh(r)
    BY OneMap
  <1> HIDE DEF n
  <1>7. /\ batchSlots' = Layer(l)!SlotsOf(S, f)
        /\ batchTokens' = Layer(l)!Laid(S, f, [r \in S |-> Layer(l)!Token(r, 2)])
        /\ rows'[l] = Layer(l)!Laid(S, f, [r \in S |-> Layer(l)!Token(r, 1)])
        /\ actives'[l] = Cardinality(S)
    BY <1>1, <1>4, NewBatchLayer
  <1>8. UNCHANGED <<session, pendingSampledTokens, pendingSampledB, hung>> /\ S # {}
    BY DEF PrefillBatchedUniform, pendingVars
  <1>9. Layer(l)!PrefillBatchedUniform(S)
    BY <1>2, <1>3, <1>5, <1>7, <1>8 DEF Layer!PrefillBatchedUniform, Layer!pendingVars
  <1> QED
    BY <1>6, <1>9 DEF Layer!Next, EngineStep

\* An add that does not trap is one the dense engine's own check lets pass.
LEMMA AddBatchSlotStep ==
    ASSUME MapInv, Lockstep, ~hung, NEW r \in Requests, AddBatchSlot(r), Intact(r), NEW l \in Layers
    PROVE  EngineStep(l)
  <1>1. BatchSize < maxBatch /\ maxBatch > 0
    BY SlotBounds DEF AddBatchSlot, Reach, Layer!Smaller, MapInv, MapTypes
  <1>2. l < FailsAt[r]
    BY HybridAssumption DEF Intact, Copied, Layers
  <1>3. /\ rows'[l] = [rows[l] EXCEPT ![BatchSize] = Token(r, session[r])]
        /\ actives'[l] = CountWith(l)
    BY <1>2 DEF AddBatchSlot, CopiedInto
  <1>4. actives'[l] = Layer(l)!Larger(actives[l], BatchSize + 1)
    BY <1>3 DEF CountWith, Layer!Larger
  <1>5. session' = Layer(l)!SessionsWithout({r})
    BY DEF AddBatchSlot, Layer!SessionsWithout, Layer!NoSession
  <1>6. \A k \in Nat : Token(r, k) = Layer(l)!Token(r, k)
    BY DEF Token, Layer!Token
  <1>7. session[r] \in Nat /\ session[r] # Layer(l)!NoSession
    BY DEF AddBatchSlot, MayAdd, MapInv, MapTypes, Layer!NoSession
  <1>8. Layer(l)!NextSlot = BatchSize /\ Layer(l)!RoomForSlot
    BY <1>1, OneMap DEF Layer!NextSlot, Layer!RoomForSlot
  <1>9. /\ batchTokens' = [batchTokens EXCEPT ![BatchSize] = Layer(l)!Token(r, session[r] + 1)]
        /\ rows'[l] = [rows[l] EXCEPT ![BatchSize] = Layer(l)!Token(r, session[r])]
    <2>1. session[r] \in Nat /\ session[r] + 1 \in Nat
      BY <1>7
    <2>2. /\ Token(r, session[r]) = Layer(l)!Token(r, session[r])
          /\ Token(r, session[r] + 1) = Layer(l)!Token(r, session[r] + 1)
      BY <1>6, <2>1
    <2>3. batchTokens' = [batchTokens EXCEPT ![BatchSize] = Token(r, session[r] + 1)]
      BY DEF AddBatchSlot
    <2> QED
      BY <1>3, <2>2, <2>3
  <1>10. Layer(l)!AddBatchSlot(r)
    BY <1>4, <1>5, <1>7, <1>8, <1>9 DEF AddBatchSlot, Layer!AddBatchSlot, pendingVars, Layer!pendingVars
  <1> QED
    BY <1>10 DEF Layer!Next, EngineStep

LEMMA RemoveBatchSlotStep ==
    ASSUME MapInv, Lockstep, ~hung, NEW r \in Requests, RemoveBatchSlot(r), NEW l \in Layers
    PROVE  EngineStep(l)
  <1>1. actives[l] = BatchSize /\ Layer(l)!BatchSize = BatchSize /\ Layer(1)!BatchSize = BatchSize
    BY OneMap DEF Lockstep, BatchSize
  <1>2. rows'[l] = Layer(l)!RowsWithout(r, rows[l])
    BY <1>1 DEF RemoveBatchSlot, LayerWithout, Layer!RowsWithout
  <1>3. batchTokens' = Layer(l)!RowsWithout(r, batchTokens)
    BY <1>1 DEF RemoveBatchSlot, Layer!RowsWithout
  <1>4. batchSlots' = Layer(l)!SlotsWithout(r)
    BY <1>1 DEF RemoveBatchSlot, Layer!SlotsWithout, Layer!NoSlot
  <1>5. actives'[l] = Layer(l)!ActiveWithoutOne
    BY DEF RemoveBatchSlot
  <1>6. batchSlots[r] # Layer(l)!NoSlot
    BY DEF RemoveBatchSlot, NoSlot, Layer!NoSlot
  <1>7. Layer(l)!RemoveBatchSlot(r)
    BY <1>2, <1>3, <1>4, <1>5, <1>6
    DEF RemoveBatchSlot, Layer!RemoveBatchSlot, pendingVars, Layer!pendingVars
  <1> QED
    BY <1>7 DEF Layer!Next, EngineStep

\* In lockstep a forward pass over all layers is the dense engine's over each.
LEMMA PassStep ==
    ASSUME MapInv, Lockstep, NEW input, NEW l \in Layers
    PROVE  /\ RowsAfter(input)[l] = Layer(l)!KVAfter(input)
           /\ RowsAfter(input)[l] = RowsAfter(input)[1]
           /\ SampledAfter(input) = Layer(l)!SampledAfter(input)
  <1>1. 1 \in Layers
    BY HybridAssumption DEF Layers
  <1>2. \A s \in Slots : InStep(s)
    BY DEF InStep, Lockstep
  <1>3. Layer(l)!BatchSize = BatchSize /\ BatchSize \in Nat /\ rows[l] = rows[1]
    BY OneMap, SlotBounds DEF Lockstep
  <1>4. \A s \in Slots : s \in Int
    BY DEF Slots, Layer!Slots
  <1>5. \A k \in Layers : RowsAfter(input)[k] =
            [s \in Slots |-> IF s < BatchSize THEN Layer(k)!Forward(rows[k][s], input[s])
                                             ELSE rows[k][s]]
    BY <1>2, <1>3, <1>4 DEF RowsAfter
  <1>6. RowsAfter(input)[l] = Layer(l)!KVAfter(input)
    BY <1>3, <1>5 DEF Layer!KVAfter, Slots, Layer!Slots
  <1>7. RowsAfter(input)[l] = RowsAfter(input)[1]
    <2>1. \A cache, tok : Layer(l)!Forward(cache, tok) = Layer(1)!Forward(cache, tok)
      BY DEF Layer!Forward, Layer!Token
    <2>2. \A s \in Slots : Layer(l)!Forward(rows[l][s], input[s]) = Layer(1)!Forward(rows[1][s], input[s])
      BY <1>3, <2>1
    <2>3. RowsAfter(input)[1] =
              [s \in Slots |-> IF s < BatchSize THEN Layer(1)!Forward(rows[1][s], input[s])
                                               ELSE rows[1][s]]
      BY <1>1, <1>5
    <2>4. RowsAfter(input)[l] =
              [s \in Slots |-> IF s < BatchSize THEN Layer(l)!Forward(rows[l][s], input[s])
                                               ELSE rows[1][s]]
      BY <1>3, <1>5
    <2> QED
      BY <2>2, <2>3, <2>4
  <1>8. SampledAfter(input) =
            [s \in Slots |-> IF s < BatchSize THEN Layer(l)!Sample(RowsAfter(input)[l][s])
                                             ELSE Layer(l)!Blank]
    BY <1>7 DEF SampledAfter, Layer!Sample, Layer!Token, Layer!Blank
  <1>9. \A s \in Slots : s < BatchSize =>
            RowsAfter(input)[l][s] = Layer(l)!Forward(rows[l][s], input[s])
    BY <1>5
  <1>10. SampledAfter(input) = Layer(l)!SampledAfter(input)
    BY <1>3, <1>8, <1>9 DEF Layer!SampledAfter, Slots, Layer!Slots
  <1> QED
    BY <1>6, <1>7, <1>10

LEMMA DecodeStep ==
    ASSUME MapInv, Lockstep, ~hung, DecodeAsync \/ DecodeSync \/ DecodeLogprobsBatch,
           NEW l \in Layers
    PROVE  EngineStep(l)
  <1>1. /\ Layer(l)!Batched = Batched /\ Layer(l)!BatchSize = BatchSize /\ Layer(l)!Live = Live
        /\ Layer(l)!Occupied = Layer(1)!Occupied /\ Layer(l)!AllGreedy = Layer(1)!AllGreedy
        /\ Layer(l)!PipelineValid = Layer(1)!PipelineValid
        /\ Layer(l)!Slots = Slots /\ Blanks = [s \in Slots |-> Layer(l)!Blank]
    BY OneMap DEF Occupied, Slots, Layer!Slots, Blanks, Layer!Blank, Layer!Token
  <1>2. Layer(l)!RoomInBatch <=> Layer(1)!RoomInBatch
    BY DEF Lockstep, Layer!RoomInBatch, Layer!Batched, Layer!NoSlot
  <1>3. CanDecode => Layer(l)!RoomInBatch /\ maxBatch > 0 /\ Layer(l)!Batched # {}
    BY <1>1, <1>2 DEF CanDecode
  <1>4. actives' = actives /\ UNCHANGED <<session, batchSlots, maxBatch, hung>>
    BY DEF DecodeAsync, DecodeSync, DecodeLogprobsBatch
  <1>5. \A tokens : Advance(tokens) = [s \in Layer(l)!Slots |-> IF s \in Layer(l)!Occupied
                                          THEN tokens[s] ELSE batchTokens[s]]
    BY <1>1 DEF Advance
  <1>6. CASE DecodeAsync
    <2>1. rows'[l] = Layer(l)!KVAfter(pendingSampledTokens)
      BY <1>6, PassStep DEF DecodeAsync
    <2>2. pendingSampledTokens' = Layer(l)!SampledAfter(pendingSampledTokens)
      BY <1>6, PassStep DEF DecodeAsync
    <2>3. Layer(l)!DecodeAsync
      BY <1>1, <1>5, <1>6, <2>1, <2>2 DEF DecodeAsync, Layer!DecodeAsync
    <2>4. Layer(l)!DecodeBatch
      BY <1>3, <1>4, <1>6, <2>3 DEF DecodeAsync, Layer!DecodeBatch
    <2> QED
      BY <2>4 DEF Layer!Next, EngineStep
  <1>7. CASE DecodeSync
    <2>1. rows'[l] = Layer(l)!KVAfter(batchTokens)
      BY <1>7, PassStep DEF DecodeSync
    <2>2. SampledAfter(batchTokens) = Layer(l)!SampledAfter(batchTokens)
      BY PassStep
    <2>3. Layer(l)!DecodeSync
      BY <1>1, <1>5, <1>7, <2>1, <2>2 DEF DecodeSync, Layer!DecodeSync
    <2>4. Layer(l)!DecodeBatch
      BY <1>3, <1>4, <1>7, <2>3 DEF DecodeSync, Layer!DecodeBatch
    <2> QED
      BY <2>4 DEF Layer!Next, EngineStep
  <1>8. CASE DecodeLogprobsBatch
    <2>1. rows'[l] = Layer(l)!KVAfter(batchTokens)
      BY <1>8, PassStep DEF DecodeLogprobsBatch
    <2>2. SampledAfter(batchTokens) = Layer(l)!SampledAfter(batchTokens)
      BY PassStep
    <2>3. Layer(l)!DecodeLogprobsBatch
      BY <1>1, <1>3, <1>4, <1>5, <1>8, <2>1, <2>2
      DEF DecodeLogprobsBatch, Layer!DecodeLogprobsBatch, pendingVars, Layer!pendingVars
    <2> QED
      BY <2>3 DEF Layer!Next, Layer!DecodeAllLogprobs, EngineStep
  <1> QED
    BY <1>6, <1>7, <1>8

LEMMA HybridStep ==
    ASSUME LockstepInv, [Next]_hybridVars, ~failed', ~trapped', NEW l \in Layers
    PROVE  EngineStep(l)
  <1>1. MapInv /\ (~failed => Lockstep)
    BY DEF LockstepInv
  <1>2. CASE UNCHANGED hybridVars
    BY <1>2 DEF hybridVars, pendingVars, EngineStep, Layer!engineVars
  <1>3. ASSUME Next, SessionCall PROVE EngineStep(l)
    BY <1>1, <1>3, SessionCallStep DEF Next
  <1>4. ASSUME Next, InitBatched PROVE EngineStep(l)
    BY <1>1, <1>4, InitBatchedStep DEF Next
  <1>5. ~InitBatchedFails
    BY DEF InitBatchedFails
  <1>6. ASSUME Next, NEW r \in Requests, AddBatchSlot(r) PROVE EngineStep(l)
    <2>1. Intact(r) /\ ~failed
      BY <1>6 DEF AddBatchSlot
    <2> QED
      BY <1>1, <1>6, <2>1, AddBatchSlotStep DEF Next
  <1>7. ASSUME Next, NEW r \in Requests, RemoveBatchSlot(r) PROVE EngineStep(l)
    BY <1>1, <1>7, RemoveBatchSlotStep DEF Next, RemoveBatchSlot, ownVars
  <1>8. ASSUME Next, NEW S \in SUBSET Requests, \A r \in S : Layer(1)!Fresh(r),
               PrefillBatchedUniform(S)
        PROVE  EngineStep(l)
    BY <1>1, <1>8, PrefillBatchedUniformStep DEF Next
  <1>9. ASSUME Next, DecodeAsync \/ DecodeSync \/ DecodeLogprobsBatch PROVE EngineStep(l)
    BY <1>1, <1>9, DecodeStep DEF Next, DecodeAsync, DecodeSync, DecodeLogprobsBatch, ownVars
  <1>10. ~DecodeTraps /\ \A r \in Requests : ~AddBatchSlotTraps(r)
    BY DEF DecodeTraps, AddBatchSlotTraps, Traps
  <1> QED
    BY <1>2, <1>3, <1>4, <1>5, <1>6, <1>7, <1>8, <1>9, <1>10 DEF Next

-----------------------------------------------------------------------------

LEMMA LockstepInitially == Init => Lockstep /\ \A l \in Layers : Layer(l)!Init
  <1> SUFFICES ASSUME Init PROVE Lockstep /\ \A l \in Layers : Layer(l)!Init
    OBVIOUS
  <1>1. 1 \in Layers
    BY HybridAssumption DEF Layers
  <1>2. /\ \A l \in Layers : rows[l] = Blanks /\ actives[l] = 0
        /\ Layer(1)!Init
    BY DEF Init
  <1>3. Batched = {} /\ BatchSize = 0
    <2>1. Batched = {}
      BY <1>2, MapDefs DEF MapReads, Layer!Init, Layer!NoSlot
    <2> QED
      BY <1>2, <2>1, MapDefs, FS_EmptySet DEF MapReads, Layer!Init
  <1>4. Lockstep
    BY <1>1, <1>2, <1>3 DEF Lockstep
  <1>5. ASSUME NEW l \in Layers PROVE Layer(l)!Init
    BY <1>2, <1>5 DEF Layer!Init, Blanks, Slots, Layer!Slots, Layer!Blank, Layer!Token,
       Layer!NoSession, Layer!NoSlot
  <1> QED
    BY <1>4, <1>5

\* A new batch is in lockstep.
LEMMA NewBatchInStep ==
    ASSUME MapInv, NEW S \in SUBSET Requests, NEW f \in Layer(1)!SlotNumberings(S), NEW n,
           NewBatch(S, f, n)
    PROVE  Lockstep'
  <1>1. Cardinality(S) \in Nat /\ 1 \in Layers
    BY MapSizes, HybridAssumption DEF Layers
  <1>2. /\ \A r \in S : f[r] \in 0 .. Cardinality(S) - 1
        /\ \A r, q \in S : r # q => f[r] # f[q]
        /\ \A s \in 0 .. Cardinality(S) - 1 : \E r \in S : f[r] = s
    BY <1>1, NumberingDefs
  <1>3. batchSlots' = Layer(1)!SlotsOf(S, f)
    BY DEF NewBatch
  <1>4. Batched' = S
    BY <1>1, <1>2, <1>3, DenseBy
  <1>5. BatchSize' = Cardinality(S)
    BY <1>4, MapDefs DEF MapReads
  <1>6. \A l \in Layers : rows'[l] = rows'[1] /\ actives'[l] = BatchSize'
    BY <1>1, <1>5 DEF NewBatch
  <1> QED
    BY <1>6 DEF Lockstep

LEMMA LockstepKept ==
    ASSUME MapInv, Lockstep, Next, ~failed'
    PROVE  Lockstep'
  <1>1. 1 \in Layers
    BY HybridAssumption DEF Layers
  <1>2. ASSUME UNCHANGED <<batchSlots, actives>>,
               \A l \in Layers : rows'[l] = rows'[1]
        PROVE  Lockstep'
    <2>1. BatchSize' = BatchSize
      <3>1. Batched' = Batched
        BY <1>2, MapDefs DEF MapReads
      <3> QED
        BY <3>1, MapDefs DEF MapReads
    <2> QED
      BY <1>2, <2>1 DEF Lockstep
  <1>3. CASE SessionCall
    <2>1. rows' = rows /\ actives' = actives
      BY <1>3 DEF SessionCall, NoBatchTouched
    <2>2. batchSlots' = batchSlots
      BY <1>3 DEF SessionCall, Layer!PrefillReq, Layer!DecodeStepReq, Layer!FinishReq, Layer!Reset,
         Layer!DecodeSemiBatched, Layer!DecodeLogprobsFallback, Layer!batchVars
    <2> QED
      BY <1>2, <2>1, <2>2 DEF Lockstep
  <1>4. CASE InitBatched
    <2>1. Live \in SUBSET Requests
      BY MapSizes
    <2> QED
      BY <1>4, <2>1, NewBatchInStep DEF InitBatched
  <1>5. ~InitBatchedFails
    BY DEF InitBatchedFails
  <1>6. ASSUME NEW r \in Requests, AddBatchSlot(r) PROVE Lockstep'
    <2>1. Intact(r) /\ BatchSize \in Nat
      BY <1>6, SlotBounds DEF AddBatchSlot
    <2>2. \A l \in Layers : l < FailsAt[r]
      BY <2>1, HybridAssumption DEF Intact, Copied, Layers
    <2>3. \A l \in Layers : /\ rows'[l] = [rows[l] EXCEPT ![BatchSize] = Token(r, session[r])]
                            /\ actives'[l] = CountWith(l)
      BY <1>6, <2>2 DEF AddBatchSlot, CopiedInto
    <2>4. \A l \in Layers : actives'[l] = BatchSize + 1
      <3>1. ASSUME NEW l \in Layers PROVE actives'[l] = Layer(1)!Larger(BatchSize, BatchSize + 1)
        BY <2>3 DEF CountWith, Lockstep
      <3>2. Layer(1)!Larger(BatchSize, BatchSize + 1) = BatchSize + 1
        BY <2>1 DEF Layer!Larger
      <3> QED
        BY <3>1, <3>2
    <2> QED
      BY <1>1, <1>6, <2>1, <2>3, <2>4, AddSize DEF Lockstep
  <1>7. ASSUME NEW r \in Requests, RemoveBatchSlot(r) PROVE Lockstep'
    <2>1. BatchSize \in Nat /\ BatchSize >= 1
      <3>1. r \in Batched
        BY <1>7, MapDefs DEF RemoveBatchSlot, MapReads
      <3> QED
        BY <3>1, SlotBounds
    <2>2. \A l \in Layers : /\ rows'[l] = LayerWithout(l, batchSlots[r])
                            /\ actives'[l] = Layer(l)!ActiveWithoutOne
      BY <1>7 DEF RemoveBatchSlot
    <2>3. \A l \in Layers : rows'[l] = rows'[1]
      <3>1. ASSUME NEW l \in Layers
            PROVE  LayerWithout(l, batchSlots[r]) = LayerWithout(1, batchSlots[r])
        <4>1. rows[l] = rows[1] /\ actives[l] = actives[1]
          BY <1>1 DEF Lockstep
        <4> QED
          BY <4>1 DEF LayerWithout
      <3> QED
        BY <1>1, <2>2, <3>1
    <2>4. \A l \in Layers : actives'[l] = BatchSize - 1
      <3>1. ASSUME NEW l \in Layers PROVE actives'[l] = Layer(l)!Larger(0, BatchSize - 1)
        <4>1. actives[l] = BatchSize
          BY DEF Lockstep
        <4> QED
          BY <2>2, <4>1 DEF Layer!ActiveWithoutOne
      <3>2. \A l \in Layers : Layer(l)!Larger(0, BatchSize - 1) = BatchSize - 1
        BY <2>1 DEF Layer!Larger
      <3> QED
        BY <3>1, <3>2
    <2> QED
      BY <1>7, <2>3, <2>4, RemoveSize DEF RemoveBatchSlot, Lockstep
  <1>8. ASSUME NEW S \in SUBSET Requests, PrefillBatchedUniform(S) PROVE Lockstep'
    BY <1>8, NewBatchInStep DEF PrefillBatchedUniform
  <1>9. CASE DecodeAsync \/ DecodeSync \/ DecodeLogprobsBatch
    <2>1. PICK input : rows' = RowsAfter(input)
      BY <1>9 DEF DecodeAsync, DecodeSync, DecodeLogprobsBatch
    <2>2. \A l \in Layers : rows'[l] = rows'[1]
      BY <2>1, PassStep
    <2>3. UNCHANGED <<batchSlots, actives>>
      BY <1>9 DEF DecodeAsync, DecodeSync, DecodeLogprobsBatch
    <2> QED
      BY <1>2, <2>2, <2>3
  <1>10. ASSUME NEW s, Traps(s) PROVE Lockstep'
    BY <1>2, <1>10 DEF Traps, Lockstep
  <1> QED
    BY <1>3, <1>4, <1>5, <1>6, <1>7, <1>8, <1>9, <1>10 DEF Next, DecodeTraps, AddBatchSlotTraps

LEMMA FailedStays == [Next]_hybridVars => (failed => failed')
  <1> SUFFICES ASSUME [Next]_hybridVars, failed PROVE failed'
    OBVIOUS
  <1>1. CASE UNCHANGED hybridVars
    BY <1>1 DEF hybridVars, ownVars
  <1>2. CASE Next
    BY <1>2 DEF Next, SessionCall, NoBatchTouched, InitBatched, InitBatchedFails, AddBatchSlot,
       AddBatchSlotTraps, DecodeTraps, Traps,
       RemoveBatchSlot, PrefillBatchedUniform, DecodeAsync, DecodeSync, DecodeLogprobsBatch, ownVars
  <1> QED
    BY <1>1, <1>2

LEMMA LockstepInductive == LockstepInv /\ [Next]_hybridVars => LockstepInv'
  <1> SUFFICES ASSUME LockstepInv, [Next]_hybridVars PROVE LockstepInv'
    OBVIOUS
  <1>1. MapInv'
    BY MapInductive DEF LockstepInv
  <1>2. ASSUME ~failed' PROVE Lockstep'
    <2>1. Lockstep
      BY <1>2, FailedStays DEF LockstepInv
    <2>2. CASE Next
      BY <1>2, <2>1, <2>2, LockstepKept DEF LockstepInv
    <2>3. CASE UNCHANGED hybridVars
      <3>1. Batched' = Batched
        BY <2>3, MapDefs DEF hybridVars, MapReads
      <3>2. BatchSize' = BatchSize
        BY <3>1, MapDefs DEF MapReads
      <3> QED
        BY <2>1, <2>3, <3>2 DEF hybridVars, Lockstep
    <2> QED
      BY <2>2, <2>3
  <1> QED
    BY <1>1, <1>2 DEF LockstepInv

\* For any number of layers and requests, as long as no copy fails and no add
\* meets a full batch, each layer is a dense engine under the client BatchEngine
\* is proved for: all that is proved of its slots, rows and counters holds of
\* every layer.
THEOREM EveryLayerIsAnEngine == HybridSpec => LayersImplementEngine
  <1>1. Init => LockstepInv /\ \A l \in Layers : Layer(l)!Init
    BY MapInitially, LockstepInitially DEF LockstepInv
  <1>2. LockstepInv /\ [Next]_hybridVars => [failed' \/ trapped' \/ \A l \in Layers : EngineStep(l)]_hybridVars
    BY HybridStep
  <1> QED
    BY <1>1, <1>2, LockstepInductive, PTL DEF HybridSpec, LayersImplementEngine

=============================================================================
