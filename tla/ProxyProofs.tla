----------------------------- MODULE ProxyProofs ----------------------------
(* What holds of a completion through the proxy for any threshold, requests, *)
(* retrieval and answers, cut into any deltas: its budget, the conservation  *)
(* of its text and its calls through both stages and in an answer in one     *)
(* piece, the block of retrieved code, and the client's messages.            *)
EXTENDS Proxy, SequenceLemmas, FiniteSetTheorems

\* The larger and the smaller of two integers.
LEMMA MaxOfTwo ==
    ASSUME NEW a \in Int, NEW b \in Int
    PROVE  Max({a, b}) \in {a, b} /\ Max({a, b}) >= a /\ Max({a, b}) >= b
  <1>1. CASE a >= b
    BY <1>1 DEF Max
  <1>2. CASE a < b
    BY <1>2 DEF Max
  <1> QED
    BY <1>1, <1>2

LEMMA MinOfTwo ==
    ASSUME NEW a \in Int, NEW b \in Int
    PROVE  Min({a, b}) \in {a, b} /\ Min({a, b}) <= a /\ Min({a, b}) <= b
  <1>1. CASE a <= b
    BY <1>1 DEF Min
  <1>2. CASE a > b
    BY <1>2 DEF Min
  <1> QED
    BY <1>1, <1>2

\* A bump leaves half of a known context, and 1024 tokens at least, to the prompt.
LEMMA BumpFits ==
    ASSUME NEW len \in Nat
    PROVE  /\ Bump(len) \in Int
           /\ len > 0 => 2 * Bump(len) <= len + 1 /\ Bump(len) + 1024 <= len
  <1> DEFINE half == len \div 2
             reserve == Max({half, 1024})
             room == Min({32768, len - reserve})
  <1>1. half \in Nat /\ 2 * half >= len - 1
    OBVIOUS
  <1>2. reserve \in Int /\ reserve >= half /\ reserve >= 1024
    BY <1>1, MaxOfTwo
  <1>3. Bump(len) = IF len = 0 THEN 32768 ELSE room
    BY DEF Bump
  <1> HIDE DEF half, reserve
  <1>4. room \in Int /\ room <= len - reserve
    <2>1. 32768 \in Int /\ len - reserve \in Int
      BY <1>2
    <2> QED
      BY <2>1, MinOfTwo
  <1> HIDE DEF room
  <1> QED
    BY <1>1, <1>2, <1>3, <1>4

\* What MaxTokens may make of a request, for any context length.
LEMMA MaxTokensSound ==
    ASSUME NEW requested \in Nat, NEW reasons \in BOOLEAN, NEW len \in Nat
    PROVE  LET sent == MaxTokens(requested, reasons, len)
           IN  /\ sent \in Nat
               /\ \/ sent = requested
                  \/ /\ requested >= 1024 /\ sent > requested
                     /\ len > 0 => 2 * sent <= len + 1 /\ sent + 1024 <= len
  <1>1. PICK bump \in Int :
           /\ bump = Bump(len)
           /\ len > 0 => 2 * bump <= len + 1 /\ bump + 1024 <= len
    BY BumpFits
  <1> DEFINE raised == /\ reasons
                       /\ requested \in 1024 .. 16383
                       /\ Bump(len) >= 8192
                       /\ Bump(len) > requested
  <1>2. MaxTokens(requested, reasons, len) = IF raised THEN Bump(len) ELSE requested
    BY SMT DEF MaxTokens
  <1>3. raised => requested >= 1024
    OBVIOUS
  <1>4. raised => bump > requested
    BY <1>1
  <1> HIDE DEF raised
  <1>5. \/ MaxTokens(requested, reasons, len) = requested
        \/ raised /\ MaxTokens(requested, reasons, len) = bump
    BY <1>1, <1>2
  <1> QED
    BY <1>1, <1>3, <1>4, <1>5

\* The same of a request as it is.
LEMMA SentSound ==
    ASSUME NEW ask \in Ask, NEW sent,
           \/ sent = ask.requested
           \/ sent = MaxTokens(ask.requested, ask.reasons, ask.len)
    PROVE  \/ sent = ask.requested
           \/ /\ ask.requested >= 1024 /\ sent > ask.requested
              /\ ask.len > 0 => 2 * sent <= ask.len + 1 /\ sent + 1024 <= ask.len
  <1> DEFINE requested == ask.requested
             reasons == ask.reasons
             len == ask.len
  <1>1. requested \in Nat /\ reasons \in BOOLEAN /\ len \in Nat
    BY DEF Ask
  <1>2. sent = requested \/ sent = MaxTokens(requested, reasons, len)
    OBVIOUS
  <1> HIDE DEF requested, reasons, len
  <1>3. \/ sent = requested
        \/ /\ requested >= 1024 /\ sent > requested
           /\ len > 0 => 2 * sent <= len + 1 /\ sent + 1024 <= len
    BY <1>1, <1>2, MaxTokensSound
  <1> QED
    BY <1>3 DEF requested, reasons, len

\* BudgetSound needs to know that request holds one of Asks until it is forwarded.
Asked ==
    /\ pc = "asked" => request.ask \in Asks
    /\ BudgetSound

LEMMA AskedInit == ProxyAssumption /\ Init => Asked
  BY DEF Init, Asked, BudgetSound, Request

LEMMA AskedStep == ASSUME ProxyAssumption, Asked, [Next]_vars PROVE Asked'
  <1>1. CASE \E chunks \in Retrievals, fails \in BOOLEAN : Forward(chunks, fails)
    <2>1. PICK chunks \in Retrievals, fails \in BOOLEAN : Forward(chunks, fails)
      BY <1>1
    <2>2. request.ask \in Ask /\ pc' = "forwarded"
      BY <2>1 DEF Forward, Asked, ProxyAssumption
    <2>3. /\ request'.ask = request.ask
          /\ \/ request'.sent = request.ask.requested
             \/ request'.sent = MaxTokens(request.ask.requested, request.ask.reasons, request.ask.len)
      BY <2>1 DEF Forward, Rewritten, Request
    <2> QED
      BY <2>2, <2>3, SentSound DEF Asked, BudgetSound
  <1>2. CASE UNCHANGED vars
    BY <1>2 DEF vars, Asked, BudgetSound
  <1>3. ASSUME pc' \notin {"asked", "forwarded"}
        PROVE  Asked'
    BY <1>3 DEF Asked, BudgetSound
  <1>4. CASE Accept \/ Open \/ Break
    BY <1>3, <1>4 DEF Accept, Open, Break
  <1>5. CASE \E message \in Messages, fails \in BOOLEAN : AnswerWhole(message, fails)
    BY <1>3, <1>5 DEF AnswerWhole
  <1>6. ASSUME NEW c, pc = "stream", Deliver(c)
        PROVE  Asked'
    BY <1>3, <1>6 DEF Deliver, Written, Cancel
  <1>7. CASE \E t \in Deltas, finish \in {"none", "length"} : ContentChunk(t, finish)
    BY <1>6, <1>7 DEF ContentChunk, Streaming
  <1>8. CASE ReasoningChunk \/ ToolChunk \/ FinishChunk("length")
    BY <1>6, <1>8 DEF ReasoningChunk, ToolChunk, FinishChunk, Streaming
  <1>9. CASE UsageChunk \/ Done
    BY <1>3, <1>9 DEF UsageChunk, Done, Cancel
  <1>10. CASE ClientLeaves
    BY <1>10 DEF ClientLeaves, Asked, BudgetSound
  <1> QED
    BY <1>1, <1>2, <1>4, <1>5, <1>7, <1>8, <1>9, <1>10 DEF Next

\* For any requests and any context lengths, the proxy only ever raises
\* max_tokens, never an explicit small one, and leaves the prompt its half.
THEOREM BudgetAlwaysSound == Spec => []BudgetSound
  <1>1. Asked => BudgetSound
    BY DEF Asked
  <1> QED
    BY <1>1, AskedInit, AskedStep, ProxyAssumption, PTL DEF Spec

-----------------------------------------------------------------------------
(* Text                                                                    *)

\* The sequences of p alone, if it is a word.
wordOf == [p \in Piece |-> IF p \in {"prefix", "nl"} THEN <<>> ELSE <<p>>]

LEMMA WordOfType == wordOf \in Each(Piece, Seq(Piece))
  <1>1. \A p \in Piece : <<p>> \in Seq(Piece) /\ <<>> \in Seq(Piece)
    OBVIOUS
  <1>2. \A p \in Piece : (IF p \in {"prefix", "nl"} THEN <<>> ELSE <<p>>) \in Seq(Piece)
    BY <1>1
  <1> QED
    BY <1>2 DEF wordOf, Each

LEMMA WordsAreFlat ==
    ASSUME NEW t \in Seq(Piece)
    PROVE  Words(t) = FlatMap(wordOf, t)
  <1>1. \A i \in DOMAIN t : t[i] \in Piece
    OBVIOUS
  <1>2. [i \in DOMAIN t |-> IF t[i] \in {"prefix", "nl"} THEN <<>> ELSE <<t[i]>>] = Map(wordOf, t)
    BY <1>1 DEF Map, wordOf
  <1> QED
    BY <1>2 DEF Words, FlatMap

LEMMA WordsType ==
    ASSUME NEW t \in Seq(Piece)
    PROVE  Words(t) \in Seq(Piece)
  BY WordsAreFlat, WordOfType, FlatMapType

LEMMA WordsConcat ==
    ASSUME NEW s \in Seq(Piece), NEW t \in Seq(Piece)
    PROVE  /\ s \o t \in Seq(Piece)
           /\ Words(s \o t) = Words(s) \o Words(t)
           /\ Words(s) \in Seq(Piece) /\ Words(t) \in Seq(Piece)
  <1>1. s \o t \in Seq(Piece)
    OBVIOUS
  <1>2. FlatMap(wordOf, s \o t) = FlatMap(wordOf, s) \o FlatMap(wordOf, t)
    BY WordOfType, FlatMapConcat
  <1> QED
    BY <1>1, <1>2, WordsAreFlat, WordsType

LEMMA WordsEmpty == <<>> \in Seq(Piece) /\ Words(<<>>) = <<>>
  <1>1. <<>> \in Seq(Piece)
    OBVIOUS
  <1> QED
    BY <1>1, WordsAreFlat, FlatMapEmpty

LEMMA WordsOne ==
    ASSUME NEW p \in Piece
    PROVE  /\ <<p>> \in Seq(Piece)
           /\ Words(<<p>>) = IF p \in {"prefix", "nl"} THEN <<>> ELSE <<p>>
  <1>1. <<p>> \in Seq(Piece)
    OBVIOUS
  <1>2. FlatMap(wordOf, <<p>>) = wordOf[p]
    BY WordOfType, FlatMapOne
  <1> QED
    BY <1>1, <1>2, WordsAreFlat DEF wordOf

\* Newlines and the prefix are not words.
Silent(t) == t \in Seq(Piece) /\ \A i \in 1 .. Len(t) : t[i] \in {"prefix", "nl"}

LEMMA SilentHasNoWords ==
    ASSUME NEW t, Silent(t)
    PROVE  Words(t) = <<>>
  <1> DEFINE Good == {k \in 0 .. Len(t) : Words(SubSeq(t, 1, k)) = <<>>}
  <1>1. t \in Seq(Piece) /\ Len(t) \in Nat
    BY DEF Silent
  <1>2. 0 \in Good
    <2>1. SubSeq(t, 1, 0) = <<>> /\ 0 \in 0 .. Len(t)
      BY <1>1
    <2> QED
      BY <2>1, WordsEmpty
  <1>3. ASSUME NEW k \in 0 .. Len(t), k < Len(t), k \in Good PROVE k + 1 \in Good
    <2>1. k + 1 \in 0 .. Len(t) /\ k + 1 \in 1 .. Len(t)
      BY <1>1, <1>3
    <2>2. t[k + 1] \in Piece /\ t[k + 1] \in {"prefix", "nl"}
      BY <1>1, <2>1 DEF Silent
    <2>3. SubSeq(t, 1, k) \in Seq(Piece) /\ <<t[k + 1]>> \in Seq(Piece)
      BY <1>1, <2>2
    <2>4. SubSeq(t, 1, k + 1) = SubSeq(t, 1, k) \o <<t[k + 1]>>
      BY <1>1, <2>1
    <2>5. Words(<<t[k + 1]>>) = <<>>
      BY <2>2, WordsOne
    <2>6. Words(SubSeq(t, 1, k)) = <<>>
      BY <1>3
    <2>7. Words(SubSeq(t, 1, k + 1)) = <<>> \o <<>>
      BY <2>3, <2>4, <2>5, <2>6, WordsConcat
    <2> QED
      BY <2>1, <2>7
  <1> HIDE DEF Good
  <1>4. Len(t) \in Good
    BY <1>1, <1>2, <1>3, Induction
  <1>5. SubSeq(t, 1, Len(t)) = t
    BY <1>1
  <1> QED
    BY <1>4, <1>5 DEF Good

\* Nothing but newlines.
Blank(t) == t \in Seq(Piece) /\ \A i \in 1 .. Len(t) : t[i] = "nl"

LEMMA BlankIsSilent == \A t : Blank(t) => Silent(t)
  BY DEF Blank, Silent

LEMMA LStripCuts ==
    ASSUME NEW t \in Seq(Piece)
    PROVE  \E k \in 0 .. Len(t) :
              /\ LStrip(t) = SubSeq(t, k + 1, Len(t))
              /\ \A i \in 1 .. k : t[i] = "nl"
              /\ k < Len(t) => t[k + 1] # "nl"
  <1> DEFINE solid == {i \in DOMAIN t : t[i] # "nl"}
  <1>1. Len(t) \in Nat /\ DOMAIN t = 1 .. Len(t)
    OBVIOUS
  <1>2. CASE solid = {}
    <2>1. LStrip(t) = <<>>
      BY <1>2 DEF LStrip
    <2>2. SubSeq(t, Len(t) + 1, Len(t)) = <<>>
      BY <1>1
    <2>3. \A i \in 1 .. Len(t) : t[i] = "nl"
      BY <1>1, <1>2
    <2> QED
      BY <1>1, <2>1, <2>2, <2>3
  <1>3. CASE solid # {}
    <2>1. solid \in SUBSET Nat
      BY <1>1
    <2>2. LStrip(t) = SubSeq(t, Min(solid), Len(t))
      BY <1>3 DEF LStrip
    <2>3. PICK m \in solid : m = Min(solid) /\ \A i \in solid : m <= i
      BY <1>3, <2>1, MinIsLeast, Zenon
    <2>4. m \in 1 .. Len(t) /\ t[m] # "nl"
      BY <1>1
    <2>5. ASSUME NEW i \in 1 .. m - 1 PROVE t[i] = "nl"
      <3>1. i \in 1 .. Len(t) /\ ~(m <= i)
        BY <1>1, <2>4
      <3>2. i \notin solid
        BY <2>3, <3>1
      <3> QED
        BY <1>1, <3>1, <3>2
    <2>6. m - 1 \in 0 .. Len(t) /\ m - 1 + 1 = m
      BY <1>1, <2>4
    <2> QED
      BY <2>2, <2>3, <2>4, <2>5, <2>6
  <1> QED
    BY <1>2, <1>3

LEMMA LStripLeaves ==
    ASSUME NEW t \in Seq(Piece)
    PROVE  /\ LStrip(t) \in Seq(Piece)
           /\ \E a : Blank(a) /\ t = a \o LStrip(t)
  <1>1. PICK k \in 0 .. Len(t) : LStrip(t) = SubSeq(t, k + 1, Len(t)) /\ \A i \in 1 .. k : t[i] = "nl"
    BY LStripCuts
  <1>2. /\ SubSeq(t, 1, k) \in Seq(Piece) /\ Len(SubSeq(t, 1, k)) = k
        /\ \A i \in 1 .. k : SubSeq(t, 1, k)[i] = t[i]
        /\ SubSeq(t, k + 1, Len(t)) \in Seq(Piece)
        /\ t = SubSeq(t, 1, k) \o SubSeq(t, k + 1, Len(t))
    BY CutAt, ZenonT(40)
  <1>3. Blank(SubSeq(t, 1, k))
    BY <1>1, <1>2 DEF Blank
  <1> QED
    BY <1>1, <1>2, <1>3

LEMMA StripLeaves ==
    ASSUME NEW t \in Seq(Piece)
    PROVE  /\ Strip(t) \in Seq(Piece)
           /\ \E a, b : Blank(a) /\ Blank(b) /\ t = (a \o Strip(t)) \o b
  <1>1. LStrip(t) \in Seq(Piece)
    BY LStripLeaves
  <1>2. PICK u \in Seq(Piece) : u = LStrip(t)
    BY <1>1, Zenon
  <1>3. PICK a : Blank(a) /\ t = a \o u
    BY <1>2, LStripLeaves
  <1>4. PICK r \in Seq(Piece) : r = Reverse(u) /\ Len(r) = Len(u)
    BY ReverseProperties
  <1>5. \A i \in 1 .. Len(u) : r[i] = u[Len(u) - i + 1]
    BY <1>4, ReverseProperties
  <1>6. PICK k \in 0 .. Len(r) : LStrip(r) = SubSeq(r, k + 1, Len(r)) /\ \A i \in 1 .. k : r[i] = "nl"
    BY LStripCuts
  <1>7. k \in 0 .. Len(u) /\ Len(u) \in Nat /\ Len(u) - k \in 0 .. Len(u) /\ Len(u) - (Len(u) - k) = k
    BY <1>4
  <1>8. Strip(t) = SubSeq(u, 1, Len(u) - k)
    <2>1. Strip(t) = Reverse(LStrip(r))
      BY <1>2, <1>4 DEF Strip
    <2>2. LStrip(r) = SubSeq(Reverse(u), k + 1, Len(u))
      BY <1>4, <1>6
    <2> QED
      BY <1>7, <2>1, <2>2, ReverseCut
  <1>9. /\ SubSeq(u, 1, Len(u) - k) \in Seq(Piece)
        /\ SubSeq(u, Len(u) - k + 1, Len(u)) \in Seq(Piece)
        /\ u = SubSeq(u, 1, Len(u) - k) \o SubSeq(u, Len(u) - k + 1, Len(u))
    BY <1>7, CutAt
  <1>10. PICK s \in Seq(Piece), b \in Seq(Piece) :
            s = Strip(t) /\ b = SubSeq(u, Len(u) - k + 1, Len(u)) /\ u = s \o b
    BY <1>8, <1>9, Zenon
  <1>11. Len(b) = k /\ \A i \in 1 .. k : b[i] = u[i + (Len(u) - k)]
    <2> DEFINE n == Len(u) - k
    <2>1. n \in 0 .. Len(u) /\ Len(u) - n = k /\ b = SubSeq(u, n + 1, Len(u))
      BY <1>7, <1>10
    <2> HIDE DEF n
    <2>2. Len(b) = k /\ \A i \in 1 .. k : b[i] = u[i + n]
      BY <2>1, CutAt
    <2> QED
      BY <2>2 DEF n
  <1>12. Blank(b)
    <2>1. ASSUME NEW i \in 1 .. Len(b) PROVE b[i] = "nl"
      <3>1. i \in 1 .. k
        BY <1>11
      <3>2. k - i + 1 \in 1 .. k /\ k - i + 1 \in 1 .. Len(u)
        BY <1>7, <3>1
      <3>3. Len(u) - (k - i + 1) + 1 = i + (Len(u) - k)
        BY <1>7, <3>1
      <3>4. r[k - i + 1] = u[i + (Len(u) - k)]
        BY <1>5, <3>2, <3>3
      <3>5. r[k - i + 1] = "nl"
        BY <1>6, <3>2
      <3> QED
        BY <1>11, <3>1, <3>4, <3>5
    <2> QED
      BY <2>1 DEF Blank
  <1>13. t = (a \o s) \o b
    <2>1. PICK c \in Seq(Piece) : c = a
      BY <1>3 DEF Blank
    <2>2. (c \o s) \o b = c \o (s \o b)
      BY ConcatAssociative, SMTT(30)
    <2> QED
      BY <1>3, <1>10, <2>1, <2>2
  <1> QED
    BY <1>3, <1>10, <1>12, <1>13

\* What has no words does not matter in front of a text, nor behind it.
LEMMA SilentAround ==
    ASSUME NEW a, Silent(a), NEW t \in Seq(Piece)
    PROVE  /\ a \o t \in Seq(Piece) /\ t \o a \in Seq(Piece)
           /\ Words(a \o t) = Words(t) /\ Words(t \o a) = Words(t)
  <1>1. a \in Seq(Piece) /\ Words(a) = <<>>
    BY SilentHasNoWords DEF Silent
  <1>2. a \o t \in Seq(Piece) /\ Words(a \o t) = Words(a) \o Words(t)
    BY <1>1, WordsConcat
  <1>3. t \o a \in Seq(Piece) /\ Words(t \o a) = Words(t) \o Words(a)
    BY <1>1, WordsConcat
  <1>4. Words(t) \in Seq(Piece)
    BY WordsType
  <1>5. <<>> \o Words(t) = Words(t) /\ Words(t) \o <<>> = Words(t)
    BY <1>4, ConcatEmptySeq
  <1> QED
    BY <1>1, <1>2, <1>3, <1>5

\* Neither stripping loses a word.
LEMMA StripKeepsWords ==
    ASSUME NEW t \in Seq(Piece)
    PROVE  /\ LStrip(t) \in Seq(Piece) /\ Words(LStrip(t)) = Words(t)
           /\ Strip(t) \in Seq(Piece) /\ Words(Strip(t)) = Words(t)
  <1>1. LStrip(t) \in Seq(Piece) /\ Strip(t) \in Seq(Piece)
    BY LStripLeaves, StripLeaves
  <1>2. Words(LStrip(t)) = Words(t)
    <2>1. PICK a : Blank(a) /\ t = a \o LStrip(t)
      BY LStripLeaves
    <2>2. Words(a \o LStrip(t)) = Words(LStrip(t))
      BY <1>1, <2>1, BlankIsSilent, SilentAround
    <2> QED
      BY <2>1, <2>2, Zenon
  <1>3. Words(Strip(t)) = Words(t)
    <2>1. PICK a, b : Blank(a) /\ Blank(b) /\ t = (a \o Strip(t)) \o b
      BY StripLeaves
    <2>2. a \o Strip(t) \in Seq(Piece) /\ Words(a \o Strip(t)) = Words(Strip(t))
      BY <1>1, <2>1, BlankIsSilent, SilentAround
    <2>3. Words((a \o Strip(t)) \o b) = Words(a \o Strip(t))
      BY <2>1, <2>2, BlankIsSilent, SilentAround
    <2> QED
      BY <2>1, <2>2, <2>3, Zenon
  <1> QED
    BY <1>1, <1>2, <1>3

LEMMA MarkCuts ==
    ASSUME NEW t \in Seq(Piece), Marks(t) # {}
    PROVE  /\ Min(Marks(t)) \in Marks(t) /\ \A i \in Marks(t) : Min(Marks(t)) <= i
           /\ Min(Marks(t)) \in 1 .. Len(t) - 1
           /\ Before(t) \in Seq(Piece) /\ Len(Before(t)) = Min(Marks(t)) - 1
           /\ SubSeq(t, Min(Marks(t)), Len(t)) \in Seq(Piece)
           /\ t = Before(t) \o SubSeq(t, Min(Marks(t)), Len(t))
  <1>1. Marks(t) \in SUBSET Nat /\ Marks(t) \in SUBSET 1 .. Len(t) - 1
    BY DEF Marks
  <1>2. Min(Marks(t)) \in Marks(t) /\ \A i \in Marks(t) : Min(Marks(t)) <= i
    BY <1>1, MinIsLeast
  <1>3. PICK m \in 1 .. Len(t) - 1 : m = Min(Marks(t))
    BY <1>1, <1>2, Zenon
  <1>4. m - 1 \in 0 .. Len(t) /\ m - 1 + 1 = m
    OBVIOUS
  <1>5. /\ SubSeq(t, 1, m - 1) \in Seq(Piece) /\ Len(SubSeq(t, 1, m - 1)) = m - 1
        /\ SubSeq(t, m - 1 + 1, Len(t)) \in Seq(Piece)
        /\ t = SubSeq(t, 1, m - 1) \o SubSeq(t, m - 1 + 1, Len(t))
    BY <1>4, CutAt, ZenonT(40)
  <1> QED
    BY <1>2, <1>3, <1>4, <1>5 DEF Before

\* The transition marker is no word.
LEMMA MarkKeepsWords ==
    ASSUME NEW t \in Seq(Piece), Marks(t) # {}
    PROVE  /\ Before(t) \in Seq(Piece) /\ After(t) \in Seq(Piece)
           /\ Words(t) = Words(Before(t)) \o Words(After(t))
  <1>1. PICK u \in Seq(Piece) : u = SubSeq(t, Min(Marks(t)), Len(t)) /\ t = Before(t) \o u
    BY MarkCuts
  <1>2. Before(t) \in Seq(Piece)
    BY MarkCuts
  <1>3. After(t) \in Seq(Piece) /\ Words(After(t)) = Words(u)
    BY <1>1, StripKeepsWords DEF After
  <1>4. Words(Before(t) \o u) = Words(Before(t)) \o Words(u)
    BY <1>2, WordsConcat
  <1> QED
    BY <1>1, <1>2, <1>3, <1>4

LEMMA PrefixCuts ==
    ASSUME NEW t \in Seq(Piece), HasPrefix(t)
    PROVE  /\ t # <<>> /\ t[1] = "prefix" /\ Tail(t) \in Seq(Piece)
           /\ t = <<"prefix">> \o Tail(t)
  <1>1. 1 <= Len(t) /\ SubSeq(<<"prefix">>, 1, 1) = SubSeq(t, 1, 1)
    BY DEF HasPrefix, IsPrefix
  <1>2. t # <<>> /\ t[1] = "prefix"
    BY <1>1
  <1>3. Tail(t) \in Seq(Piece)
    BY <1>2
  <1>4. t = <<"prefix">> \o Tail(t)
    BY <1>2
  <1> QED
    BY <1>2, <1>3, <1>4

LEMMA PrefixKeepsWords ==
    ASSUME NEW t \in Seq(Piece), HasPrefix(t)
    PROVE  AfterPrefix(t) \in Seq(Piece) /\ Words(AfterPrefix(t)) = Words(t)
  <1>1. Tail(t) \in Seq(Piece) /\ t = <<"prefix">> \o Tail(t)
    BY PrefixCuts
  <1>2. Silent(<<"prefix">>)
    BY DEF Silent, Piece
  <1>3. Words(<<"prefix">> \o Tail(t)) = Words(Tail(t))
    BY <1>1, <1>2, SilentAround
  <1>4. Words(Tail(t)) = Words(t)
    BY <1>1, <1>3, Zenon
  <1> QED
    BY <1>1, <1>4, StripKeepsWords DEF AfterPrefix

-----------------------------------------------------------------------------
(* Choices                                                                 *)

\* What a client reads of a choice.
Text(c) == c.reasoning \o IF c.content = None THEN <<>> ELSE c.content

textOf == [c \in Choice |-> Text(c)]

TextOf(out) == FlatMap(textOf, out)

\* A choice of a stream is reasoning or content; one that vLLM's parser has
\* found a call in is neither, and the proxy has recovered none in it.
Delta(c) ==
    /\ c \in Choice
    /\ c.content = None \/ c.reasoning = <<>>
    /\ c.parsed => c.content = None /\ c.reasoning = <<>> /\ c.recovered = 0

\* One that no call was recovered in.
Plain(c) == Delta(c) /\ c.recovered = 0

LEMMA TextType ==
    ASSUME NEW c \in Choice
    PROVE  /\ c.reasoning \in Seq(Piece) /\ c.content \in Seq(Piece) \cup {None}
           /\ Text(c) \in Seq(Piece)
           /\ c.content = None => Text(c) = c.reasoning
           /\ c.content # None /\ c.reasoning = <<>> => Text(c) = c.content
  <1>1. c.reasoning \in Seq(Piece) /\ c.content \in Seq(Piece) \cup {None}
    BY DEF Choice
  <1>2. c.content = None => Text(c) = c.reasoning
    BY <1>1, ConcatEmptySeq DEF Text
  <1>3. c.content # None /\ c.reasoning = <<>> => Text(c) = c.content
    BY <1>1, ConcatEmptySeq DEF Text
  <1>4. Text(c) \in Seq(Piece)
    BY <1>1, ConcatProperties, EmptySeq DEF Text
  <1> QED
    BY <1>1, <1>2, <1>3, <1>4

LEMMA TextOfType == textOf \in Each(Choice, Seq(Piece))
  BY TextType DEF textOf, Each

\* What a stage forwards is read as the texts of its choices, one after another.
LEMMA TextOfOut ==
    /\ TextOf(<<>>) = <<>>
    /\ \A x \in Choice : TextOf(<<x>>) = Text(x)
    /\ \A s, t \in Seq(Choice) : /\ s \o t \in Seq(Choice)
                                 /\ TextOf(s \o t) = TextOf(s) \o TextOf(t)
    /\ \A t \in Seq(Choice) : TextOf(t) \in Seq(Piece)
    /\ \A x, y \in Choice : TextOf(<<x, y>>) = Text(x) \o Text(y)
  <1>1. TextOf(<<>>) = <<>>
    BY FlatMapEmpty DEF TextOf
  <1>2. ASSUME NEW x \in Choice PROVE TextOf(<<x>>) = Text(x)
    <2>1. FlatMap(textOf, <<x>>) = textOf[x]
      BY TextOfType, FlatMapOne
    <2> QED
      BY <2>1 DEF TextOf, textOf
  <1>3. ASSUME NEW s \in Seq(Choice), NEW t \in Seq(Choice)
        PROVE  s \o t \in Seq(Choice) /\ TextOf(s \o t) = TextOf(s) \o TextOf(t)
    <2>1. s \o t \in Seq(Choice)
      OBVIOUS
    <2> QED
      BY <2>1, TextOfType, FlatMapConcat DEF TextOf
  <1>4. ASSUME NEW t \in Seq(Choice) PROVE TextOf(t) \in Seq(Piece)
    BY TextOfType, FlatMapType DEF TextOf
  <1>5. ASSUME NEW x \in Choice, NEW y \in Choice
        PROVE  TextOf(<<x, y>>) = Text(x) \o Text(y)
    <2>1. <<x>> \in Seq(Choice) /\ <<y>> \in Seq(Choice)
      OBVIOUS
    <2>2. <<x, y>> = <<x>> \o <<y>>
      BY Pair
    <2>3. TextOf(<<x>> \o <<y>>) = TextOf(<<x>>) \o TextOf(<<y>>)
      BY <1>3, <2>1
    <2> QED
      BY <1>2, <2>2, <2>3
  <1> QED
    BY <1>1, <1>2, <1>3, <1>4, <1>5

LEMMA EmptyChoice ==
    ASSUME NEW f \in Finish
    PROVE  /\ Plain(Empty(f)) /\ Empty(f).content = None /\ Text(Empty(f)) = <<>>
           /\ Empty(f).finish = f /\ ~Empty(f).parsed /\ Empty(f).reasoning = <<>>
  <1>1. <<>> \in Seq(Piece)
    OBVIOUS
  <1>2. Empty(f) \in Choice
    BY <1>1 DEF Empty, Choice
  <1>3. /\ Empty(f).content = None /\ Empty(f).reasoning = <<>> /\ Empty(f).finish = f
        /\ ~Empty(f).parsed /\ Empty(f).recovered = 0
    BY DEF Empty
  <1> QED
    BY <1>2, <1>3, TextType DEF Plain, Delta

LEMMA ContentChoice ==
    ASSUME NEW t \in Seq(Piece), NEW f \in Finish
    PROVE  /\ Plain(Content(t, f)) /\ Content(t, f).content = t /\ Text(Content(t, f)) = t
           /\ Content(t, f).finish = f /\ ~Content(t, f).parsed /\ Content(t, f).reasoning = <<>>
           /\ t # None
  <1>1. <<>> \in Seq(Piece)
    OBVIOUS
  <1>2. Content(t, f) \in Choice
    BY <1>1 DEF Content, Empty, Choice
  <1>3. /\ Content(t, f).content = t /\ Content(t, f).reasoning = <<>> /\ Content(t, f).finish = f
        /\ ~Content(t, f).parsed /\ Content(t, f).recovered = 0
    BY DEF Content, Empty
  <1>4. t # None
    BY RewriterAssumption DEF RewriterAssumption
  <1> QED
    BY <1>2, <1>3, <1>4, TextType DEF Plain, Delta

LEMMA ReasoningChoice ==
    ASSUME NEW t \in Seq(Piece), NEW f \in Finish
    PROVE  /\ Plain(Reasoning(t, f)) /\ Reasoning(t, f).content = None /\ Text(Reasoning(t, f)) = t
           /\ Reasoning(t, f).finish = f /\ ~Reasoning(t, f).parsed /\ Reasoning(t, f).reasoning = t
  <1>1. Reasoning(t, f) \in Choice
    BY DEF Reasoning, Empty, Choice
  <1>2. /\ Reasoning(t, f).content = None /\ Reasoning(t, f).reasoning = t /\ Reasoning(t, f).finish = f
        /\ ~Reasoning(t, f).parsed /\ Reasoning(t, f).recovered = 0
    BY DEF Reasoning, Empty
  <1> QED
    BY <1>1, <1>2, TextType DEF Plain, Delta

-----------------------------------------------------------------------------
(* stream_rewriter: what one chunk does to it                              *)

SplitStates == [buffer : Seq(Piece), decided : BOOLEAN, in_reasoning : BOOLEAN]

\* It buffers until it has decided, and less than the threshold.
SplitOK(s) ==
    /\ s \in SplitStates
    /\ s.decided => s.buffer = <<>>
    /\ ~s.decided => ~s.in_reasoning
    /\ Len(s.buffer) < Threshold

\* No content has been forwarded yet.
Shut(s) == ~s.decided \/ s.in_reasoning

\* What a chunk may make stream_rewriter forward: at most two choices, of which
\* the first ends the reasoning.
Parts(out) ==
    \/ out = <<>>
    \/ \E x : Plain(x) /\ out = <<x>>
    \/ \E x, y : /\ Plain(x) /\ Plain(y) /\ out = <<x, y>>
                 /\ x.content = None /\ x.reasoning # <<>> /\ x.finish = "none" /\ ~x.parsed

\* Two texts, of which an empty one is not forwarded.
LEMMA ReasoningThenContent ==
    ASSUME NEW a \in Seq(Piece), NEW b \in Seq(Piece), NEW f \in Finish
    PROVE  LET out == Unless(a = <<>>, Reasoning(a, "none")) \o Unless(b = <<>>, Content(b, f))
           IN  /\ Parts(out) /\ out \in Seq(Choice)
               /\ Words(TextOf(out)) = Words(a) \o Words(b)
  <1> DEFINE x == Reasoning(a, "none")
             y == Content(b, f)
  <1>1. /\ Plain(x) /\ x.content = None /\ Text(x) = a /\ x.finish = "none" /\ ~x.parsed
        /\ x.reasoning = a
    BY ReasoningChoice DEF Finish
  <1>2. Plain(y) /\ Text(y) = b
    BY ContentChoice
  <1>3. x \in Choice /\ y \in Choice
    BY <1>1, <1>2 DEF Plain, Delta
  <1>4. Words(a) \in Seq(Piece) /\ Words(b) \in Seq(Piece) /\ Words(<<>>) = <<>>
    BY WordsType, WordsEmpty
  <1> DEFINE first == Unless(a = <<>>, x)
             second == Unless(b = <<>>, y)
  <1>5. /\ first = IF a = <<>> THEN <<>> ELSE <<x>>
        /\ second = IF b = <<>> THEN <<>> ELSE <<y>>
    BY DEF Unless
  <1> HIDE DEF first, second, x, y
  <1>6. <<>> \in Seq(Choice) /\ <<x>> \in Seq(Choice) /\ <<y>> \in Seq(Choice)
    BY <1>3
  <1>7. first \in Seq(Choice) /\ second \in Seq(Choice)
    BY <1>5, <1>6
  <1>8. TextOf(first) = a /\ TextOf(second) = b
    BY <1>1, <1>2, <1>3, <1>5, TextOfOut
  <1>9. first \o second \in Seq(Choice) /\ Words(TextOf(first \o second)) = Words(a) \o Words(b)
    <2>1. /\ first \o second \in Seq(Choice)
          /\ TextOf(first \o second) = TextOf(first) \o TextOf(second)
      BY <1>7, TextOfOut
    <2> QED
      BY <1>8, <2>1, WordsConcat
  <1>10. Parts(first \o second)
    <2>1. CASE a = <<>> /\ b = <<>>
      BY <1>5, <2>1 DEF Parts
    <2>2. CASE a = <<>> /\ b # <<>>
      <3>1. first \o second = <<y>>
        BY <1>5, <2>2
      <3> QED
        BY <1>2, <3>1 DEF Parts
    <2>3. CASE a # <<>> /\ b = <<>>
      <3>1. first \o second = <<x>>
        BY <1>5, <2>3
      <3> QED
        BY <1>1, <3>1 DEF Parts
    <2>4. CASE a # <<>> /\ b # <<>>
      <3>1. first \o second = <<x, y>>
        BY <1>3, <1>5, <2>4, Pair
      <3> QED
        BY <1>1, <1>2, <2>4, <3>1 DEF Parts
    <2> QED
      BY <2>1, <2>2, <2>3, <2>4
  <1> QED
    BY <1>9, <1>10 DEF first, second, x, y

LEMMA OnePart ==
    ASSUME NEW x, Plain(x)
    PROVE  Parts(<<x>>) /\ <<x>> \in Seq(Choice) /\ TextOf(<<x>>) = Text(x) /\ Text(x) \in Seq(Piece)
  <1>1. x \in Choice
    BY DEF Plain, Delta
  <1> QED
    BY <1>1, TextOfOut, TextType DEF Parts

\* Nothing forwarded, nothing held after it.
LEMMA NoParts == Parts(<<>>) /\ <<>> \in Seq(Choice) /\ TextOf(<<>>) = <<>>
  BY TextOfOut DEF Parts

\* Nothing of what is forwarded is content.
Closed(out) == \A i \in DOMAIN out : out[i].content = None

LEMMA ClosedOne == \A x : x.content = None => Closed(<<x>>)
  BY DEF Closed

\* What stream_rewriter makes of the buffered start of an answer.
LEMMA DecideSound ==
    ASSUME NEW s \in SplitStates, ~s.in_reasoning, NEW f \in Finish
    PROVE  LET r == Decide(s, s.buffer, f)
           IN  /\ SplitOK(r.state) /\ r.state.decided /\ r.state.buffer = <<>>
               /\ Parts(r.out) /\ r.out \in Seq(Choice)
               /\ Words(TextOf(r.out)) = Words(s.buffer)
               /\ Shut(r.state) => Closed(r.out)
  <1> DEFINE b == s.buffer
             r == Decide(s, s.buffer, f)
             body == AfterPrefix(b)
             decided == [Emptied(s) EXCEPT !.decided = TRUE]
             reasoning == [decided EXCEPT !.in_reasoning = TRUE]
  <1>1. b \in Seq(Piece)
    BY DEF SplitStates
  <1>2. <<>> \in Seq(Piece) /\ Len(<<>>) = 0 /\ 0 < Threshold
    BY RewriterAssumption DEF RewriterAssumption
  <1>3. /\ decided \in SplitStates /\ decided.buffer = <<>>
        /\ decided.decided /\ decided.in_reasoning = s.in_reasoning
        /\ reasoning \in SplitStates /\ reasoning.buffer = <<>>
        /\ reasoning.decided /\ reasoning.in_reasoning
    BY <1>2 DEF Emptied, SplitStates
  <1>7. SplitOK(decided) /\ SplitOK(reasoning) /\ ~Shut(decided)
    BY <1>2, <1>3 DEF SplitOK, Shut
  <1> HIDE DEF b, r, body, decided, reasoning
  <1>4. CASE ~HasPrefix(b)
    <2>1. r = Forwards(decided, <<Content(b, f)>>)
      BY <1>4 DEF Decide, r, b, decided
    <2>2. Plain(Content(b, f)) /\ Text(Content(b, f)) = b
      BY <1>1, ContentChoice
    <2>3. r.state = decided /\ r.out = <<Content(b, f)>>
      BY <2>1 DEF Forwards
    <2> QED
      BY <1>3, <1>7, <2>2, <2>3, OnePart DEF r, b
  <1>5. CASE HasPrefix(b) /\ Marks(body) = {}
    <2>1. r = Forwards(reasoning, Unless(body = <<>>, Reasoning(body, "none")))
      BY <1>5 DEF Decide, r, b, body, decided, reasoning
    <2>2. body \in Seq(Piece) /\ Words(body) = Words(b)
      BY <1>1, <1>5, PrefixKeepsWords DEF body
    <2>3. /\ Plain(Reasoning(body, "none")) /\ Text(Reasoning(body, "none")) = body
          /\ Reasoning(body, "none").content = None
      BY <2>2, ReasoningChoice DEF Finish
    <2>4. r.state = reasoning /\ r.out = IF body = <<>> THEN <<>> ELSE <<Reasoning(body, "none")>>
      BY <2>1 DEF Forwards, Unless
    <2>5. /\ Parts(r.out) /\ r.out \in Seq(Choice) /\ TextOf(r.out) = body /\ Closed(r.out)
      <3>1. CASE body = <<>>
        BY <2>4, <3>1, NoParts DEF Closed
      <3>2. CASE body # <<>>
        BY <2>3, <2>4, <3>2, OnePart, ClosedOne
      <3> QED
        BY <3>1, <3>2
    <2> QED
      BY <1>3, <1>7, <2>2, <2>4, <2>5 DEF r, b
  <1>6. CASE HasPrefix(b) /\ Marks(body) # {}
    <2> DEFINE x == Strip(Before(body))
               y == After(body)
    <2>1. r = Forwards(decided, Unless(x = <<>>, Reasoning(x, "none")) \o Unless(y = <<>>, Content(y, f)))
      BY <1>6 DEF Decide, r, b, body, decided
    <2>2. body \in Seq(Piece) /\ Words(body) = Words(b)
      BY <1>1, <1>6, PrefixKeepsWords DEF body
    <2>3. x \in Seq(Piece) /\ y \in Seq(Piece) /\ Words(x) \o Words(y) = Words(body)
      BY <1>6, <2>2, MarkKeepsWords, StripKeepsWords
    <2>4. /\ r.state = decided
          /\ r.out = Unless(x = <<>>, Reasoning(x, "none")) \o Unless(y = <<>>, Content(y, f))
      BY <2>1 DEF Forwards
    <2> HIDE DEF x, y
    <2>5. Parts(r.out) /\ r.out \in Seq(Choice) /\ Words(TextOf(r.out)) = Words(x) \o Words(y)
      BY <2>3, <2>4, ReasoningThenContent, ZenonT(40)
    <2> QED
      BY <1>3, <1>7, <2>2, <2>3, <2>4, <2>5 DEF r, b
  <1> QED
    BY <1>4, <1>5, <1>6

\* A delta that comes after the decision.
LEMMA RouteSound ==
    ASSUME NEW s, SplitOK(s), s.decided, NEW t \in Seq(Piece), NEW f \in Finish
    PROVE  LET r == Route(s, t, f)
           IN  /\ SplitOK(r.state) /\ r.state.decided /\ r.state.buffer = <<>>
               /\ Parts(r.out) /\ r.out \in Seq(Choice)
               /\ Words(TextOf(r.out)) = Words(t)
               /\ Shut(r.state) => Shut(s) /\ Closed(r.out)
  <1> DEFINE r == Route(s, t, f)
             after == [s EXCEPT !.in_reasoning = FALSE]
  <1>1. s.buffer = <<>> /\ s \in SplitStates
    BY DEF SplitOK
  <1>2. SplitOK(after) /\ after.decided /\ after.buffer = <<>> /\ ~after.in_reasoning
    BY <1>1, RewriterAssumption DEF SplitOK, SplitStates, RewriterAssumption
  <1> HIDE DEF r, after
  <1>3. CASE ~s.in_reasoning
    <2>1. r.state = s /\ r.out = <<Content(t, f)>>
      BY <1>3 DEF Route, Forwards, r
    <2>2. Plain(Content(t, f)) /\ Text(Content(t, f)) = t
      BY ContentChoice
    <2>3. ~Shut(s)
      BY <1>3 DEF Shut
    <2> QED
      BY <1>1, <2>1, <2>2, <2>3, OnePart DEF r
  <1>4. CASE s.in_reasoning /\ Marks(t) = {}
    <2>1. r.state = s /\ r.out = <<Reasoning(t, f)>>
      BY <1>4 DEF Route, Forwards, r
    <2>2. Plain(Reasoning(t, f)) /\ Text(Reasoning(t, f)) = t /\ Reasoning(t, f).content = None
      BY ReasoningChoice
    <2> QED
      BY <1>1, <2>1, <2>2, OnePart, ClosedOne DEF r
  <1>5. CASE s.in_reasoning /\ Marks(t) # {}
    <2> DEFINE x == Before(t)
               y == After(t)
    <2>1. /\ r.state = after
          /\ r.out = Unless(x = <<>>, Reasoning(x, "none")) \o Unless(y = <<>>, Content(y, f))
      BY <1>5 DEF Route, Forwards, r, after
    <2>2. x \in Seq(Piece) /\ y \in Seq(Piece) /\ Words(x) \o Words(y) = Words(t)
      BY <1>5, MarkKeepsWords
    <2> HIDE DEF x, y
    <2>3. Parts(r.out) /\ r.out \in Seq(Choice) /\ Words(TextOf(r.out)) = Words(x) \o Words(y)
      <3>1. x \in Seq(Piece) /\ y \in Seq(Piece)
        BY <2>2
      <3> QED
        BY <2>1, <3>1, ReasoningThenContent, SMTT(30)
    <2>4. ~Shut(after)
      BY <1>2 DEF Shut
    <2> QED
      BY <1>2, <2>1, <2>2, <2>3, <2>4 DEF r
  <1> QED
    BY <1>3, <1>4, <1>5

-----------------------------------------------------------------------------
(* How often a piece is in a text                                          *)

LEMMA CountType ==
    ASSUME NEW t \in Seq(Piece), NEW p
    PROVE  /\ Count(p, t) \in Nat
           /\ IsFiniteSet({i \in DOMAIN t : t[i] = p})
  <1>1. DOMAIN t = 1 .. Len(t) /\ Len(t) \in Nat
    OBVIOUS
  <1>2. IsFiniteSet(1 .. Len(t))
    BY <1>1, FS_Interval
  <1>3. IsFiniteSet({i \in DOMAIN t : t[i] = p})
    BY <1>1, <1>2, FS_Subset
  <1> QED
    BY <1>3, FS_CardinalityType DEF Count

LEMMA CountEmpty == \A p : Count(p, <<>>) = 0
  <1>1. \A p : {i \in DOMAIN <<>> : <<>>[i] = p} = {}
    OBVIOUS
  <1> QED
    BY <1>1, FS_EmptySet DEF Count

LEMMA CountAppend ==
    ASSUME NEW t \in Seq(Piece), NEW x \in Piece, NEW p
    PROVE  Count(p, Append(t, x)) = Count(p, t) + IF x = p THEN 1 ELSE 0
  <1> DEFINE n == Len(t)
             T == {i \in DOMAIN t : t[i] = p}
             U == {i \in DOMAIN Append(t, x) : Append(t, x)[i] = p}
  <1>0. Count(p, t) = Cardinality(T) /\ Count(p, Append(t, x)) = Cardinality(U)
    BY DEF Count
  <1>1. /\ n \in Nat /\ DOMAIN t = 1 .. n /\ DOMAIN Append(t, x) = 1 .. n + 1
        /\ Append(t, x)[n + 1] = x /\ \A i \in 1 .. n : Append(t, x)[i] = t[i]
    OBVIOUS
  <1>2. IsFiniteSet(T) /\ Cardinality(T) \in Nat
    BY CountType, FS_CardinalityType
  <1>3. CASE x = p
    <2>1. U = T \cup {n + 1}
      BY <1>1, <1>3
    <2>2. n + 1 \notin T
      BY <1>1
    <2>3. Cardinality(U) = Cardinality(T) + 1
      BY <1>2, <2>1, <2>2, FS_AddElement
    <2> QED
      BY <1>0, <1>3, <2>3
  <1>4. CASE x # p
    <2>1. U = T
      BY <1>1, <1>4
    <2> HIDE DEF T, U
    <2> QED
      BY <1>0, <1>2, <1>4, <2>1
  <1> QED
    BY <1>3, <1>4

\* Texts in a row have as many as both together.
LEMMA CountConcat ==
    ASSUME NEW s \in Seq(Piece), NEW t \in Seq(Piece), NEW p
    PROVE  /\ Count(p, s \o t) = Count(p, s) + Count(p, t)
           /\ Count(p, s) \in Nat /\ Count(p, t) \in Nat /\ s \o t \in Seq(Piece)
  <1> DEFINE part(k) == SubSeq(t, 1, k)
             Good == {k \in 0 .. Len(t) : Count(p, s \o part(k)) = Count(p, s) + Count(p, part(k))}
  <1>1. Len(t) \in Nat /\ Count(p, s) \in Nat /\ Count(p, t) \in Nat /\ s \o t \in Seq(Piece)
    <2>1. Count(p, s) \in Nat /\ Count(p, t) \in Nat
      BY CountType
    <2> QED
      BY <2>1
  <1>2. 0 \in Good
    <2>1. part(0) = <<>> /\ s \o <<>> = s /\ 0 \in 0 .. Len(t)
      BY <1>1
    <2>2. Count(p, s \o part(0)) = Count(p, s) + Count(p, part(0))
      <3>1. Count(p, part(0)) = 0
        BY <2>1, CountEmpty
      <3>2. Count(p, s \o part(0)) = Count(p, s)
        BY <2>1
      <3> QED
        BY <1>1, <3>1, <3>2
    <2> QED
      BY <2>1, <2>2
  <1>3. ASSUME NEW k \in 0 .. Len(t), k < Len(t), k \in Good PROVE k + 1 \in Good
    <2>1. k + 1 \in 0 .. Len(t) /\ k + 1 \in 1 .. Len(t) /\ t[k + 1] \in Piece
      BY <1>1, <1>3
    <2>2. PICK u \in Seq(Piece) : u = part(k)
      <3>1. part(k) \in Seq(Piece)
        BY CutAt
      <3> QED
        BY <3>1, Zenon
    <2>3. PICK x \in Piece : x = t[k + 1]
      BY <2>1, Zenon
    <2>4. part(k + 1) = Append(u, x)
      BY <1>1, <2>1, <2>2, <2>3
    <2>5. s \o Append(u, x) = Append(s \o u, x) /\ s \o u \in Seq(Piece)
      BY ConcatAppend
    <2>6. Count(p, Append(s \o u, x)) = Count(p, s \o u) + IF x = p THEN 1 ELSE 0
      BY <2>5, CountAppend
    <2>7. Count(p, Append(u, x)) = Count(p, u) + IF x = p THEN 1 ELSE 0
      BY CountAppend
    <2>8. Count(p, s \o u) = Count(p, s) + Count(p, u)
      BY <1>3, <2>2
    <2>9. Count(p, u) \in Nat
      BY CountType
    <2>10. Count(p, s \o Append(u, x)) = Count(p, s) + Count(p, Append(u, x))
      BY <1>1, <2>5, <2>6, <2>7, <2>8, <2>9
    <2> QED
      BY <2>1, <2>4, <2>10
  <1> HIDE DEF Good
  <1>4. Len(t) \in Good
    BY <1>1, <1>2, <1>3, Induction
  <1>5. part(Len(t)) = t
    BY <1>1
  <1> QED
    BY <1>1, <1>4, <1>5 DEF Good

\* The words of a text are in it as often as in the text itself.
LEMMA CountWords ==
    ASSUME NEW t \in Seq(Piece), NEW p \in Piece \ {"prefix", "nl"}
    PROVE  Count(p, Words(t)) = Count(p, t)
  <1> DEFINE part(k) == SubSeq(t, 1, k)
             Good == {k \in 0 .. Len(t) : Count(p, Words(part(k))) = Count(p, part(k))}
  <1>1. Len(t) \in Nat
    OBVIOUS
  <1>2. 0 \in Good
    <2>1. part(0) = <<>> /\ 0 \in 0 .. Len(t)
      BY <1>1
    <2> QED
      BY <2>1, WordsEmpty
  <1>3. ASSUME NEW k \in 0 .. Len(t), k < Len(t), k \in Good PROVE k + 1 \in Good
    <2>1. k + 1 \in 0 .. Len(t) /\ k + 1 \in 1 .. Len(t) /\ t[k + 1] \in Piece
      BY <1>1, <1>3
    <2>2. PICK u \in Seq(Piece) : u = part(k)
      <3>1. part(k) \in Seq(Piece)
        BY CutAt
      <3> QED
        BY <3>1, Zenon
    <2>3. PICK x \in Piece : x = t[k + 1]
      BY <2>1, Zenon
    <2>4. part(k + 1) = Append(u, x)
      BY <1>1, <2>1, <2>2, <2>3
    <2>5. Append(u, x) = u \o <<x>> /\ <<x>> \in Seq(Piece)
      OBVIOUS
    <2>6. Words(u \o <<x>>) = Words(u) \o Words(<<x>>) /\ Words(u) \in Seq(Piece)
      BY <2>5, WordsConcat
    <2>7. Count(p, Words(u)) = Count(p, u) /\ Count(p, Words(u)) \in Nat
      <3>1. Count(p, Words(u)) = Count(p, u)
        BY <1>3, <2>2
      <3> QED
        BY <2>6, <3>1, CountType
    <2>8. CASE x \in {"prefix", "nl"}
      <3>1. Words(<<x>>) = <<>> /\ Words(u) \o <<>> = Words(u) /\ x # p
        BY <2>6, <2>8, WordsOne, ConcatEmptySeq
      <3>2. Count(p, Append(u, x)) = Count(p, u)
        BY <2>7, <3>1, CountAppend
      <3> QED
        BY <2>1, <2>4, <2>5, <2>6, <2>7, <3>1, <3>2
    <2>9. CASE x \notin {"prefix", "nl"}
      <3>1. Words(<<x>>) = <<x>> /\ Words(u) \o <<x>> = Append(Words(u), x)
        BY <2>6, <2>9, WordsOne
      <3>2. /\ Count(p, Append(u, x)) = Count(p, u) + IF x = p THEN 1 ELSE 0
            /\ Count(p, Append(Words(u), x)) = Count(p, Words(u)) + IF x = p THEN 1 ELSE 0
        BY <2>6, CountAppend
      <3> QED
        BY <2>1, <2>4, <2>5, <2>6, <2>7, <3>1, <3>2
    <2> QED
      BY <2>8, <2>9
  <1> HIDE DEF Good
  <1>4. Len(t) \in Good
    BY <1>1, <1>2, <1>3, Induction
  <1>5. part(Len(t)) = t
    BY <1>1
  <1> QED
    BY <1>4, <1>5 DEF Good

\* A text without the pieces at the places M has the rest as often as before.
LEMMA CountWithout ==
    ASSUME NEW t \in Seq(Piece), NEW M, NEW p \in Piece
    PROVE  LET rest == FlattenSeq([i \in DOMAIN t |-> IF i \in M THEN <<>> ELSE <<t[i]>>])
           IN  /\ rest \in Seq(Piece)
               /\ Count(p, rest) = Cardinality({i \in DOMAIN t : t[i] = p /\ i \notin M})
  <1> DEFINE left(k) == [i \in 1 .. k |-> IF i \in M THEN <<>> ELSE <<t[i]>>]
             places(k) == {i \in 1 .. k : t[i] = p /\ i \notin M}
             Good == {k \in 0 .. Len(t) : Count(p, FlattenSeq(left(k))) = Cardinality(places(k))}
  <1>1. Len(t) \in Nat /\ DOMAIN t = 1 .. Len(t)
    OBVIOUS
  <1>2. ASSUME NEW k \in 0 .. Len(t) PROVE left(k) \in Seq(Seq(Piece))
    <2>1. \A i \in 1 .. k : t[i] \in Piece
      BY <1>1
    <2>2. \A i \in 1 .. k : (IF i \in M THEN <<>> ELSE <<t[i]>>) \in Seq(Piece)
      BY <2>1
    <2> QED
      BY <1>1, <2>2
  <1>3. 0 \in Good
    <2>1. left(0) = <<>> /\ places(0) = {} /\ 0 \in 0 .. Len(t)
      BY <1>1
    <2>2. Count(p, FlattenSeq(left(0))) = 0
      BY <2>1, FlattenEmpty, CountEmpty
    <2>3. Cardinality(places(0)) = 0
      BY <2>1, FS_EmptySet
    <2> QED
      BY <2>1, <2>2, <2>3
  <1>4. ASSUME NEW k \in 0 .. Len(t), k < Len(t), k \in Good PROVE k + 1 \in Good
    <2>1. k + 1 \in 0 .. Len(t) /\ k + 1 \in 1 .. Len(t) /\ t[k + 1] \in Piece
      BY <1>1, <1>4
    <2>2. PICK x \in Seq(Piece) : x = IF k + 1 \in M THEN <<>> ELSE <<t[k + 1]>>
      <3>1. (IF k + 1 \in M THEN <<>> ELSE <<t[k + 1]>>) \in Seq(Piece)
        BY <2>1
      <3> QED
        BY <3>1, Zenon
    <2>3. PICK q \in Seq(Seq(Piece)) : q = left(k)
      BY <1>2, Zenon
    <2>4. left(k + 1) = Append(q, x)
      BY <2>1, <2>2, <2>3
    <2>5. FlattenSeq(left(k + 1)) = FlattenSeq(q) \o x /\ FlattenSeq(q) \in Seq(Piece)
      BY <2>4, FlattenAppend, FlattenType
    <2>6. Count(p, FlattenSeq(left(k + 1))) = Count(p, FlattenSeq(q)) + Count(p, x)
      <3>1. PICK u \in Seq(Piece) : u = FlattenSeq(q)
        BY <2>5, Zenon
      <3>2. Count(p, u \o x) = Count(p, u) + Count(p, x)
        BY CountConcat
      <3> QED
        BY <2>5, <3>1, <3>2
    <2>7. Count(p, FlattenSeq(q)) = Cardinality(places(k)) /\ Count(p, FlattenSeq(q)) \in Nat
      <3>1. Count(p, FlattenSeq(q)) = Cardinality(places(k))
        BY <1>4, <2>3
      <3> QED
        BY <2>5, <3>1, CountType
    <2>8. IsFiniteSet(places(k)) /\ k + 1 \notin places(k)
      <3>1. IsFiniteSet(1 .. k) /\ places(k) \in SUBSET (1 .. k)
        BY FS_Interval
      <3>2. IsFiniteSet(places(k))
        BY <3>1, FS_Subset
      <3> QED
        BY <3>2
    <2>9. CASE k + 1 \notin M /\ t[k + 1] = p
      <3>1. places(k + 1) = places(k) \cup {k + 1}
        BY <2>1, <2>9
      <3>2. Cardinality(places(k + 1)) = Cardinality(places(k)) + 1
        BY <2>8, <3>1, FS_AddElement
      <3>3. Count(p, x) = 1
        <4>1. x = Append(<<>>, p) /\ <<>> \in Seq(Piece)
          BY <2>2, <2>9
        <4>2. Count(p, Append(<<>>, p)) = Count(p, <<>>) + 1
          BY <4>1, CountAppend
        <4> QED
          BY <4>1, <4>2, CountEmpty
      <3> QED
        BY <2>1, <2>6, <2>7, <3>2, <3>3
    <2>10. CASE k + 1 \in M \/ t[k + 1] # p
      <3>1. places(k + 1) = places(k)
        BY <2>1, <2>10
      <3>2. Count(p, x) = 0
        <4>1. CASE k + 1 \in M
          BY <2>2, <4>1, CountEmpty
        <4>2. CASE k + 1 \notin M
          <5>1. x = Append(<<>>, t[k + 1]) /\ <<>> \in Seq(Piece) /\ t[k + 1] # p
            BY <2>2, <2>10, <4>2
          <5>2. Count(p, Append(<<>>, t[k + 1])) = Count(p, <<>>) + 0
            BY <2>1, <5>1, CountAppend
          <5> QED
            BY <5>1, <5>2, CountEmpty
        <4> QED
          BY <4>1, <4>2
      <3>3. Count(p, FlattenSeq(left(k + 1))) = Cardinality(places(k + 1))
        <4> HIDE DEF left, places
        <4> QED
          BY <2>6, <2>7, <3>1, <3>2
      <3> QED
        BY <2>1, <3>3
    <2> QED
      BY <2>9, <2>10
  <1> HIDE DEF Good
  <1>5. Len(t) \in Good
    BY <1>1, <1>3, <1>4, Induction
  <1>6. FlattenSeq(left(Len(t))) \in Seq(Piece)
    <2>1. Len(t) \in 0 .. Len(t)
      BY <1>1
    <2>2. left(Len(t)) \in Seq(Seq(Piece))
      BY <1>2, <2>1
    <2> HIDE DEF left
    <2> QED
      BY <2>2, FlattenType
  <1>7. Count(p, FlattenSeq(left(Len(t)))) = Cardinality(places(Len(t)))
    BY <1>5 DEF Good
  <1> QED
    BY <1>1, <1>6, <1>7

-----------------------------------------------------------------------------
(* Calls recovered from a whole text                                       *)

\* What an opening marker is made of.
Marker == {"hermes", "coder", "tag1", "tag2", "bracket"}

LEMMA OpenersAre ==
    /\ DOMAIN Openers = 1 .. 4
    /\ \A k \in 1 .. 4 : Openers[k] \in Seq(Marker) /\ Len(Openers[k]) \in 1 .. 2
  <1>1. /\ Openers[1] = <<"hermes">> /\ Openers[2] = <<"coder">>
        /\ Openers[3] = <<"tag1", "tag2">> /\ Openers[4] = <<"bracket">>
        /\ DOMAIN Openers = 1 .. 4
    BY DEF Openers
  <1>2. /\ <<"hermes">> \in Seq(Marker) /\ <<"coder">> \in Seq(Marker)
        /\ <<"tag1", "tag2">> \in Seq(Marker) /\ <<"bracket">> \in Seq(Marker)
    BY DEF Marker
  <1>3. /\ Len(<<"hermes">>) = 1 /\ Len(<<"coder">>) = 1
        /\ Len(<<"tag1", "tag2">>) = 2 /\ Len(<<"bracket">>) = 1
    OBVIOUS
  <1>4. ASSUME NEW k \in 1 .. 4 PROVE Openers[k] \in Seq(Marker) /\ Len(Openers[k]) \in 1 .. 2
    <2>1. k = 1 \/ k = 2 \/ k = 3 \/ k = 4
      OBVIOUS
    <2>2. 1 \in 1 .. 2 /\ 2 \in 1 .. 2
      OBVIOUS
    <2> QED
      BY <1>1, <1>2, <1>3, <2>1, <2>2, Zenon
  <1> QED
    BY <1>1, <1>4

\* A block is its opening marker and the closing piece.
LEMMA MatchPieces ==
    ASSUME NEW t \in Seq(Piece), NEW opener \in Seq(Marker), Len(opener) \in 1 .. 2,
           NEW i \in Matches(opener, t), NEW j \in i - Len(opener) .. i
    PROVE  /\ i \in 1 .. Len(t) /\ j \in 1 .. Len(t)
           /\ t[i] \in {"call", "void"}
           /\ j # i => t[j] \in Marker
  <1> DEFINE u == SubSeq(t, 1, i - 1)
             m == Len(opener)
  <1>1. i \in 1 .. Len(t) /\ t[i] \in {"call", "void"} /\ IsSuffix(opener, u)
    BY DEF Matches
  <1>2. Len(t) \in Nat /\ i - 1 \in 0 .. Len(t) /\ m \in 1 .. 2
    BY <1>1
  <1>3. u \in Seq(Piece) /\ Len(u) = i - 1 /\ \A k \in 1 .. i - 1 : u[k] = t[k]
    BY <1>2, CutAt
  <1>4. m <= i - 1 /\ \A k \in 1 .. m : opener[k] = u[i - 1 - m + k]
    <2>1. PICK v \in Seq(Piece) : v = u
      BY <1>3, Zenon
    <2>2. IsSuffix(opener, v) /\ Len(v) = i - 1
      BY <1>1, <1>3, <2>1
    <2>3. Len(opener) <= Len(v) /\ \A k \in 1 .. Len(opener) : opener[k] = v[Len(v) - Len(opener) + k]
      BY <2>2, SuffixIs
    <2> QED
      BY <2>1, <2>2, <2>3
  <1>5. j \in 1 .. Len(t)
    BY <1>1, <1>2, <1>4
  <1>6. ASSUME j # i PROVE t[j] \in Marker
    <2>1. j \in i - m .. i - 1 /\ j - (i - 1 - m) \in 1 .. m
      BY <1>1, <1>2, <1>4, <1>6
    <2>2. i - 1 - m + (j - (i - 1 - m)) = j
      BY <1>2, <2>1
    <2>3. opener[j - (i - 1 - m)] = u[j]
      BY <1>4, <2>1, <2>2
    <2>4. opener[j - (i - 1 - m)] \in Marker
      BY <2>1
    <2>5. u[j] = t[j]
      BY <1>2, <1>3, <1>4, <2>1
    <2> QED
      BY <2>3, <2>4, <2>5
  <1> QED
    BY <1>1, <1>5, <1>6

\* Taking the blocks out takes exactly their valid calls.
LEMMA StripMatchesCounts ==
    ASSUME NEW t \in Seq(Piece), NEW opener \in Seq(Marker), Len(opener) \in 1 .. 2
    PROVE  /\ StripMatches(opener, t) \in Seq(Piece)
           /\ Count("word", StripMatches(opener, t)) = Count("word", t)
           /\ IsFiniteSet(ValidCalls(opener, t)) /\ Cardinality(ValidCalls(opener, t)) \in Nat
           /\ Count("call", StripMatches(opener, t)) + Cardinality(ValidCalls(opener, t)) = Count("call", t)
  <1> DEFINE matched == UNION {i - Len(opener) .. i : i \in Matches(opener, t)}
             places(p) == {i \in DOMAIN t : t[i] = p}
             valid == ValidCalls(opener, t)
  <1>1. ASSUME NEW p \in Piece
        PROVE  /\ StripMatches(opener, t) \in Seq(Piece)
               /\ Count(p, StripMatches(opener, t)) = Cardinality({i \in DOMAIN t : t[i] = p /\ i \notin matched})
    BY CountWithout DEF StripMatches
  <1>2. "call" \in Piece /\ "word" \in Piece /\ "call" \notin Marker /\ "word" \notin Marker
    BY DEF Piece, Marker
  <1>3. ASSUME NEW j \in matched
        PROVE  t[j] \in Marker \/ (t[j] \in {"call", "void"} /\ j \in Matches(opener, t))
    <2>1. PICK i \in Matches(opener, t) : j \in i - Len(opener) .. i
      BY <1>3
    <2> QED
      BY <2>1, MatchPieces
  <1>4. Count("word", StripMatches(opener, t)) = Count("word", t)
    <2>1. {i \in DOMAIN t : t[i] = "word" /\ i \notin matched} = places("word")
      BY <1>2, <1>3
    <2> QED
      BY <1>1, <1>2, <2>1 DEF Count
  <1>5. {i \in DOMAIN t : t[i] = "call" /\ i \notin matched} = places("call") \ valid
    <2>1. ASSUME NEW i \in valid PROVE i \in matched /\ i \in places("call")
      <3>1. i \in Matches(opener, t) /\ t[i] = "call"
        BY DEF ValidCalls
      <3>2. i \in 1 .. Len(t)
        BY <3>1 DEF Matches
      <3>3. i \in i - Len(opener) .. i
        BY <3>2
      <3> QED
        BY <3>1, <3>2, <3>3
    <2>2. ASSUME NEW i \in matched, i \in places("call") PROVE i \in valid
      BY <1>2, <1>3, <2>2 DEF ValidCalls
    <2> HIDE DEF matched, valid
    <2> QED
      BY <2>1, <2>2
  <1>6. IsFiniteSet(places("call"))
    BY CountType
  <1>7. valid \in SUBSET places("call")
    BY DEF ValidCalls, Matches
  <1>8. IsFiniteSet(valid) /\ Cardinality(valid) \in Nat
    <2>1. IsFiniteSet(valid)
      BY <1>6, <1>7, FS_Subset
    <2> QED
      BY <2>1, FS_CardinalityType
  <1>9. Cardinality(places("call") \ valid) = Cardinality(places("call")) - Cardinality(valid)
    <2>1. places("call") \cap valid = valid
      BY <1>7
    <2> QED
      BY <1>6, <2>1, FS_Difference
  <1>10. Count("call", t) = Cardinality(places("call")) /\ Count("call", t) \in Nat
    BY CountType DEF Count
  <1>11. Count("call", StripMatches(opener, t)) = Cardinality(places("call") \ valid)
    BY <1>1, <1>2, <1>5
  <1> HIDE DEF places, valid, matched
  <1>12. Count("call", StripMatches(opener, t)) + Cardinality(valid) = Count("call", t)
    BY <1>8, <1>9, <1>10, <1>11
  <1> QED
    BY <1>1, <1>2, <1>4, <1>8, <1>12 DEF valid

\* Stripping takes neither words nor calls.
LEMMA CountStrip ==
    ASSUME NEW t \in Seq(Piece), NEW p \in Piece \ {"prefix", "nl"}
    PROVE  Strip(t) \in Seq(Piece) /\ Count(p, Strip(t)) = Count(p, t)
  <1>1. Strip(t) \in Seq(Piece) /\ Words(Strip(t)) = Words(t)
    BY StripKeepsWords
  <1>2. Count(p, Words(t)) = Count(p, t)
    BY CountWords
  <1>3. Count(p, Words(Strip(t))) = Count(p, Strip(t))
    BY <1>1, CountWords
  <1> QED
    BY <1>1, <1>2, <1>3

\* Every call of a text is either recovered or still in it, and no word is lost.
LEMMA RecoverSound ==
    ASSUME NEW t \in Seq(Piece)
    PROVE  LET found == RecoverToolCalls(t)
           IN  /\ found.calls \in Nat /\ found.residual \in Seq(Piece)
               /\ Count("call", found.residual) + found.calls = Count("call", t)
               /\ Count("word", found.residual) = Count("word", t)
               /\ found.calls = 0 => found.residual = t
  <1> DEFINE found == {k \in DOMAIN Openers : ValidCalls(Openers[k], t) # {} /\ Fills(Openers[k], t)}
             opener == Openers[Min(found)]
             r == RecoverToolCalls(t)
  <1>1. Count("call", t) \in Nat
    BY CountType
  <1>2. CASE found = {}
    <2>1. r.calls = 0 /\ r.residual = t
      BY <1>2 DEF RecoverToolCalls, Recovery
    <2> HIDE DEF r, found
    <2> QED
      BY <1>1, <2>1 DEF r
  <1>3. CASE found # {}
    <2>1. found \in SUBSET Nat /\ found \in SUBSET 1 .. 4
      BY OpenersAre
    <2>2. Min(found) \in found
      BY <1>3, <2>1, MinIsLeast
    <2>3. opener \in Seq(Marker) /\ Len(opener) \in 1 .. 2
      BY <2>1, <2>2, OpenersAre
    <2>4. ValidCalls(opener, t) # {}
      BY <2>2
    <2>5. r = Recovery(Cardinality(ValidCalls(opener, t)), Strip(StripMatches(opener, t)))
      BY <1>3 DEF RecoverToolCalls
    <2>6. r.calls = Cardinality(ValidCalls(opener, t)) /\ r.residual = Strip(StripMatches(opener, t))
      BY <2>5 DEF Recovery
    <2> HIDE DEF r, found, opener
    <2>7. /\ StripMatches(opener, t) \in Seq(Piece)
          /\ Count("word", StripMatches(opener, t)) = Count("word", t)
          /\ IsFiniteSet(ValidCalls(opener, t)) /\ Cardinality(ValidCalls(opener, t)) \in Nat
          /\ Count("call", StripMatches(opener, t)) + Cardinality(ValidCalls(opener, t)) = Count("call", t)
      BY <2>3, StripMatchesCounts
    <2>8. Cardinality(ValidCalls(opener, t)) # 0
      BY <2>4, <2>7, FS_EmptySet
    <2>9. "call" \in Piece \ {"prefix", "nl"} /\ "word" \in Piece \ {"prefix", "nl"}
      BY DEF Piece
    <2>10. /\ r.residual \in Seq(Piece)
           /\ Count("call", r.residual) = Count("call", StripMatches(opener, t))
           /\ Count("word", r.residual) = Count("word", StripMatches(opener, t))
      BY <2>6, <2>7, <2>9, CountStrip
    <2> QED
      BY <2>6, <2>7, <2>8, <2>10 DEF r
  <1> QED
    BY <1>2, <1>3

-----------------------------------------------------------------------------
(* What each stage does to a chunk                                         *)

\* Each call recovered in a choice, one after another.
callsOf == [c \in Choice |-> [n \in 1 .. c.recovered |-> "call"]]

CallsIn(out) == Len(FlatMap(callsOf, out))

LEMMA CallsOfType == callsOf \in Each(Choice, Seq(Piece))
  <1>1. ASSUME NEW c \in Choice PROVE [n \in 1 .. c.recovered |-> "call"] \in Seq(Piece)
    <2>1. c.recovered \in Nat /\ "call" \in Piece
      BY DEF Choice, Piece
    <2> QED
      BY <2>1
  <1> QED
    BY <1>1 DEF callsOf, Each

LEMMA CallsInOut ==
    /\ CallsIn(<<>>) = 0
    /\ \A x \in Choice : CallsIn(<<x>>) = x.recovered
    /\ \A s, t \in Seq(Choice) : CallsIn(s \o t) = CallsIn(s) + CallsIn(t)
    /\ \A t \in Seq(Choice) : CallsIn(t) \in Nat
  <1>1. CallsIn(<<>>) = 0
    BY FlatMapEmpty DEF CallsIn
  <1>2. ASSUME NEW x \in Choice PROVE CallsIn(<<x>>) = x.recovered
    <2>1. FlatMap(callsOf, <<x>>) = callsOf[x]
      BY CallsOfType, FlatMapOne
    <2>2. callsOf[x] = [n \in 1 .. x.recovered |-> "call"] /\ x.recovered \in Nat
      BY DEF callsOf, Choice
    <2>3. Len(callsOf[x]) = x.recovered
      BY <2>2
    <2> QED
      BY <2>1, <2>3 DEF CallsIn
  <1>3. ASSUME NEW t \in Seq(Choice) PROVE FlatMap(callsOf, t) \in Seq(Piece) /\ CallsIn(t) \in Nat
    <2>1. FlatMap(callsOf, t) \in Seq(Piece)
      BY CallsOfType, FlatMapType
    <2> QED
      BY <2>1 DEF CallsIn
  <1>4. ASSUME NEW s \in Seq(Choice), NEW t \in Seq(Choice)
        PROVE  CallsIn(s \o t) = CallsIn(s) + CallsIn(t)
    <2>1. FlatMap(callsOf, s \o t) = FlatMap(callsOf, s) \o FlatMap(callsOf, t)
      BY CallsOfType, FlatMapConcat
    <2>2. PICK a \in Seq(Piece), b \in Seq(Piece) : a = FlatMap(callsOf, s) /\ b = FlatMap(callsOf, t)
      BY <1>3, Zenon
    <2>3. Len(a \o b) = Len(a) + Len(b)
      OBVIOUS
    <2> QED
      BY <2>1, <2>2, <2>3 DEF CallsIn
  <1> QED
    BY <1>1, <1>2, <1>3, <1>4

\* How many calls a stage lets pass, recovered or in the text.
Passed(out) == CallsIn(out) + Count("call", TextOf(out))

\* The same of two texts in a row as of their words.
LEMMA SameWords ==
    ASSUME NEW a \in Seq(Piece), NEW b \in Seq(Piece), NEW s \in Seq(Piece), NEW t \in Seq(Piece),
           Words(a \o b) = Words(s \o t)
    PROVE  Count("call", a) + Count("call", b) = Count("call", s) + Count("call", t)
  <1>1. a \o b \in Seq(Piece) /\ s \o t \in Seq(Piece) /\ "call" \in Piece \ {"prefix", "nl"}
    BY DEF Piece
  <1>2. Count("call", a \o b) = Count("call", s \o t)
    <2>1. Count("call", Words(a \o b)) = Count("call", a \o b)
      BY <1>1, CountWords
    <2>2. Count("call", Words(s \o t)) = Count("call", s \o t)
      BY <1>1, CountWords
    <2> QED
      BY <2>1, <2>2
  <1>3. /\ Count("call", a \o b) = Count("call", a) + Count("call", b)
        /\ Count("call", s \o t) = Count("call", s) + Count("call", t)
    BY CountConcat
  <1> QED
    BY <1>2, <1>3

\* The order of two texts does not matter if one of them has no words.
LEMMA Commute ==
    ASSUME NEW s \in Seq(Piece), NEW t \in Seq(Piece),
           Words(s) = <<>> \/ Words(t) = <<>>
    PROVE  Words(s \o t) = Words(t \o s)
  <1>1. /\ Words(s \o t) = Words(s) \o Words(t) /\ Words(t \o s) = Words(t) \o Words(s)
        /\ Words(s) \in Seq(Piece) /\ Words(t) \in Seq(Piece)
    BY WordsConcat
  <1>2. /\ <<>> \o Words(s) = Words(s) /\ Words(s) \o <<>> = Words(s)
        /\ <<>> \o Words(t) = Words(t) /\ Words(t) \o <<>> = Words(t)
    BY <1>1, ConcatEmptySeq
  <1> QED
    BY <1>1, <1>2

LEMMA PlainPasses ==
    ASSUME NEW out, Parts(out)
    PROVE  /\ out \in Seq(Choice) /\ CallsIn(out) = 0
           /\ Passed(out) = Count("call", TextOf(out)) /\ TextOf(out) \in Seq(Piece)
  <1>1. out \in Seq(Choice) /\ CallsIn(out) = 0
    <2>1. CASE out = <<>>
      BY <2>1, CallsInOut
    <2>2. ASSUME NEW x, Plain(x), out = <<x>>
          PROVE  out \in Seq(Choice) /\ CallsIn(out) = 0
      <3>1. x \in Choice /\ x.recovered = 0
        BY <2>2 DEF Plain, Delta
      <3> QED
        BY <2>2, <3>1, CallsInOut, Pair
    <2>3. ASSUME NEW x, NEW y, Plain(x), Plain(y), out = <<x, y>>
          PROVE  out \in Seq(Choice) /\ CallsIn(out) = 0
      <3>1. x \in Choice /\ x.recovered = 0 /\ y \in Choice /\ y.recovered = 0
        BY <2>3 DEF Plain, Delta
      <3>2. <<x>> \in Seq(Choice) /\ <<y>> \in Seq(Choice) /\ out = <<x>> \o <<y>> /\ out \in Seq(Choice)
        BY <2>3, <3>1, Pair
      <3>3. CallsIn(<<x>> \o <<y>>) = CallsIn(<<x>>) + CallsIn(<<y>>)
        BY <3>2, CallsInOut
      <3> QED
        BY <3>1, <3>2, <3>3, CallsInOut
    <2> QED
      BY <2>1, <2>2, <2>3 DEF Parts
  <1>2. TextOf(out) \in Seq(Piece)
    BY <1>1, TextOfOut
  <1>3. Count("call", TextOf(out)) \in Nat
    BY <1>2, CountType
  <1> QED
    BY <1>1, <1>2, <1>3 DEF Passed

\* stream_rewriter loses no word, and what it forwards is ordered.
LEMMA SplitSound ==
    ASSUME NEW s, SplitOK(s), NEW c, Plain(c)
    PROVE  LET r == SplitChoice(s, c)
           IN  /\ SplitOK(r.state) /\ Parts(r.out)
               /\ Shut(r.state) => Shut(s) /\ Closed(r.out)
               /\ c.content = None => r.out = <<c>> /\ r.state = s
               /\ c.content # None =>
                     /\ Words(TextOf(r.out) \o r.state.buffer) = Words(s.buffer \o Text(c))
                     /\ ~Shut(s) => r.out = <<Content(c.content, c.finish)>>
  <1> DEFINE r == SplitChoice(s, c)
             held == Holds(s, c.content)
             t == c.content
  <1>1. /\ c \in Choice /\ c.finish \in Finish /\ s \in SplitStates /\ s.buffer \in Seq(Piece)
        /\ c.content = None \/ c.reasoning = <<>>
    BY DEF Plain, Delta, SplitOK, SplitStates, Choice
  <1> HIDE DEF r
  <1>2. CASE c.content = None
    <2>1. r.out = <<c>> /\ r.state = s
      BY <1>2 DEF SplitChoice, Forwards, r
    <2>2. Closed(<<c>>) /\ Parts(<<c>>)
      BY <1>2, ClosedOne, OnePart
    <2> QED
      BY <1>2, <2>1, <2>2 DEF r
  <1>3. CASE c.content # None
    <2>1. /\ c.reasoning = <<>> /\ t \in Seq(Piece) /\ Text(c) = t
      BY <1>1, <1>3, TextType
    <2>2. CASE s.decided
      <3>1. r = Route(s, t, c.finish)
        BY <1>3, <2>1, <2>2 DEF SplitChoice, r
      <3>2. /\ SplitOK(r.state) /\ r.state.buffer = <<>>
            /\ Parts(r.out) /\ r.out \in Seq(Choice)
            /\ Words(TextOf(r.out)) = Words(t)
            /\ Shut(r.state) => Shut(s) /\ Closed(r.out)
        BY <1>1, <2>1, <2>2, <3>1, RouteSound
      <3>3. s.buffer = <<>>
        BY <2>2 DEF SplitOK
      <3>4. TextOf(r.out) \o r.state.buffer = TextOf(r.out) /\ s.buffer \o Text(c) = t
        BY <2>1, <3>2, <3>3, TextOfOut, ConcatEmptySeq
      <3>5. ~Shut(s) => r.out = <<Content(c.content, c.finish)>>
        BY <2>2, <3>1 DEF Shut, Route, Forwards
      <3> QED
        BY <1>3, <3>2, <3>4, <3>5 DEF r
    <2>3. CASE ~s.decided
      <3>1. /\ held \in SplitStates /\ held.buffer = s.buffer \o t /\ ~held.in_reasoning
            /\ ~held.decided /\ Shut(s)
        <4>1. PICK u \in Seq(Piece) : u = s.buffer \o t
          <5>1. s.buffer \o t \in Seq(Piece)
            BY <1>1, <2>1
          <5> QED
            BY <5>1, Zenon
        <4>2. held = [s EXCEPT !.buffer = u]
          BY <4>1 DEF Holds
        <4>3. ~s.in_reasoning /\ Shut(s)
          BY <2>3 DEF SplitOK, Shut
        <4> HIDE DEF held
        <4> QED
          BY <1>1, <2>3, <4>1, <4>2, <4>3 DEF SplitStates
      <3> HIDE DEF held
      <3>2. CASE Decides(held, c.finish)
        <4>1. r = Decide(held, held.buffer, c.finish)
          BY <1>3, <2>1, <2>3, <3>2 DEF SplitChoice, r, held
        <4>2. /\ SplitOK(r.state) /\ r.state.buffer = <<>>
              /\ Parts(r.out) /\ r.out \in Seq(Choice)
              /\ Words(TextOf(r.out)) = Words(held.buffer)
              /\ Shut(r.state) => Closed(r.out)
          BY <1>1, <3>1, <4>1, DecideSound
        <4>3. TextOf(r.out) \o r.state.buffer = TextOf(r.out)
          BY <4>2, TextOfOut, ConcatEmptySeq
        <4> QED
          BY <1>3, <2>1, <3>1, <4>2, <4>3 DEF r
      <3>3. CASE ~Decides(held, c.finish)
        <4>1. r.state = held /\ r.out = <<>>
          BY <1>3, <2>1, <2>3, <3>3 DEF SplitChoice, Forwards, r, held
        <4>2. Len(held.buffer) < Threshold
          <5>1. ~(Len(held.buffer) >= Threshold)
            BY <3>3 DEF Decides
          <5>2. held.buffer \in Seq(Piece)
            BY <3>1 DEF SplitStates
          <5>3. Len(held.buffer) \in Nat
            BY <5>2
          <5>4. Threshold \in Nat
            BY RewriterAssumption DEF RewriterAssumption
          <5> QED
            BY <5>1, <5>3, <5>4
        <4>3. SplitOK(held)
          BY <3>1, <4>2 DEF SplitOK
        <4>4. TextOf(<<>>) \o held.buffer = s.buffer \o t
          <5>1. s.buffer \o t \in Seq(Piece)
            BY <1>1, <2>1
          <5> QED
            BY <3>1, <5>1, NoParts, ConcatEmptySeq
        <4>5. Closed(<<>>)
          BY DEF Closed
        <4> QED
          BY <1>3, <2>1, <3>1, <4>1, <4>3, <4>4, <4>5, NoParts DEF r
      <3> QED
        BY <3>2, <3>3
    <2> QED
      BY <2>2, <2>3
  <1> QED
    BY <1>2, <1>3

\* stream_tool_recovery
RecoveryStates == [buffer : Seq(Piece), decision : {"deciding", "passthrough", "buffering"}]

\* Nothing is left behind when the rest is passed on.
Faithful(q) == q.decision = "passthrough" => q.buffer = <<>>

\* It forwards at most one choice for each it reads.
Single(out) == out = <<>> \/ \E y : Delta(y) /\ out = <<y>>

\* A choice that may come now without overtaking a held word.
InOrder(q, d) ==
    \/ d.content # None \/ Text(d) = <<>> \/ q.buffer = <<>>
    \/ Words(q.buffer) = <<>> /\ d.finish = "none"

LEMMA SingleOne ==
    ASSUME NEW y, Delta(y)
    PROVE  /\ Single(<<y>>) /\ <<y>> \in Seq(Choice) /\ TextOf(<<y>>) = Text(y) /\ Text(y) \in Seq(Piece)
           /\ CallsIn(<<y>>) = y.recovered /\ Passed(<<y>>) = y.recovered + Count("call", Text(y))
           /\ <<y>> # <<>>
  <1>1. y \in Choice
    BY DEF Delta
  <1>2. <<y>> \in Seq(Choice) /\ <<y>> # <<>>
    BY <1>1
  <1>3. TextOf(<<y>>) = Text(y) /\ CallsIn(<<y>>) = y.recovered /\ Text(y) \in Seq(Piece)
    BY <1>1, TextOfOut, CallsInOut, TextType
  <1> QED
    BY <1>2, <1>3 DEF Single, Passed

LEMMA NothingPasses == Single(<<>>) /\ TextOf(<<>>) = <<>> /\ CallsIn(<<>>) = 0 /\ Passed(<<>>) = 0
  BY TextOfOut, CallsInOut, CountEmpty DEF Single, Passed

\* The end of a buffered answer.
LEMMA RecoveredSound ==
    ASSUME NEW b \in Seq(Piece), NEW f \in Finish
    PROVE  LET y == Recovered(b, f)
           IN  /\ Delta(y) /\ Passed(<<y>>) <= Count("call", b)
               /\ CallsIn(<<y>>) = 0 => Text(y) = b
               /\ y.finish = IF y.recovered > 0 THEN "tool_calls" ELSE f
               /\ y.recovered = RecoverToolCalls(b).calls
  <1> DEFINE found == RecoverToolCalls(b)
             y == Recovered(b, f)
             e == Empty("tool_calls")
  <1>1. /\ found.calls \in Nat /\ found.residual \in Seq(Piece)
        /\ Count("call", found.residual) + found.calls = Count("call", b)
        /\ Count("call", found.residual) \in Nat /\ Count("call", b) \in Nat
    <2>1. /\ found.calls \in Nat /\ found.residual \in Seq(Piece)
          /\ Count("call", found.residual) + found.calls = Count("call", b)
      BY RecoverSound
    <2>2. Count("call", found.residual) \in Nat
      BY <2>1, CountType
    <2> QED
      BY <2>1, <2>2, CountType
  <1>2. "tool_calls" \in Finish
    BY DEF Finish
  <1> HIDE DEF found, y
  <1>3. CASE found.calls = 0
    <2>1. y = Content(b, f)
      BY <1>3 DEF Recovered, y, found
    <2>2. Delta(y) /\ y.recovered = 0 /\ Text(y) = b /\ y.finish = f
      BY <2>1, ContentChoice DEF Plain
    <2>3. Passed(<<y>>) = 0 + Count("call", b)
      BY <2>2, SingleOne
    <2>4. Passed(<<y>>) <= Count("call", b)
      BY <1>1, <2>3
    <2> QED
      BY <1>3, <2>2, <2>4 DEF y, found
  <1>4. CASE found.calls # 0
    <2>1. y = [e EXCEPT !.recovered = found.calls]
      BY <1>4 DEF Recovered, y, found
    <2>2. /\ Plain(e) /\ e.content = None /\ Text(e) = <<>> /\ e.finish = "tool_calls"
          /\ ~e.parsed /\ e.reasoning = <<>> /\ e \in Choice
      BY <1>2, EmptyChoice DEF Plain, Delta
    <2> HIDE DEF e
    <2>3. /\ y \in Choice /\ y.content = None /\ y.reasoning = <<>> /\ y.parsed = e.parsed
          /\ y.finish = "tool_calls" /\ y.recovered = found.calls
      BY <1>1, <2>1, <2>2 DEF Choice
    <2>4. Delta(y) /\ Text(y) = <<>>
      BY <2>2, <2>3, TextType DEF Delta
    <2>5. Passed(<<y>>) = found.calls + 0 /\ CallsIn(<<y>>) = found.calls
      BY <2>3, <2>4, SingleOne, CountEmpty
    <2>6. Passed(<<y>>) <= Count("call", b) /\ y.recovered > 0 /\ CallsIn(<<y>>) # 0
      BY <1>1, <1>4, <2>3, <2>5
    <2> QED
      BY <2>3, <2>4, <2>6 DEF y, found
  <1> QED
    BY <1>3, <1>4

\* Of q and d the stage has made r: no call is let pass twice, and no word lost
\* that is not part of a recovered call.
Carries(q, d, r) ==
    /\ r.state \in RecoveryStates /\ Single(r.out)
    /\ Passed(r.out) + Count("call", r.state.buffer) <= Count("call", q.buffer) + Count("call", Text(d))
    /\ ~d.parsed /\ Faithful(q) => Faithful(r.state)
    /\ d.content = None => r.out # <<>> /\ (q.buffer = <<>> => r.state.buffer = <<>>)
    /\ ((Faithful(q) /\ ~d.parsed) \/ r.out = <<>>) /\ InOrder(q, d) /\ CallsIn(r.out) = 0 =>
          Words(TextOf(r.out) \o r.state.buffer) = Words(q.buffer \o Text(d))

\* A choice is forwarded as it is.
LEMMA PassesOn ==
    ASSUME NEW q \in RecoveryStates, NEW d, Plain(d), NEW r,
           r.out = <<d>>, r.state \in RecoveryStates, r.state.buffer = q.buffer,
           r.state.decision \in {"passthrough", q.decision},
           d.parsed \/ q.decision = "passthrough"
             \/ (d.content = None /\ r.state.decision = q.decision)
    PROVE  Carries(q, d, r)
  <1>1. Delta(d) /\ d.recovered = 0 /\ q.buffer \in Seq(Piece)
    BY DEF Plain, RecoveryStates
  <1>2. /\ Single(r.out) /\ TextOf(r.out) = Text(d) /\ Text(d) \in Seq(Piece)
        /\ CallsIn(r.out) = 0 /\ Passed(r.out) = 0 + Count("call", Text(d)) /\ r.out # <<>>
    BY <1>1, SingleOne
  <1>3. Passed(r.out) + Count("call", r.state.buffer) <= Count("call", q.buffer) + Count("call", Text(d))
    <2>1. Count("call", q.buffer) \in Nat /\ Count("call", Text(d)) \in Nat
      BY <1>1, <1>2, CountType
    <2> QED
      BY <1>2, <2>1
  <1>4. ~d.parsed /\ Faithful(q) => Faithful(r.state)
    BY DEF Faithful
  <1>5. ASSUME Faithful(q), ~d.parsed, InOrder(q, d)
        PROVE  Words(TextOf(r.out) \o r.state.buffer) = Words(q.buffer \o Text(d))
    <2>1. Words(q.buffer) = <<>> \/ Words(Text(d)) = <<>>
      BY <1>5, WordsEmpty DEF Faithful, InOrder
    <2>2. Words(q.buffer \o Text(d)) = Words(Text(d) \o q.buffer)
      BY <1>1, <1>2, <2>1, Commute
    <2> QED
      BY <1>2, <2>2
  <1> QED
    BY <1>2, <1>3, <1>4, <1>5 DEF Carries

\* A text is held.
LEMMA HoldsOn ==
    ASSUME NEW q \in RecoveryStates, NEW d, Plain(d), d.content # None, NEW r,
           r.out = <<>>, r.state \in RecoveryStates, r.state.buffer = q.buffer \o d.content,
           r.state.decision # "passthrough"
    PROVE  Carries(q, d, r)
  <1>1. q.buffer \in Seq(Piece) /\ d \in Choice /\ d.reasoning = <<>>
    BY DEF Plain, Delta, RecoveryStates
  <1>2. Text(d) = d.content /\ Text(d) \in Seq(Piece)
    BY <1>1, TextType
  <1>3. /\ Count("call", r.state.buffer) = Count("call", q.buffer) + Count("call", Text(d))
        /\ Count("call", q.buffer) \in Nat /\ Count("call", Text(d)) \in Nat
        /\ q.buffer \o Text(d) \in Seq(Piece)
    BY <1>1, <1>2, CountConcat
  <1>4. Single(r.out) /\ TextOf(r.out) = <<>> /\ CallsIn(r.out) = 0 /\ Passed(r.out) = 0
    BY NothingPasses
  <1>5. TextOf(r.out) \o r.state.buffer = q.buffer \o Text(d)
    BY <1>2, <1>3, <1>4, ConcatEmptySeq
  <1>6. Passed(r.out) + Count("call", r.state.buffer) <= Count("call", q.buffer) + Count("call", Text(d))
    BY <1>3, <1>4
  <1>7. Faithful(r.state)
    BY DEF Faithful
  <1> QED
    BY <1>4, <1>5, <1>6, <1>7 DEF Carries

\* All that is held is forwarded as y, or recovered.
LEMMA Flushes ==
    ASSUME NEW q \in RecoveryStates, NEW d, Plain(d), NEW r, NEW b \in Seq(Piece), NEW f \in Finish, NEW y,
           y = Content(b, f) \/ y = Recovered(b, f),
           r.out = <<y>>, r.state \in RecoveryStates, r.state.buffer = <<>>,
           Count("call", b) <= Count("call", q.buffer) + Count("call", Text(d)),
           InOrder(q, d) => b = q.buffer \o Text(d)
    PROVE  Carries(q, d, r)
  <1>1. Delta(y) /\ Passed(<<y>>) <= Count("call", b) /\ (CallsIn(<<y>>) = 0 => Text(y) = b)
    <2>1. CASE y = Content(b, f)
      <3>1. Delta(y) /\ y.recovered = 0 /\ Text(y) = b
        BY <2>1, ContentChoice DEF Plain
      <3>2. Passed(<<y>>) = 0 + Count("call", b) /\ Count("call", b) \in Nat
        BY <3>1, SingleOne, CountType
      <3> QED
        BY <3>1, <3>2
    <2>2. CASE y = Recovered(b, f)
      BY <2>2, RecoveredSound
    <2> QED
      BY <2>1, <2>2
  <1>2. /\ Single(r.out) /\ TextOf(r.out) = Text(y) /\ Text(y) \in Seq(Piece) /\ r.out # <<>>
        /\ CallsIn(r.out) \in Nat /\ Passed(r.out) \in Nat
    <2>1. /\ Single(<<y>>) /\ <<y>> \in Seq(Choice) /\ TextOf(<<y>>) = Text(y) /\ Text(y) \in Seq(Piece)
          /\ <<y>> # <<>>
      BY <1>1, SingleOne
    <2>2. CallsIn(<<y>>) \in Nat
      BY <2>1, CallsInOut
    <2>3. Count("call", Text(y)) \in Nat
      BY <2>1, CountType
    <2> QED
      BY <2>1, <2>2, <2>3 DEF Passed
  <1>3. Passed(r.out) + Count("call", r.state.buffer) <= Count("call", q.buffer) + Count("call", Text(d))
    <2>1. q.buffer \in Seq(Piece) /\ Text(d) \in Seq(Piece)
      BY TextType DEF Plain, Delta, RecoveryStates
    <2>2. Count("call", q.buffer) \in Nat /\ Count("call", Text(d)) \in Nat /\ Count("call", b) \in Nat
      BY <2>1, CountType
    <2>3. Count("call", r.state.buffer) = 0
      BY CountEmpty
    <2> QED
      BY <1>1, <1>2, <2>2, <2>3
  <1>4. Faithful(r.state)
    BY DEF Faithful
  <1>5. ASSUME InOrder(q, d), CallsIn(r.out) = 0
        PROVE  Words(TextOf(r.out) \o r.state.buffer) = Words(q.buffer \o Text(d))
    <2>1. TextOf(r.out) \o r.state.buffer = Text(y)
      BY <1>2, ConcatEmptySeq
    <2> QED
      BY <1>1, <1>5, <2>1
  <1> QED
    BY <1>2, <1>3, <1>4, <1>5 DEF Carries

LEMMA RecoverChoiceSound ==
    ASSUME NEW q \in RecoveryStates, NEW d, Plain(d)
    PROVE  Carries(q, d, RecoverChoice(q, d))
  <1> DEFINE r == RecoverChoice(q, d)
             t == d.content
             held == Holds(q, t)
             b == q.buffer \o t
  <1>1. /\ d \in Choice /\ Delta(d) /\ d.finish \in Finish /\ q.buffer \in Seq(Piece)
        /\ q.decision \in {"deciding", "passthrough", "buffering"}
    BY DEF Plain, Delta, RecoveryStates, Choice
  <1>2. Text(d) \in Seq(Piece) /\ Count("call", q.buffer) \in Nat /\ Count("call", Text(d)) \in Nat
    BY <1>1, TextType, CountType
  <1>3. <<>> \in Seq(Piece)
    OBVIOUS
  <1> HIDE DEF r
  <1>4. CASE d.parsed
    <2>1. r.out = <<d>> /\ r.state = [q EXCEPT !.decision = "passthrough"]
      BY <1>4 DEF RecoverChoice, Forwards, r
    <2>2. r.state \in RecoveryStates /\ r.state.buffer = q.buffer /\ r.state.decision = "passthrough"
      BY <2>1 DEF RecoveryStates
    <2> QED
      BY <1>4, <2>1, <2>2, PassesOn DEF r
  <1>5. CASE ~d.parsed /\ q.decision = "passthrough"
    <2>1. r.out = <<d>> /\ r.state = q
      BY <1>5 DEF RecoverChoice, Forwards, r
    <2> QED
      BY <1>5, <2>1, PassesOn DEF r
  <1>6. CASE ~d.parsed /\ q.decision # "passthrough" /\ t = None
    <2>1. r = RecoverNoContent(q, d)
      BY <1>6 DEF RecoverChoice, r
    <2>2. CASE d.finish = "none" \/ ~FlushesAtFinish(q)
      <3>1. r.out = <<d>> /\ r.state = q
        BY <2>1, <2>2 DEF RecoverNoContent, Forwards
      <3> QED
        BY <1>6, <3>1, PassesOn DEF r
    <2>3. CASE d.finish # "none" /\ q.buffer # <<>>
      <3>1. PICK y : y = IF q.decision = "buffering" THEN Recovered(q.buffer, d.finish)
                                                     ELSE Content(q.buffer, d.finish)
        OBVIOUS
      <3>2. r.out = <<y>> /\ r.state = Passing(q)
        BY <2>1, <2>3, <3>1 DEF RecoverNoContent, Forwards, FlushesAtFinish
      <3>3. r.state \in RecoveryStates /\ r.state.buffer = <<>>
        BY <1>3, <3>2 DEF Passing, Emptied, RecoveryStates
      <3>4. InOrder(q, d) => q.buffer = q.buffer \o Text(d)
        BY <1>1, <1>6, <2>3, ConcatEmptySeq DEF InOrder
      <3>5. Count("call", q.buffer) <= Count("call", q.buffer) + Count("call", Text(d))
        BY <1>2
      <3>6. y = Content(q.buffer, d.finish) \/ y = Recovered(q.buffer, d.finish)
        BY <3>1
      <3>7. Carries(q, d, r)
        BY <1>1, <3>2, <3>3, <3>4, <3>5, <3>6, Flushes
      <3> QED
        BY <3>7 DEF r
    <2> QED
      BY <2>2, <2>3 DEF FlushesAtFinish
  <1>7. ASSUME ~d.parsed, q.decision # "passthrough", t # None
        PROVE  Carries(q, d, r)
    <2>1. t \in Seq(Piece) /\ Text(d) = t
      BY <1>1, <1>7, TextType DEF Delta
    <2>2. PICK u \in Seq(Piece) : u = b
      <3>1. b \in Seq(Piece)
        BY <1>1, <2>1
      <3> QED
        BY <3>1, Zenon
    <2>3. Count("call", u) <= Count("call", q.buffer) + Count("call", Text(d))
      <3>1. Count("call", u) = Count("call", q.buffer) + Count("call", Text(d))
        BY <1>1, <2>1, <2>2, CountConcat
      <3> QED
        BY <1>2, <3>1
    <2>4. u = q.buffer \o Text(d)
      BY <2>1, <2>2
    <2>5. held = [q EXCEPT !.buffer = u]
      BY <2>2 DEF Holds
    <2>6. held \in RecoveryStates /\ held.buffer = u /\ held.decision = q.decision
      BY <1>1, <2>5 DEF RecoveryStates
    <2> HIDE DEF held
    <2>7. ASSUME NEW y, y = Content(u, d.finish) \/ y = Recovered(u, d.finish),
                 r.out = <<y>>, r.state \in RecoveryStates, r.state.buffer = <<>>
          PROVE  Carries(q, d, r)
      BY <1>1, <2>3, <2>4, <2>7, Flushes
    <2>8. ASSUME r.out = <<>>, r.state \in RecoveryStates, r.state.buffer = u, r.state.decision # "passthrough"
          PROVE  Carries(q, d, r)
      BY <1>7, <2>2, <2>8, HoldsOn
    <2>9. CASE q.decision = "deciding"
      <3> DEFINE leaking == [held EXCEPT !.decision = "buffering"]
      <3>1. r = RecoverDeciding(held, d.finish)
        BY <1>7, <2>9 DEF RecoverChoice, r, held
      <3>2. /\ leaking \in RecoveryStates /\ leaking.buffer = u /\ leaking.decision = "buffering"
            /\ Emptied(leaking) \in RecoveryStates /\ Emptied(leaking).buffer = <<>>
            /\ Passing(held) \in RecoveryStates /\ Passing(held).buffer = <<>>
        BY <1>3, <2>6 DEF RecoveryStates, Emptied, Passing
      <3>3. \/ r = Forwards(Emptied(leaking), <<Recovered(u, d.finish)>>)
            \/ r = Forwards(leaking, <<>>)
            \/ r = Forwards(Passing(held), <<Content(u, d.finish)>>)
            \/ r = Forwards(held, <<>>)
        BY <2>6, <3>1 DEF RecoverDeciding
      <3> HIDE DEF leaking
      <3>4. \/ r.state = Emptied(leaking) /\ r.out = <<Recovered(u, d.finish)>>
            \/ r.state = leaking /\ r.out = <<>>
            \/ r.state = Passing(held) /\ r.out = <<Content(u, d.finish)>>
            \/ r.state = held /\ r.out = <<>>
        BY <3>3 DEF Forwards
      <3> QED
        BY <2>6, <2>7, <2>8, <2>9, <3>2, <3>4
    <2>10. CASE q.decision = "buffering"
      <3>1. r = RecoverBuffering(held, d.finish)
        BY <1>7, <2>10 DEF RecoverChoice, r, held
      <3>2. Emptied(held) \in RecoveryStates /\ Emptied(held).buffer = <<>>
        BY <1>3, <2>6 DEF RecoveryStates, Emptied
      <3>3. \/ r.state = held /\ r.out = <<>>
            \/ r.state = Emptied(held) /\ r.out = <<Recovered(u, d.finish)>>
        BY <2>6, <3>1 DEF RecoverBuffering, Forwards
      <3> QED
        BY <2>6, <2>7, <2>8, <2>10, <3>2, <3>3
    <2> QED
      BY <1>1, <1>7, <2>9, <2>10
  <1> QED
    BY <1>4, <1>5, <1>6, <1>7 DEF r

-----------------------------------------------------------------------------
(* The chain: what one chunk does to both stages, and to the client        *)

\* stream_tool_recovery reads the one or two choices it is given in turn.
LEMMA ThroughRecoveryIs ==
    ASSUME NEW out, NEW m \in 0 .. 2, Len(out) = m, recovers
    PROVE  LET zero == Forwards(recovery, <<>>)
               one == Further(zero, out[1])
           IN  /\ m = 0 => ThroughRecovery(out) = zero
               /\ m = 1 => ThroughRecovery(out) = one
               /\ m = 2 => ThroughRecovery(out) = Further(one, out[2])
  <1> DEFINE zero == Forwards(recovery, <<>>)
             one == Further(zero, out[1])
             two == Further(one, out[2])
             Body(F) == [n \in 0 .. m |-> IF n = 0 THEN zero ELSE Further(F[n - 1], out[n])]
             C == CHOOSE F : F = Body(F)
             W == [n \in 0 .. m |-> IF n = 0 THEN zero ELSE IF n = 1 THEN one ELSE two]
  <1>1. ThroughRecovery(out) = C[m]
    BY DEF ThroughRecovery
  <1> HIDE DEF zero
  <1>2. ASSUME NEW n \in 0 .. m PROVE W[n] = Body(W)[n]
    <2>1. CASE n = 0
      BY <2>1
    <2>2. CASE n = 1
      <3>1. W[0] = zero /\ n - 1 = 0
        BY <2>2
      <3> QED
        BY <2>2, <3>1
    <2>3. CASE n = 2
      <3>1. W[1] = one /\ n - 1 = 1
        BY <2>3
      <3> QED
        BY <2>3, <3>1
    <2> QED
      BY <2>1, <2>2, <2>3
  <1>3. W = Body(W)
    BY <1>2
  <1>4. C = Body(C)
    BY <1>3
  <1> HIDE DEF C
  <1>5. C[0] = zero
    BY <1>4
  <1>6. m \in 1 .. 2 => C[1] = one
    BY <1>4, <1>5
  <1>7. m = 2 => C[2] = two
    BY <1>4, <1>6
  <1> QED
    BY <1>1, <1>5, <1>6, <1>7 DEF zero

\* A client reads the one or two choices that arrive in turn.
LEMMA ReadsIs ==
    ASSUME NEW out, NEW m \in 0 .. 2, Len(out) = m
    PROVE  /\ m = 0 => Reads(out) = got
           /\ m = 1 => Reads(out) = Read(got, out[1])
           /\ m = 2 => Reads(out) = Read(Read(got, out[1]), out[2])
  <1> DEFINE one == Read(got, out[1])
             two == Read(one, out[2])
             Body(F) == [n \in 0 .. m |-> IF n = 0 THEN got ELSE Read(F[n - 1], out[n])]
             C == CHOOSE F : F = Body(F)
             W == [n \in 0 .. m |-> IF n = 0 THEN got ELSE IF n = 1 THEN one ELSE two]
  <1>1. Reads(out) = C[m]
    BY DEF Reads
  <1>2. ASSUME NEW n \in 0 .. m PROVE W[n] = Body(W)[n]
    <2>1. CASE n = 0
      BY <2>1
    <2>2. CASE n = 1
      <3>1. W[0] = got /\ n - 1 = 0
        BY <2>2
      <3> QED
        BY <2>2, <3>1
    <2>3. CASE n = 2
      <3>1. W[1] = one /\ n - 1 = 1
        BY <2>3
      <3> QED
        BY <2>3, <3>1
    <2> QED
      BY <2>1, <2>2, <2>3
  <1>3. W = Body(W)
    BY <1>2
  <1>4. C = Body(C)
    BY <1>3
  <1> HIDE DEF C
  <1>5. C[0] = got
    BY <1>4
  <1>6. m \in 1 .. 2 => C[1] = one
    BY <1>4, <1>5
  <1>7. m = 2 => C[2] = two
    BY <1>4, <1>6
  <1> QED
    BY <1>1, <1>5, <1>6, <1>7

LEMMA WordsConcat3 ==
    ASSUME NEW a \in Seq(Piece), NEW b \in Seq(Piece), NEW c \in Seq(Piece)
    PROVE  /\ Words((a \o b) \o c) = Words(a \o b) \o Words(c)
           /\ Words((a \o b) \o c) = Words(a) \o Words(b \o c)
           /\ Words(a \o (b \o c)) = Words((a \o b) \o c)
           /\ (a \o b) \o c \in Seq(Piece) /\ a \o (b \o c) \in Seq(Piece)
  <1>1. /\ a \o b \in Seq(Piece) /\ b \o c \in Seq(Piece)
        /\ Words(a \o b) = Words(a) \o Words(b) /\ Words(b \o c) = Words(b) \o Words(c)
        /\ Words(a) \in Seq(Piece) /\ Words(b) \in Seq(Piece) /\ Words(c) \in Seq(Piece)
    BY WordsConcat
  <1>2. Words((a \o b) \o c) = Words(a \o b) \o Words(c)
    BY <1>1, WordsConcat
  <1>3. Words(a \o (b \o c)) = Words(a) \o Words(b \o c)
    BY <1>1, WordsConcat
  <1>4. (Words(a) \o Words(b)) \o Words(c) = Words(a) \o (Words(b) \o Words(c))
    <2>1. PICK u \in Seq(Piece), v \in Seq(Piece), w \in Seq(Piece) :
             u = Words(a) /\ v = Words(b) /\ w = Words(c)
      BY <1>1, Zenon
    <2>2. (u \o v) \o w = u \o (v \o w)
      BY ConcatAssociative, SMTT(30)
    <2> QED
      BY <2>1, <2>2
  <1>5. (a \o b) \o c \in Seq(Piece) /\ a \o (b \o c) \in Seq(Piece)
    BY <1>1, ConcatProperties
  <1> QED
    BY <1>1, <1>2, <1>3, <1>4, <1>5

\* The texts a and b, which the prover need not look into.
Cat(a, b) == a \o b

LEMMA Regroup ==
    ASSUME NEW a \in Seq(Piece), NEW b \in Seq(Piece), NEW c \in Seq(Piece)
    PROVE  /\ Words(Cat(Cat(a, b), c)) = Cat(Words(Cat(a, b)), Words(c))
           /\ Words(Cat(Cat(a, b), c)) = Cat(Words(a), Words(Cat(b, c)))
           /\ Words(Cat(a, Cat(b, c))) = Words(Cat(Cat(a, b), c))
  BY WordsConcat3, ZenonT(40) DEF Cat

\* What reaches a client.
Fragment == {c \in Choice : Delta(c)}

LEMMA Fragments ==
    /\ \A s \in Seq(Fragment) : s \in Seq(Choice)
    /\ \A y : Delta(y) <=> y \in Fragment
    /\ \A out : Single(out) => out \in Seq(Fragment) /\ out \in Seq(Choice) /\ Len(out) \in 0 .. 1
  <1>1. Fragment \subseteq Choice
    BY DEF Fragment
  <1>2. ASSUME NEW s \in Seq(Fragment) PROVE s \in Seq(Choice)
    BY <1>1
  <1>3. \A y : Delta(y) <=> y \in Fragment
    BY DEF Fragment, Delta
  <1>4. ASSUME NEW out, Single(out) PROVE out \in Seq(Fragment) /\ Len(out) \in 0 .. 1
    <2>1. CASE out = <<>>
      BY <2>1
    <2>2. ASSUME NEW y, Delta(y), out = <<y>> PROVE out \in Seq(Fragment) /\ Len(out) \in 0 .. 1
      <3>1. y \in Fragment
        BY <1>3, <2>2
      <3> QED
        BY <2>2, <3>1
    <2> QED
      BY <1>4, <2>1, <2>2 DEF Single
  <1> QED
    BY <1>2, <1>3, <1>4

Unparsed(out) == \A i \in DOMAIN out : ~out[i].parsed

\* What may come now without overtaking a held word.
Ordered(q, out) == out = <<>> \/ q.buffer = <<>> \/ \E x : out = <<x>> /\ InOrder(q, x)

\* Of q and the choices out stream_tool_recovery has made r: as of one of them.
CarriesAll(q, out, r) ==
    /\ r.state \in RecoveryStates /\ r.out \in Seq(Fragment) /\ Len(r.out) \in 0 .. 2
    /\ Passed(r.out) + Count("call", r.state.buffer) <= Count("call", q.buffer) + Count("call", TextOf(out))
    /\ Unparsed(out) /\ Faithful(q) => Faithful(r.state)
    /\ Closed(out) /\ out # <<>> => r.out # <<>>
    /\ Closed(out) /\ q.buffer = <<>> => r.state.buffer = <<>>
    /\ ((Faithful(q) /\ Unparsed(out)) \/ r.out = <<>>) /\ Ordered(q, out) /\ CallsIn(r.out) = 0 =>
          Words(TextOf(r.out) \o r.state.buffer) = Words(q.buffer \o TextOf(out))

LEMMA AllOfNone ==
    ASSUME NEW q \in RecoveryStates
    PROVE  CarriesAll(q, <<>>, Forwards(q, <<>>))
  <1> DEFINE r == Forwards(q, <<>>)
  <1>1. r.state = q /\ r.out = <<>>
    BY DEF Forwards
  <1> HIDE DEF r
  <1>2. q.buffer \in Seq(Piece) /\ Count("call", q.buffer) \in Nat
    BY CountType DEF RecoveryStates
  <1>3. /\ TextOf(<<>>) = <<>> /\ Passed(<<>>) = 0 /\ Count("call", <<>>) = 0
        /\ <<>> \in Seq(Fragment) /\ Len(<<>>) = 0
    BY NothingPasses, CountEmpty
  <1>4. <<>> \o q.buffer = q.buffer /\ q.buffer \o <<>> = q.buffer
    BY <1>2, ConcatEmptySeq
  <1>5. Passed(r.out) + Count("call", r.state.buffer) <= Count("call", q.buffer) + Count("call", TextOf(<<>>))
    BY <1>1, <1>2, <1>3
  <1>6. r.state \in RecoveryStates /\ r.out \in Seq(Fragment) /\ Len(r.out) \in 0 .. 2
    BY <1>1, <1>3
  <1>7. Words(TextOf(r.out) \o r.state.buffer) = Words(q.buffer \o TextOf(<<>>))
    BY <1>1, <1>3, <1>4
  <1>8. CarriesAll(q, <<>>, r)
    BY <1>1, <1>5, <1>6, <1>7 DEF CarriesAll
  <1> QED
    BY <1>8 DEF r

LEMMA AllOfOne ==
    ASSUME NEW q \in RecoveryStates, NEW x, Plain(x)
    PROVE  LET r == RecoverChoice(q, x)
           IN  /\ Further(Forwards(q, <<>>), x) = Forwards(r.state, r.out)
               /\ CarriesAll(q, <<x>>, Forwards(r.state, r.out))
  <1> DEFINE r == RecoverChoice(q, x)
             f == Forwards(r.state, r.out)
  <1>1. Carries(q, x, r)
    BY RecoverChoiceSound
  <1> HIDE DEF r
  <1>2. r.out \in Seq(Fragment) /\ r.out \in Seq(Choice) /\ Len(r.out) \in 0 .. 1
    BY <1>1, Fragments DEF Carries
  <1>3. Further(Forwards(q, <<>>), x) = f
    <2>1. <<>> \o r.out = r.out
      BY <1>2, ConcatEmptySeq
    <2> QED
      BY <2>1 DEF Further, Forwards, r
  <1>4. f.state = r.state /\ f.out = r.out
    BY DEF Forwards
  <1> HIDE DEF f
  <1>5. TextOf(<<x>>) = Text(x)
    BY OnePart
  <1>6. /\ <<x>> # <<>> /\ \A z : <<x>> = <<z>> => z = x
        /\ Unparsed(<<x>>) => ~x.parsed
        /\ Closed(<<x>>) => x.content = None
    BY DEF Unparsed, Closed
  <1>7. Ordered(q, <<x>>) => InOrder(q, x)
    BY <1>6 DEF Ordered, InOrder
  <1>8. CarriesAll(q, <<x>>, f)
    <2>1. f.state \in RecoveryStates /\ f.out \in Seq(Fragment) /\ Len(f.out) \in 0 .. 2
      BY <1>1, <1>2, <1>4 DEF Carries
    <2>2. Passed(f.out) + Count("call", f.state.buffer) <= Count("call", q.buffer) + Count("call", TextOf(<<x>>))
      BY <1>1, <1>4, <1>5 DEF Carries
    <2>3. /\ Unparsed(<<x>>) /\ Faithful(q) => Faithful(f.state)
          /\ Closed(<<x>>) /\ <<x>> # <<>> => f.out # <<>>
          /\ Closed(<<x>>) /\ q.buffer = <<>> => f.state.buffer = <<>>
      BY <1>1, <1>4, <1>6 DEF Carries
    <2>4. ((Faithful(q) /\ Unparsed(<<x>>)) \/ f.out = <<>>) /\ Ordered(q, <<x>>) /\ CallsIn(f.out) = 0 =>
                  Words(TextOf(f.out) \o f.state.buffer) = Words(q.buffer \o TextOf(<<x>>))
      BY <1>1, <1>4, <1>5, <1>6, <1>7 DEF Carries
    <2> QED
      BY <2>1, <2>2, <2>3, <2>4 DEF CarriesAll
  <1> QED
    BY <1>3, <1>8 DEF f, r

LEMMA AllOfTwo ==
    ASSUME NEW q \in RecoveryStates, NEW x, NEW y, Plain(x), Plain(y), x.content = None
    PROVE  CarriesAll(q, <<x, y>>, Further(Further(Forwards(q, <<>>), x), y))
  <1> DEFINE r1 == RecoverChoice(q, x)
             r2 == RecoverChoice(r1.state, y)
             f == Further(Further(Forwards(q, <<>>), x), y)
             out == <<x, y>>
  <1>1. Further(Forwards(q, <<>>), x) = Forwards(r1.state, r1.out)
    BY AllOfOne
  <1>2. Carries(q, x, r1)
    BY RecoverChoiceSound
  <1>3. r1.state \in RecoveryStates
    BY <1>2 DEF Carries
  <1>4. Carries(r1.state, y, r2)
    BY <1>3, RecoverChoiceSound
  <1>5. f.state = r2.state /\ f.out = r1.out \o r2.out
    BY <1>1 DEF Further, Forwards
  <1> HIDE DEF r1, r2, f
  <1>6. /\ r1.out \in Seq(Fragment) /\ r1.out \in Seq(Choice) /\ Len(r1.out) \in 0 .. 1
        /\ r2.out \in Seq(Fragment) /\ r2.out \in Seq(Choice) /\ Len(r2.out) \in 0 .. 1
        /\ r1.out # <<>>
    BY <1>2, <1>4, Fragments DEF Carries
  <1>7. f.state \in RecoveryStates /\ f.out \in Seq(Fragment) /\ Len(f.out) \in 0 .. 2 /\ f.out # <<>>
    <2>1. f.out \in Seq(Fragment) /\ Len(f.out) = Len(r1.out) + Len(r2.out)
      BY <1>5, <1>6, ConcatProperties
    <2>2. f.state \in RecoveryStates
      BY <1>4, <1>5 DEF Carries
    <2>3. Len(r1.out) # 0
      BY <1>6
    <2>4. Len(f.out) \in 1 .. 2 /\ Len(f.out) \in 0 .. 2
      <3> DEFINE n1 == Len(r1.out)
                 n2 == Len(r2.out)
      <3>1. n1 \in 0 .. 1 /\ n2 \in 0 .. 1 /\ n1 # 0 /\ Len(f.out) = n1 + n2
        BY <1>6, <2>1, <2>3
      <3> HIDE DEF n1, n2
      <3> QED
        BY <3>1
    <2>5. f.out # <<>>
      BY <2>4
    <2> QED
      BY <2>1, <2>2, <2>4, <2>5
  <1>8. /\ TextOf(f.out) = TextOf(r1.out) \o TextOf(r2.out)
        /\ CallsIn(f.out) = CallsIn(r1.out) + CallsIn(r2.out)
        /\ CallsIn(r1.out) \in Nat /\ CallsIn(r2.out) \in Nat
        /\ TextOf(r1.out) \in Seq(Piece) /\ TextOf(r2.out) \in Seq(Piece)
    BY <1>5, <1>6, TextOfOut, CallsInOut
  <1>9. /\ x \in Choice /\ y \in Choice /\ Text(x) \in Seq(Piece) /\ Text(y) \in Seq(Piece)
        /\ q.buffer \in Seq(Piece) /\ r1.state.buffer \in Seq(Piece) /\ r2.state.buffer \in Seq(Piece)
    BY <1>3, <1>4, TextType DEF Plain, Delta, RecoveryStates, Carries
  <1>10. TextOf(out) = Text(x) \o Text(y)
    BY <1>9, TextOfOut
  <1>11. /\ Count("call", TextOf(f.out)) = Count("call", TextOf(r1.out)) + Count("call", TextOf(r2.out))
         /\ Count("call", TextOf(out)) = Count("call", Text(x)) + Count("call", Text(y))
    <2>1. Count("call", TextOf(f.out)) = Count("call", TextOf(r1.out)) + Count("call", TextOf(r2.out))
      BY <1>8, CountConcat
    <2>2. Count("call", TextOf(out)) = Count("call", Text(x)) + Count("call", Text(y))
      <3>1. Count("call", Text(x) \o Text(y)) = Count("call", Text(x)) + Count("call", Text(y))
        BY <1>9, CountConcat
      <3> QED
        BY <1>10, <3>1
    <2> QED
      BY <2>1, <2>2
  <1>12. Passed(f.out) + Count("call", f.state.buffer) <= Count("call", q.buffer) + Count("call", TextOf(out))
    <2>1. /\ Count("call", q.buffer) \in Nat /\ Count("call", r1.state.buffer) \in Nat
          /\ Count("call", r2.state.buffer) \in Nat
      BY <1>9, CountType
    <2>2. /\ Count("call", Text(x)) \in Nat /\ Count("call", Text(y)) \in Nat
          /\ Count("call", TextOf(r1.out)) \in Nat /\ Count("call", TextOf(r2.out)) \in Nat
      BY <1>8, <1>9, CountType
    <2>3. CallsIn(r1.out) + Count("call", TextOf(r1.out)) + Count("call", r1.state.buffer)
          <= Count("call", q.buffer) + Count("call", Text(x))
      BY <1>2 DEF Carries, Passed
    <2>4. CallsIn(r2.out) + Count("call", TextOf(r2.out)) + Count("call", r2.state.buffer)
          <= Count("call", r1.state.buffer) + Count("call", Text(y))
      BY <1>4 DEF Carries, Passed
    <2>5. CallsIn(f.out) + Count("call", TextOf(f.out)) + Count("call", r2.state.buffer)
          <= Count("call", q.buffer) + Count("call", TextOf(out))
      <3> DEFINE c1 == CallsIn(r1.out)
                 c2 == CallsIn(r2.out)
      <3>1. c1 \in Nat /\ c2 \in Nat /\ CallsIn(f.out) = c1 + c2
        BY <1>8
      <3>2. /\ c1 + Count("call", TextOf(r1.out)) + Count("call", r1.state.buffer)
               <= Count("call", q.buffer) + Count("call", Text(x))
            /\ c2 + Count("call", TextOf(r2.out)) + Count("call", r2.state.buffer)
               <= Count("call", r1.state.buffer) + Count("call", Text(y))
        BY <2>3, <2>4
      <3> HIDE DEF c1, c2
      <3> QED
        BY <1>11, <2>1, <2>2, <3>1, <3>2
    <2> QED
      BY <1>5, <2>5 DEF Passed
  <1>13. DOMAIN out = 1 .. 2 /\ out[1] = x /\ out[2] = y /\ out # <<>> /\ \A z : out # <<z>>
    <2>1. DOMAIN out = 1 .. 2 /\ out[1] = x /\ out[2] = y /\ Len(out) = 2
      OBVIOUS
    <2>2. \A z : Len(<<z>>) = 1 /\ Len(<<>>) = 0
      OBVIOUS
    <2> HIDE DEF out
    <2> QED
      BY <2>1, <2>2
  <1> HIDE DEF out
  <1>14. /\ Unparsed(out) => ~x.parsed /\ ~y.parsed
         /\ Closed(out) => y.content = None
    BY <1>13 DEF Unparsed, Closed
  <1>15. Unparsed(out) /\ Faithful(q) => Faithful(r1.state) /\ Faithful(f.state)
    BY <1>2, <1>4, <1>5, <1>14 DEF Carries
  <1>16. /\ q.buffer = <<>> => r1.state.buffer = <<>>
         /\ Closed(out) /\ q.buffer = <<>> => f.state.buffer = <<>>
    BY <1>2, <1>4, <1>5, <1>14 DEF Carries
  <1>17. ASSUME Faithful(q), Unparsed(out), Ordered(q, out), CallsIn(f.out) = 0
         PROVE  Words(TextOf(f.out) \o f.state.buffer) = Words(q.buffer \o TextOf(out))
    <2>1. q.buffer = <<>> /\ r1.state.buffer = <<>>
      BY <1>13, <1>16, <1>17 DEF Ordered
    <2>2. InOrder(q, x) /\ InOrder(r1.state, y)
      BY <2>1 DEF InOrder
    <2>3. CallsIn(r1.out) = 0 /\ CallsIn(r2.out) = 0
      BY <1>8, <1>17
    <2>4. /\ Words(TextOf(r1.out) \o r1.state.buffer) = Words(q.buffer \o Text(x))
          /\ Words(TextOf(r2.out) \o r2.state.buffer) = Words(r1.state.buffer \o Text(y))
      BY <1>2, <1>4, <1>14, <1>15, <1>17, <2>2, <2>3 DEF Carries
    <2>5. Words((TextOf(r1.out) \o TextOf(r2.out)) \o r2.state.buffer) = Words(q.buffer \o (Text(x) \o Text(y)))
      <3> DEFINE h0 == q.buffer
                 h1 == r1.state.buffer
                 h2 == r2.state.buffer
                 t1 == TextOf(r1.out)
                 t2 == TextOf(r2.out)
                 u == Text(x)
                 v == Text(y)
      <3>1. /\ h0 \in Seq(Piece) /\ h1 \in Seq(Piece) /\ h2 \in Seq(Piece) /\ t1 \in Seq(Piece)
            /\ t2 \in Seq(Piece) /\ u \in Seq(Piece) /\ v \in Seq(Piece)
        BY <1>8, <1>9
      <3>2. Words(Cat(t1, h1)) = Words(Cat(h0, u)) /\ Words(Cat(t2, h2)) = Words(Cat(h1, v))
        BY <2>4 DEF Cat
      <3> HIDE DEF h0, h1, h2, t1, t2, u, v
      <3>3. Words(Cat(Cat(t1, t2), h2)) = Cat(Words(t1), Words(Cat(t2, h2)))
        BY <3>1, Regroup
      <3>4. Words(Cat(Cat(t1, h1), v)) = Cat(Words(t1), Words(Cat(h1, v)))
        BY <3>1, Regroup
      <3>5. Words(Cat(Cat(t1, h1), v)) = Cat(Words(Cat(t1, h1)), Words(v))
        BY <3>1, Regroup
      <3>6. Words(Cat(h0, Cat(u, v))) = Cat(Words(Cat(h0, u)), Words(v))
        BY <3>1, Regroup
      <3>7. Words(Cat(Cat(t1, t2), h2)) = Words(Cat(h0, Cat(u, v)))
        BY <3>2, <3>3, <3>4, <3>5, <3>6
      <3> QED
        BY <3>7 DEF Cat, h0, h1, h2, t1, t2, u, v
    <2> QED
      BY <1>5, <1>8, <1>10, <2>5
  <1>18. CarriesAll(q, out, f)
    BY <1>7, <1>12, <1>15, <1>16, <1>17 DEF CarriesAll
  <1> QED
    BY <1>18 DEF out, f

\* Without stream_tool_recovery all is forwarded, and nothing was held.
LEMMA AllUnrecovered ==
    ASSUME NEW out, Parts(out)
    PROVE  CarriesAll(RecoveryStart, out, Forwards(RecoveryStart, out))
  <1> DEFINE q == RecoveryStart
             r == Forwards(q, out)
  <1>1. q.buffer = <<>> /\ q.decision = "deciding" /\ q \in RecoveryStates
    <2>1. <<>> \in Seq(Piece)
      OBVIOUS
    <2> QED
      BY <2>1 DEF RecoveryStart, RecoveryStates
  <1>2. r.state = q /\ r.out = out
    BY DEF Forwards
  <1> HIDE DEF q, r
  <1>3. /\ out \in Seq(Choice) /\ CallsIn(out) = 0
        /\ Passed(out) = Count("call", TextOf(out)) /\ TextOf(out) \in Seq(Piece)
    BY PlainPasses
  <1>4. out \in Seq(Fragment) /\ Len(out) \in 0 .. 2
    <2>1. CASE out = <<>>
      BY <2>1
    <2>2. ASSUME NEW x, Plain(x), out = <<x>> PROVE out \in Seq(Fragment) /\ Len(out) \in 0 .. 2
      <3>1. x \in Fragment
        BY <2>2, Fragments DEF Plain
      <3> QED
        BY <2>2, <3>1
    <2>3. ASSUME NEW x, NEW y, Plain(x), Plain(y), out = <<x, y>>
          PROVE  out \in Seq(Fragment) /\ Len(out) \in 0 .. 2
      <3>1. x \in Fragment /\ y \in Fragment
        BY <2>3, Fragments DEF Plain
      <3> QED
        BY <2>3, <3>1
    <2> QED
      BY <2>1, <2>2, <2>3 DEF Parts
  <1>5. Count("call", q.buffer) = 0 /\ Count("call", TextOf(out)) \in Nat
    BY <1>1, <1>3, CountEmpty, CountType
  <1>6. TextOf(out) \o q.buffer = TextOf(out) /\ q.buffer \o TextOf(out) = TextOf(out)
    BY <1>1, <1>3, ConcatEmptySeq
  <1>7. Passed(r.out) + Count("call", r.state.buffer) <= Count("call", q.buffer) + Count("call", TextOf(out))
    BY <1>2, <1>3, <1>5
  <1>8. Words(TextOf(r.out) \o r.state.buffer) = Words(q.buffer \o TextOf(out))
    BY <1>2, <1>6
  <1>9. r.state \in RecoveryStates /\ r.out \in Seq(Fragment) /\ Len(r.out) \in 0 .. 2
    BY <1>1, <1>2, <1>4
  <1>10. CarriesAll(q, out, r)
    BY <1>1, <1>2, <1>7, <1>8, <1>9 DEF CarriesAll
  <1> QED
    BY <1>10 DEF q, r

\* The states of the chain.
ChainOK ==
    /\ splits \in BOOLEAN /\ recovers \in BOOLEAN
    /\ SplitOK(split) /\ recovery \in RecoveryStates
    /\ ~splits => split = SplitStart
    /\ ~recovers => recovery = RecoveryStart
    /\ splits /\ Shut(split) => recovery.buffer = <<>>

LEMMA ThroughRecoverySound ==
    ASSUME ChainOK, NEW out, Parts(out)
    PROVE  /\ CarriesAll(recovery, out, ThroughRecovery(out))
           /\ ~recovers => ThroughRecovery(out).state = RecoveryStart
  <1>1. CASE ~recovers
    <2>1. ThroughRecovery(out) = Forwards(RecoveryStart, out) /\ recovery = RecoveryStart
      BY <1>1 DEF ThroughRecovery, ChainOK
    <2>2. Forwards(RecoveryStart, out).state = RecoveryStart
      BY DEF Forwards
    <2> QED
      BY <2>1, <2>2, AllUnrecovered
  <1>2. CASE recovers
    <2>1. recovery \in RecoveryStates
      BY DEF ChainOK
    <2>2. CASE out = <<>>
      <3>1. Len(out) = 0 /\ 0 \in 0 .. 2
        BY <2>2
      <3>2. ThroughRecovery(out) = Forwards(recovery, <<>>)
        BY <1>2, <3>1, ThroughRecoveryIs
      <3> QED
        BY <1>2, <2>1, <2>2, <3>2, AllOfNone
    <2>3. ASSUME NEW x, Plain(x), out = <<x>> PROVE CarriesAll(recovery, out, ThroughRecovery(out))
      <3>1. Len(out) = 1 /\ 1 \in 0 .. 2 /\ out[1] = x
        BY <2>3
      <3>2. ThroughRecovery(out) = Further(Forwards(recovery, <<>>), x)
        BY <1>2, <3>1, ThroughRecoveryIs
      <3> QED
        BY <2>1, <2>3, <3>2, AllOfOne
    <2>4. ASSUME NEW x, NEW y, Plain(x), Plain(y), out = <<x, y>>, x.content = None
          PROVE  CarriesAll(recovery, out, ThroughRecovery(out))
      <3>1. Len(out) = 2 /\ 2 \in 0 .. 2 /\ out[1] = x /\ out[2] = y
        BY <2>4
      <3>2. ThroughRecovery(out) = Further(Further(Forwards(recovery, <<>>), x), y)
        BY <1>2, <3>1, ThroughRecoveryIs
      <3> QED
        BY <2>1, <2>4, <3>2, AllOfTwo
    <2> QED
      BY <1>2, <2>2, <2>3, <2>4 DEF Parts
  <1> QED
    BY <1>1, <1>2 DEF ChainOK

LEMMA UnparsedConcat ==
    ASSUME NEW a \in Seq(Choice), NEW b \in Seq(Choice), Unparsed(a), Unparsed(b)
    PROVE  Unparsed(a \o b)
  <1>1. /\ Len(a \o b) = Len(a) + Len(b) /\ DOMAIN (a \o b) = 1 .. Len(a) + Len(b)
        /\ \A i \in 1 .. Len(a) : (a \o b)[i] = a[i]
        /\ \A i \in Len(a) + 1 .. Len(a) + Len(b) : (a \o b)[i] = b[i - Len(a)]
        /\ Len(a) \in Nat /\ Len(b) \in Nat /\ DOMAIN a = 1 .. Len(a) /\ DOMAIN b = 1 .. Len(b)
    OBVIOUS
  <1>2. ASSUME NEW i \in DOMAIN (a \o b) PROVE ~(a \o b)[i].parsed
    <2>1. CASE i \in 1 .. Len(a)
      BY <1>1, <2>1 DEF Unparsed
    <2>2. CASE i \in Len(a) + 1 .. Len(a) + Len(b)
      <3>1. i - Len(a) \in 1 .. Len(b)
        BY <1>1, <2>2
      <3> QED
        BY <1>1, <2>2, <3>1 DEF Unparsed
    <2> QED
      BY <1>1, <1>2, <2>1, <2>2
  <1> QED
    BY <1>2 DEF Unparsed

LEMMA UnparsedOne ==
    /\ Unparsed(<<>>) /\ \A x : ~x.parsed => Unparsed(<<x>>)
    /\ \A t, f : Unparsed(<<Content(t, f)>>) /\ Unparsed(<<Reasoning(t, f)>>)
  <1>1. Unparsed(<<>>) /\ \A x : ~x.parsed => Unparsed(<<x>>)
    BY DEF Unparsed
  <1>2. \A t, f : ~Content(t, f).parsed /\ ~Reasoning(t, f).parsed
    BY DEF Content, Reasoning, Empty
  <1> QED
    BY <1>1, <1>2

LEMMA UnlessUnparsed ==
    ASSUME NEW a \in Seq(Piece), NEW b \in Seq(Piece), NEW f \in Finish
    PROVE  Unparsed(Unless(a = <<>>, Reasoning(a, "none")) \o Unless(b = <<>>, Content(b, f)))
  <1> DEFINE x == Unless(a = <<>>, Reasoning(a, "none"))
             y == Unless(b = <<>>, Content(b, f))
  <1>1. Unparsed(x) /\ Unparsed(y)
    BY UnparsedOne DEF Unless
  <1>2. Reasoning(a, "none") \in Choice /\ Content(b, f) \in Choice
    BY ReasoningChoice, ContentChoice DEF Plain, Delta, Finish
  <1>3. x \in Seq(Choice) /\ y \in Seq(Choice)
    <2>1. <<>> \in Seq(Choice) /\ <<Reasoning(a, "none")>> \in Seq(Choice) /\ <<Content(b, f)>> \in Seq(Choice)
      BY <1>2
    <2> QED
      BY <2>1 DEF Unless
  <1> HIDE DEF x, y
  <1>4. Unparsed(x \o y)
    BY <1>1, <1>3, UnparsedConcat
  <1> QED
    BY <1>4 DEF x, y

\* stream_rewriter makes no tool call out of a text.
LEMMA SplitUnparsed ==
    ASSUME NEW s, SplitOK(s), NEW c, Plain(c), ~c.parsed
    PROVE  Unparsed(SplitChoice(s, c).out)
  <1> DEFINE r == SplitChoice(s, c)
             held == Holds(s, c.content)
             b == held.buffer
             body == AfterPrefix(b)
             t == c.content
             f == c.finish
  <1>1. /\ c \in Choice /\ f \in Finish /\ s.buffer \in Seq(Piece)
        /\ c.content = None \/ c.reasoning = <<>>
    BY DEF Plain, Delta, SplitOK, SplitStates, Choice
  <1> HIDE DEF r
  <1>2. CASE c.reasoning # <<>> \/ c.content = None
    <2>1. r.out = <<c>>
      BY <1>2 DEF SplitChoice, Forwards, r
    <2> QED
      BY <2>1, UnparsedOne DEF r
  <1>3. ASSUME c.reasoning = <<>>, c.content # None PROVE Unparsed(r.out)
    <2>1. t \in Seq(Piece) /\ b \in Seq(Piece)
      <3>1. t \in Seq(Piece)
        BY <1>1, <1>3, TextType
      <3>2. s.buffer \o t \in Seq(Piece)
        BY <1>1, <3>1
      <3>3. b = s.buffer \o t
        BY DEF Holds, SplitOK, SplitStates
      <3> QED
        BY <3>1, <3>2, <3>3
    <2>2. CASE s.decided
      <3>1. r = Route(s, t, f)
        BY <1>3, <2>2 DEF SplitChoice, r
      <3>2. CASE Marks(t) # {} /\ s.in_reasoning
        <4>1. r.out = Unless(Before(t) = <<>>, Reasoning(Before(t), "none"))
                      \o Unless(After(t) = <<>>, Content(After(t), f))
          BY <3>1, <3>2 DEF Route, Forwards
        <4>2. Before(t) \in Seq(Piece) /\ After(t) \in Seq(Piece)
          BY <2>1, <3>2, MarkKeepsWords
        <4> QED
          BY <1>1, <4>1, <4>2, UnlessUnparsed
      <3>3. CASE ~(Marks(t) # {} /\ s.in_reasoning)
        <4>1. r.out = <<Content(t, f)>> \/ r.out = <<Reasoning(t, f)>>
          BY <3>1, <3>3 DEF Route, Forwards
        <4> QED
          BY <4>1, UnparsedOne
      <3> QED
        BY <3>2, <3>3
    <2>3. CASE ~s.decided /\ Decides(held, f)
      <3>1. r = Decide(held, b, f)
        BY <1>3, <2>3 DEF SplitChoice, r
      <3> HIDE DEF b, held, body
      <3>2. CASE ~HasPrefix(b)
        <4>1. r.out = <<Content(b, f)>>
          BY <3>1, <3>2 DEF Decide, Forwards
        <4> QED
          BY <4>1, UnparsedOne
      <3>3. CASE HasPrefix(b) /\ Marks(body) = {}
        <4>1. r.out = Unless(body = <<>>, Reasoning(body, "none"))
          BY <3>1, <3>3 DEF Decide, Forwards, body
        <4> QED
          BY <4>1, UnparsedOne DEF Unless
      <3>4. CASE HasPrefix(b) /\ Marks(body) # {}
        <4>1. r.out = Unless(Strip(Before(body)) = <<>>, Reasoning(Strip(Before(body)), "none"))
                      \o Unless(After(body) = <<>>, Content(After(body), f))
          BY <3>1, <3>4 DEF Decide, Forwards, body
        <4>2. body \in Seq(Piece)
          BY <2>1, <3>4, PrefixKeepsWords DEF body
        <4>3. Before(body) \in Seq(Piece) /\ After(body) \in Seq(Piece)
          BY <3>4, <4>2, MarkKeepsWords
        <4>4. Strip(Before(body)) \in Seq(Piece)
          BY <4>3, StripKeepsWords
        <4> QED
          BY <1>1, <4>1, <4>3, <4>4, UnlessUnparsed
      <3> QED
        BY <3>2, <3>3, <3>4
    <2>4. CASE ~s.decided /\ ~Decides(held, f)
      <3>1. r.out = <<>>
        BY <1>3, <2>4 DEF SplitChoice, Forwards, r
      <3> QED
        BY <3>1, UnparsedOne
    <2> QED
      BY <2>2, <2>3, <2>4
  <1> QED
    BY <1>2, <1>3 DEF r

\* c overtakes no held word.
InTime(c) ==
    \/ c.content # None \/ Text(c) = <<>>
    \/ Words(recovery.buffer) = <<>> /\ Words(split.buffer) = <<>> /\ c.finish = "none"

LEMMA ThroughSplitSound ==
    ASSUME ChainOK, NEW c, Plain(c)
    PROVE  LET parts == ThroughSplit(c)
           IN  /\ SplitOK(parts.state) /\ (~splits => parts.state = SplitStart) /\ Parts(parts.out)
               /\ splits /\ Shut(parts.state) => Shut(split) /\ Closed(parts.out)
               /\ c.content = None => parts.out = <<c>>
               /\ ~c.parsed => Unparsed(parts.out)
               /\ Count("call", TextOf(parts.out)) + Count("call", parts.state.buffer)
                  = Count("call", split.buffer) + Count("call", Text(c))
               /\ InTime(c) =>
                     /\ Ordered(recovery, parts.out)
                     /\ Words(TextOf(parts.out) \o parts.state.buffer) = Words(split.buffer \o Text(c))
  <1> DEFINE parts == ThroughSplit(c)
  <1>1. c \in Choice /\ Text(c) \in Seq(Piece) /\ split.buffer \in Seq(Piece) /\ SplitOK(split)
    BY TextType DEF Plain, Delta, ChainOK, SplitOK, SplitStates
  <1>2. CASE c.content = None \/ ~splits
    <2>1. parts.out = <<c>> /\ parts.state = split
      <3>1. CASE ~splits
        BY <3>1 DEF ThroughSplit, Forwards
      <3>2. CASE splits
        BY <1>1, <1>2, <3>2, SplitSound DEF ThroughSplit
      <3> QED
        BY <3>1, <3>2
    <2> HIDE DEF parts
    <2>2. Parts(<<c>>) /\ TextOf(<<c>>) = Text(c)
      BY OnePart
    <2>3. splits /\ Shut(split) => Closed(<<c>>)
      BY <1>2, ClosedOne
    <2>4. ~c.parsed => Unparsed(<<c>>)
      BY UnparsedOne
    <2>5. Count("call", Text(c)) + Count("call", split.buffer) = Count("call", split.buffer) + Count("call", Text(c))
      <3>1. Count("call", Text(c)) \in Nat /\ Count("call", split.buffer) \in Nat
        BY <1>1, CountType
      <3> QED
        BY <3>1
    <2>6. ~splits => Words(split.buffer) = <<>>
      BY WordsEmpty DEF ChainOK, SplitStart
    <2>7. ASSUME InTime(c)
          PROVE  /\ Ordered(recovery, <<c>>)
                 /\ Words(Text(c) \o split.buffer) = Words(split.buffer \o Text(c))
      <3>1. Words(split.buffer) = <<>> \/ Words(Text(c)) = <<>>
        BY <1>2, <2>6, <2>7, WordsEmpty DEF InTime
      <3>2. Words(Text(c) \o split.buffer) = Words(split.buffer \o Text(c))
        BY <1>1, <3>1, Commute
      <3>3. InOrder(recovery, c)
        BY <2>7 DEF InTime, InOrder
      <3> QED
        BY <3>2, <3>3 DEF Ordered
    <2>8. SplitOK(split) /\ (~splits => split = SplitStart)
      BY DEF ChainOK
    <2>9. /\ SplitOK(parts.state) /\ (~splits => parts.state = SplitStart) /\ Parts(parts.out)
          /\ splits /\ Shut(parts.state) => Shut(split) /\ Closed(parts.out)
          /\ c.content = None => parts.out = <<c>>
          /\ ~c.parsed => Unparsed(parts.out)
      BY <2>1, <2>2, <2>3, <2>4, <2>8
    <2> QED
      BY <2>1, <2>2, <2>5, <2>7, <2>9 DEF parts
  <1>3. CASE c.content # None /\ splits
    <2>1. parts = SplitChoice(split, c)
      BY <1>3 DEF ThroughSplit
    <2>2. /\ SplitOK(parts.state) /\ Parts(parts.out)
          /\ Shut(parts.state) => Shut(split) /\ Closed(parts.out)
          /\ Words(TextOf(parts.out) \o parts.state.buffer) = Words(split.buffer \o Text(c))
          /\ ~Shut(split) => parts.out = <<Content(c.content, c.finish)>>
      BY <1>1, <1>3, <2>1, SplitSound
    <2>3. ~c.parsed => Unparsed(parts.out)
      BY <1>1, <2>1, SplitUnparsed
    <2> HIDE DEF parts
    <2>4. TextOf(parts.out) \in Seq(Piece) /\ parts.state.buffer \in Seq(Piece)
      BY <2>2, PlainPasses DEF SplitOK, SplitStates
    <2>5. Count("call", TextOf(parts.out)) + Count("call", parts.state.buffer)
          = Count("call", split.buffer) + Count("call", Text(c))
      <3> DEFINE a == TextOf(parts.out)
                 b == parts.state.buffer
                 s == split.buffer
                 t == Text(c)
      <3>1. /\ a \in Seq(Piece) /\ b \in Seq(Piece) /\ s \in Seq(Piece) /\ t \in Seq(Piece)
            /\ Words(a \o b) = Words(s \o t)
        BY <1>1, <2>2, <2>4
      <3> HIDE DEF a, b, s, t
      <3>2. Count("call", a) + Count("call", b) = Count("call", s) + Count("call", t)
        BY <3>1, SameWords
      <3> QED
        BY <3>2 DEF a, b, s, t
    <2>6. Ordered(recovery, parts.out)
      <3>1. CASE Shut(split)
        BY <1>3, <3>1 DEF ChainOK, Ordered
      <3>2. CASE ~Shut(split)
        <4>1. c.content \in Seq(Piece) /\ c.finish \in Finish
          BY <1>1, <1>3 DEF Choice
        <4>2. Content(c.content, c.finish).content # None
          BY <4>1, <1>3, ContentChoice
        <4> QED
          BY <2>2, <3>2, <4>2 DEF Ordered, InOrder
      <3> QED
        BY <3>1, <3>2
    <2> QED
      BY <1>3, <2>2, <2>3, <2>5, <2>6 DEF parts
  <1> QED
    BY <1>2, <1>3 DEF ChainOK

\* What one chunk does to the chain: no call passes twice, no word is lost, and
\* none overtakes another.
LEMMA ChainSound ==
    ASSUME ChainOK, NEW c, Plain(c)
    PROVE  LET parts == ThroughSplit(c)
               shown == ThroughRecovery(parts.out)
           IN  /\ SplitOK(parts.state) /\ (~splits => parts.state = SplitStart)
               /\ shown.state \in RecoveryStates /\ (~recovers => shown.state = RecoveryStart)
               /\ splits /\ Shut(parts.state) => shown.state.buffer = <<>>
               /\ shown.out \in Seq(Fragment) /\ Len(shown.out) \in 0 .. 2
               /\ Passed(shown.out) + Count("call", shown.state.buffer) + Count("call", parts.state.buffer)
                  <= Count("call", recovery.buffer) + Count("call", split.buffer) + Count("call", Text(c))
               /\ ~c.parsed /\ Faithful(recovery) => Faithful(shown.state)
               /\ c.content = None => shown.out # <<>>
               /\ ((Faithful(recovery) /\ ~c.parsed) \/ shown.out = <<>>) /\ CallsIn(shown.out) = 0 /\ InTime(c) =>
                     Words((TextOf(shown.out) \o shown.state.buffer) \o parts.state.buffer)
                     = Words((recovery.buffer \o split.buffer) \o Text(c))
  <1> DEFINE parts == ThroughSplit(c)
             shown == ThroughRecovery(parts.out)
  <1>1. /\ SplitOK(parts.state) /\ (~splits => parts.state = SplitStart) /\ Parts(parts.out)
        /\ splits /\ Shut(parts.state) => Shut(split) /\ Closed(parts.out)
        /\ c.content = None => parts.out = <<c>>
        /\ ~c.parsed => Unparsed(parts.out)
        /\ Count("call", TextOf(parts.out)) + Count("call", parts.state.buffer)
           = Count("call", split.buffer) + Count("call", Text(c))
        /\ InTime(c) =>
              /\ Ordered(recovery, parts.out)
              /\ Words(TextOf(parts.out) \o parts.state.buffer) = Words(split.buffer \o Text(c))
    BY ThroughSplitSound
  <1> HIDE DEF parts
  <1>2. CarriesAll(recovery, parts.out, shown) /\ (~recovers => shown.state = RecoveryStart)
    BY <1>1, ThroughRecoverySound
  <1> HIDE DEF shown
  <1>3. splits /\ Shut(parts.state) => shown.state.buffer = <<>>
    BY <1>1, <1>2 DEF CarriesAll, ChainOK
  <1>4. c.content = None => shown.out # <<>>
    <2>1. c.content = None => Closed(parts.out) /\ parts.out # <<>>
      <3> SUFFICES ASSUME c.content = None
                   PROVE  Closed(parts.out) /\ parts.out # <<>>
        OBVIOUS
      <3>1. parts.out = <<c>>
        BY <1>1
      <3>2. <<c>> # <<>>
        OBVIOUS
      <3>3. Closed(<<c>>)
        BY ClosedOne
      <3> QED
        BY <3>1, <3>2, <3>3
    <2> QED
      BY <1>2, <2>1 DEF CarriesAll
  <1>5. /\ recovery.buffer \in Seq(Piece) /\ split.buffer \in Seq(Piece) /\ Text(c) \in Seq(Piece)
        /\ parts.state.buffer \in Seq(Piece) /\ shown.state.buffer \in Seq(Piece)
        /\ TextOf(parts.out) \in Seq(Piece) /\ TextOf(shown.out) \in Seq(Piece)
    <2>1. recovery.buffer \in Seq(Piece) /\ split.buffer \in Seq(Piece) /\ Text(c) \in Seq(Piece)
      BY TextType DEF ChainOK, SplitOK, SplitStates, RecoveryStates, Plain, Delta
    <2>2. parts.state.buffer \in Seq(Piece) /\ shown.state.buffer \in Seq(Piece)
      BY <1>1, <1>2 DEF SplitOK, SplitStates, RecoveryStates, CarriesAll
    <2>3. TextOf(parts.out) \in Seq(Piece)
      BY <1>1, PlainPasses
    <2>4. shown.out \in Seq(Choice)
      BY <1>2, Fragments DEF CarriesAll
    <2> QED
      BY <2>1, <2>2, <2>3, <2>4, TextOfOut
  <1>6. Passed(shown.out) + Count("call", shown.state.buffer) + Count("call", parts.state.buffer)
        <= Count("call", recovery.buffer) + Count("call", split.buffer) + Count("call", Text(c))
    <2>1. /\ Count("call", recovery.buffer) \in Nat /\ Count("call", split.buffer) \in Nat
          /\ Count("call", Text(c)) \in Nat /\ Count("call", parts.state.buffer) \in Nat
          /\ Count("call", shown.state.buffer) \in Nat /\ Count("call", TextOf(parts.out)) \in Nat
      BY <1>5, CountType
    <2>2. Passed(shown.out) \in Nat
      <3>1. shown.out \in Seq(Choice)
        BY <1>2, Fragments DEF CarriesAll
      <3>2. CallsIn(shown.out) \in Nat /\ Count("call", TextOf(shown.out)) \in Nat
        BY <1>5, <3>1, CallsInOut, CountType
      <3> QED
        BY <3>2 DEF Passed
    <2>3. Passed(shown.out) + Count("call", shown.state.buffer)
          <= Count("call", recovery.buffer) + Count("call", TextOf(parts.out))
      BY <1>2 DEF CarriesAll
    <2>4. Count("call", TextOf(parts.out)) + Count("call", parts.state.buffer)
          = Count("call", split.buffer) + Count("call", Text(c))
      BY <1>1
    <2> QED
      BY <2>1, <2>2, <2>3, <2>4
  <1>7. ASSUME (Faithful(recovery) /\ ~c.parsed) \/ shown.out = <<>>, CallsIn(shown.out) = 0, InTime(c)
        PROVE  Words((TextOf(shown.out) \o shown.state.buffer) \o parts.state.buffer)
               = Words((recovery.buffer \o split.buffer) \o Text(c))
    <2> DEFINE s0 == split.buffer
               t == Text(c)
               p == TextOf(parts.out)
               s1 == parts.state.buffer
               q0 == recovery.buffer
               o == TextOf(shown.out)
               q1 == shown.state.buffer
    <2>1. Words(Cat(p, s1)) = Words(Cat(s0, t))
      BY <1>1, <1>7 DEF Cat
    <2>2. Words(Cat(o, q1)) = Words(Cat(q0, p))
      BY <1>1, <1>2, <1>7 DEF Cat, CarriesAll
    <2>3. /\ s0 \in Seq(Piece) /\ t \in Seq(Piece) /\ p \in Seq(Piece) /\ s1 \in Seq(Piece)
          /\ q0 \in Seq(Piece) /\ o \in Seq(Piece) /\ q1 \in Seq(Piece)
      BY <1>5
    <2> HIDE DEF s0, t, p, s1, q0, o, q1
    <2>4. Words(Cat(Cat(o, q1), s1)) = Words(Cat(Cat(q0, s0), t))
      <3>2. Words(Cat(Cat(o, q1), s1)) = Cat(Words(Cat(o, q1)), Words(s1))
        BY <2>3, Regroup
      <3>3. Words(Cat(Cat(q0, p), s1)) = Cat(Words(Cat(q0, p)), Words(s1))
        BY <2>3, Regroup
      <3>4. Words(Cat(Cat(q0, p), s1)) = Cat(Words(q0), Words(Cat(p, s1)))
        BY <2>3, Regroup
      <3>5. Words(Cat(Cat(q0, s0), t)) = Cat(Words(q0), Words(Cat(s0, t)))
        BY <2>3, Regroup
      <3> QED
        BY <2>1, <2>2, <3>2, <3>3, <3>4, <3>5
    <2> QED
      BY <2>4 DEF Cat, s0, t, p, s1, q0, o, q1
  <1>8. ~c.parsed /\ Faithful(recovery) => Faithful(shown.state)
    BY <1>1, <1>2 DEF CarriesAll
  <1>9. shown.state \in RecoveryStates /\ shown.out \in Seq(Fragment) /\ Len(shown.out) \in 0 .. 2
    BY <1>2 DEF CarriesAll
  <1> QED
    BY <1>1, <1>2, <1>3, <1>4, <1>6, <1>7, <1>8, <1>9 DEF parts, shown

-----------------------------------------------------------------------------
(* The end of the stream                                                   *)

\* What stream_rewriter flushes at [DONE].
AtDone == IF splits THEN SplitDone(split) ELSE <<>>

\* It is all that the stage holds, in one choice.
LEMMA SplitDoneSound ==
    ASSUME ChainOK
    PROVE  /\ Parts(AtDone) /\ Len(AtDone) \in 0 .. 1 /\ Unparsed(AtDone)
           /\ TextOf(AtDone) = split.buffer /\ split.buffer \in Seq(Piece)
           /\ Ordered(recovery, AtDone)
  <1>1. split.buffer \in Seq(Piece) /\ (~splits \/ split.decided => split.buffer = <<>>)
    BY DEF ChainOK, SplitOK, SplitStates, SplitStart
  <1> DEFINE x == Content(split.buffer, "none")
  <1>2. /\ Plain(x) /\ x.content = split.buffer /\ Text(x) = split.buffer /\ ~x.parsed
        /\ split.buffer # None
    BY <1>1, ContentChoice DEF Finish
  <1>3. CASE split.buffer = <<>>
    <2>1. AtDone = <<>>
      BY <1>1, <1>3 DEF AtDone, SplitDone, Unless
    <2>2. Parts(<<>>) /\ TextOf(<<>>) = <<>> /\ Unparsed(<<>>) /\ Len(<<>>) = 0
      BY NoParts, UnparsedOne
    <2> QED
      BY <1>1, <1>3, <2>1, <2>2 DEF Ordered
  <1>4. CASE split.buffer # <<>>
    <2>1. AtDone = <<x>>
      BY <1>1, <1>4 DEF AtDone, SplitDone, Unless
    <2> HIDE DEF x
    <2>2. Parts(<<x>>) /\ TextOf(<<x>>) = Text(x) /\ Unparsed(<<x>>) /\ Len(<<x>>) = 1
      BY <1>2, OnePart, UnparsedOne
    <2>3. Ordered(recovery, <<x>>)
      BY <1>2 DEF Ordered, InOrder
    <2> QED
      BY <1>1, <1>2, <2>1, <2>2, <2>3
  <1> QED
    BY <1>3, <1>4

\* stream_tool_recovery makes one choice of one at most.
LEMMA RecoversOne ==
    ASSUME ChainOK, NEW out, Parts(out), Len(out) \in 0 .. 1
    PROVE  Len(ThroughRecovery(out).out) \in 0 .. 1
  <1>1. CASE ~recovers
    BY <1>1 DEF ThroughRecovery, Forwards
  <1>2. CASE recovers
    <2>1. recovery \in RecoveryStates
      BY DEF ChainOK
    <2>2. CASE Len(out) = 0
      <3>1. ThroughRecovery(out) = Forwards(recovery, <<>>)
        BY <1>2, <2>2, ThroughRecoveryIs
      <3> QED
        BY <3>1 DEF Forwards
    <2>3. CASE Len(out) = 1
      <3>1. ThroughRecovery(out) = Further(Forwards(recovery, <<>>), out[1])
        BY <1>2, <2>3, ThroughRecoveryIs
      <3>2. Plain(out[1])
        <4>1. CASE out = <<>>
          BY <2>3, <4>1
        <4>2. CASE \E x : Plain(x) /\ out = <<x>>
          BY <4>2
        <4>3. CASE \E x, y : Plain(x) /\ Plain(y) /\ out = <<x, y>>
          BY <4>3
        <4> QED
          BY <4>1, <4>2, <4>3 DEF Parts
      <3> DEFINE r == RecoverChoice(recovery, out[1])
      <3>3. Further(Forwards(recovery, <<>>), out[1]) = Forwards(r.state, r.out)
        BY <2>1, <3>2, AllOfOne
      <3>4. Single(r.out)
        BY <2>1, <3>2, RecoverChoiceSound DEF Carries
      <3> HIDE DEF r
      <3>5. Len(r.out) \in 0 .. 1
        BY <3>4, Fragments
      <3> QED
        BY <3>1, <3>3, <3>5 DEF Forwards
    <2> QED
      BY <2>2, <2>3
  <1> QED
    BY <1>1, <1>2

\* stream_tool_recovery flushes all that it holds, unless a parsed call has
\* overtaken it, and as text.
LEMMA RecoveryDoneSound ==
    ASSUME NEW q \in RecoveryStates
    PROVE  LET r == RecoveryDone(q)
           IN  /\ r.state \in RecoveryStates /\ Single(r.out)
               /\ Passed(r.out) + Count("call", r.state.buffer) <= Count("call", q.buffer)
               /\ CallsIn(r.out) = 0
               /\ Faithful(q) => Faithful(r.state) /\ TextOf(r.out) = q.buffer
  <1> DEFINE y == Content(q.buffer, "stop")
             r == RecoveryDone(q)
  <1>1. q.buffer \in Seq(Piece) /\ q.decision \in {"deciding", "passthrough", "buffering"}
    BY DEF RecoveryStates
  <1>2. Count("call", q.buffer) \in Nat /\ Count("call", <<>>) = 0
    BY <1>1, CountType, CountEmpty
  <1>3. CASE q.buffer = <<>> \/ q.decision = "passthrough"
    <2>1. r.state = q /\ r.out = <<>>
      BY <1>3 DEF RecoveryDone, Forwards
    <2> HIDE DEF r
    <2>2. Faithful(q) => q.buffer = <<>>
      BY <1>3 DEF Faithful
    <2> QED
      BY <1>2, <2>1, <2>2, NothingPasses DEF r
  <1>4. CASE ~(q.buffer = <<>> \/ q.decision = "passthrough")
    <2>1. r.state = Passing(q) /\ r.out = <<y>>
      BY <1>4 DEF RecoveryDone, Forwards
    <2>2. Passing(q) \in RecoveryStates /\ Passing(q).buffer = <<>>
      <3>1. <<>> \in Seq(Piece)
        OBVIOUS
      <3> QED
        BY <3>1 DEF Passing, Emptied, RecoveryStates
    <2>3. Delta(y) /\ Text(y) = q.buffer /\ y.recovered = 0
      BY <1>1, ContentChoice DEF Plain, Finish
    <2> HIDE DEF r, y
    <2>4. /\ Single(<<y>>) /\ TextOf(<<y>>) = q.buffer /\ CallsIn(<<y>>) = 0
          /\ Passed(<<y>>) = 0 + Count("call", q.buffer)
      BY <2>3, SingleOne
    <2>5. Faithful(Passing(q))
      BY <2>2 DEF Faithful
    <2> QED
      BY <1>2, <2>1, <2>2, <2>4, <2>5 DEF r
  <1> QED
    BY <1>3, <1>4

-----------------------------------------------------------------------------
(* What the client reads                                                   *)

\* Two deltas that are joined say together what they said, and call nothing.
LEMMA JoinedSound ==
    ASSUME NEW a \in Fragment, NEW b \in Fragment, Joins(a, b)
    PROVE  /\ Joined(a, b) \in Fragment /\ Text(Joined(a, b)) = Text(a) \o Text(b)
           /\ a.recovered = 0 /\ b.recovered = 0 /\ Joined(a, b).recovered = 0
  <1>1. /\ a \in Choice /\ b \in Choice /\ Delta(a) /\ Delta(b)
        /\ a.recovered = 0 /\ b.recovered = 0 /\ ~b.parsed
    BY DEF Fragment, Joins
  <1>2. PICK ar \in Seq(Piece), br \in Seq(Piece) : ar = a.reasoning /\ br = b.reasoning
    BY <1>1 DEF Choice
  <1>3. ar \o br \in Seq(Piece)
    BY <1>2
  <1>4. CASE a.content # None /\ b.content # None
    <2>1. PICK s \in Seq(Piece), t \in Seq(Piece) : s = a.content /\ t = b.content
      BY <1>1, <1>4 DEF Choice
    <2>2. ar = <<>> /\ br = <<>>
      BY <1>1, <1>2, <1>4 DEF Delta
    <2>3. s \o t \in Seq(Piece) /\ <<>> \o s = s /\ <<>> \o t = t /\ <<>> \o (s \o t) = s \o t
          /\ <<>> \o <<>> = <<>> /\ <<>> \in Seq(Piece)
      OBVIOUS
    <2> DEFINE u == s \o t
    <2>4. Joined(a, b) = [b EXCEPT !.reasoning = <<>>, !.content = u]
      BY <1>2, <1>4, <2>1, <2>2, <2>3 DEF Joined
    <2>5. u \in Seq(Piece) /\ u # None /\ <<>> \o u = u
      BY <2>3, RewriterAssumption DEF RewriterAssumption
    <2> HIDE DEF u
    <2>6. Joined(a, b) \in Choice
      BY <1>1, <2>3, <2>4, <2>5 DEF Choice
    <2>7. /\ Joined(a, b).content = u /\ Joined(a, b).reasoning = <<>>
          /\ Joined(a, b).recovered = 0 /\ ~Joined(a, b).parsed
      BY <1>1, <2>4 DEF Choice
    <2>8. Text(Joined(a, b)) = u /\ Text(a) = s /\ Text(b) = t
      BY <1>2, <1>4, <2>1, <2>2, <2>3, <2>5, <2>7 DEF Text
    <2> QED
      BY <1>1, <2>6, <2>7, <2>8 DEF Fragment, Delta, u
  <1>5. CASE a.reasoning # <<>> /\ b.reasoning # <<>>
    <2>1. a.content = None /\ b.content = None
      BY <1>1, <1>5 DEF Delta
    <2> DEFINE u == ar \o br
    <2>2. Joined(a, b) = [b EXCEPT !.reasoning = u]
      BY <1>1, <1>2, <2>1 DEF Joined, Choice
    <2>3. u \in Seq(Piece) /\ u \o <<>> = u /\ ar \o <<>> = ar /\ br \o <<>> = br
      BY <1>3
    <2> HIDE DEF u
    <2>4. Joined(a, b) \in Choice
      BY <1>1, <2>2, <2>3 DEF Choice
    <2>5. /\ Joined(a, b).content = None /\ Joined(a, b).reasoning = u
          /\ Joined(a, b).recovered = 0 /\ ~Joined(a, b).parsed
      BY <1>1, <2>1, <2>2 DEF Choice
    <2>6. Text(Joined(a, b)) = u /\ Text(a) = ar /\ Text(b) = br
      BY <1>2, <2>1, <2>3, <2>5 DEF Text
    <2> QED
      BY <1>1, <2>4, <2>5, <2>6 DEF Fragment, Delta, u
  <1> QED
    BY <1>4, <1>5 DEF Joins

\* A delta that joins the last, or does not, adds its text and its calls.
LEMMA ReadSound ==
    ASSUME NEW g \in Seq(Fragment), NEW c \in Fragment
    PROVE  /\ Read(g, c) \in Seq(Fragment)
           /\ TextOf(Read(g, c)) = TextOf(g) \o Text(c)
           /\ CallsIn(Read(g, c)) = CallsIn(g) + c.recovered
  <1>1. g \in Seq(Choice) /\ c \in Choice
    BY Fragments DEF Fragment
  <1>2. CASE g # <<>> /\ Joins(Last(g), c)
    <2>1. PICK f \in Seq(Fragment), l \in Fragment :
             f = Front(g) /\ l = Last(g) /\ g = f \o <<l>>
      BY <1>2, FrontAndLast
    <2>2. f \in Seq(Choice) /\ l \in Choice
      BY Fragments DEF Fragment
    <2> DEFINE j == Joined(l, c)
    <2>3. /\ j \in Fragment /\ j \in Choice /\ Text(j) = Text(l) \o Text(c)
          /\ l.recovered = 0 /\ c.recovered = 0 /\ j.recovered = 0
      BY <1>2, <2>1, JoinedSound DEF Fragment
    <2>4. Read(g, c) = Append(f, j)
      BY <1>2, <2>1 DEF Read
    <2> HIDE DEF j
    <2>5. Append(f, j) = f \o <<j>> /\ Append(f, j) \in Seq(Fragment)
      BY <2>3
    <2>6. <<j>> \in Seq(Choice) /\ <<l>> \in Seq(Choice)
      BY <2>2, <2>3
    <2>7. TextOf(f \o <<j>>) = TextOf(f) \o TextOf(<<j>>) /\ TextOf(<<j>>) = Text(j)
      BY <2>2, <2>3, <2>6, TextOfOut
    <2>8. TextOf(f \o <<l>>) = TextOf(f) \o TextOf(<<l>>) /\ TextOf(<<l>>) = Text(l)
      BY <2>2, <2>6, TextOfOut
    <2>9. CallsIn(f \o <<j>>) = CallsIn(f) + CallsIn(<<j>>) /\ CallsIn(<<j>>) = 0
      BY <2>2, <2>3, <2>6, CallsInOut
    <2>10. CallsIn(f \o <<l>>) = CallsIn(f) + CallsIn(<<l>>) /\ CallsIn(<<l>>) = 0
      BY <2>2, <2>3, <2>6, CallsInOut
    <2>11. TextOf(f) \in Seq(Piece) /\ Text(l) \in Seq(Piece) /\ Text(c) \in Seq(Piece)
           /\ CallsIn(f) \in Nat /\ CallsIn(f) + 0 = CallsIn(f)
      BY <1>1, <2>2, TextOfOut, CallsInOut, TextType
    <2>12. TextOf(f) \o (Text(l) \o Text(c)) = (TextOf(f) \o Text(l)) \o Text(c)
      <3>1. PICK x \in Seq(Piece), y \in Seq(Piece), z \in Seq(Piece) :
               x = TextOf(f) /\ y = Text(l) /\ z = Text(c)
        BY <2>11, Zenon
      <3>2. (x \o y) \o z = x \o (y \o z)
        BY ConcatAssociative, SMTT(30)
      <3> QED
        BY <3>1, <3>2
    <2>13. TextOf(Read(g, c)) = TextOf(g) \o Text(c)
      <3>1. TextOf(Read(g, c)) = TextOf(f) \o (Text(l) \o Text(c))
        BY ONLY <2>3, <2>4, <2>5, <2>7
      <3>2. TextOf(g) = TextOf(f) \o Text(l)
        BY ONLY <2>1, <2>8
      <3> QED
        BY ONLY <2>12, <3>1, <3>2
    <2>14. CallsIn(Read(g, c)) = CallsIn(g) + c.recovered
      BY <2>1, <2>3, <2>4, <2>5, <2>9, <2>10, <2>11
    <2> QED
      BY <2>4, <2>5, <2>13, <2>14
  <1>3. CASE ~(g # <<>> /\ Joins(Last(g), c))
    <2>1. Read(g, c) = Append(g, c)
      BY <1>3 DEF Read
    <2>2. Append(g, c) = g \o <<c>> /\ Append(g, c) \in Seq(Fragment) /\ <<c>> \in Seq(Choice)
      BY <1>1
    <2>3. TextOf(g \o <<c>>) = TextOf(g) \o TextOf(<<c>>) /\ TextOf(<<c>>) = Text(c)
      BY <1>1, <2>2, TextOfOut
    <2>4. CallsIn(g \o <<c>>) = CallsIn(g) + CallsIn(<<c>>) /\ CallsIn(<<c>>) = c.recovered
      BY <1>1, <2>2, CallsInOut
    <2> QED
      BY <2>1, <2>2, <2>3, <2>4
  <1> QED
    BY <1>2, <1>3

\* The same of up to two deltas.
LEMMA ReadsSound ==
    ASSUME got \in Seq(Fragment), NEW out \in Seq(Fragment), Len(out) \in 0 .. 2
    PROVE  /\ Reads(out) \in Seq(Fragment)
           /\ TextOf(Reads(out)) = TextOf(got) \o TextOf(out)
           /\ CallsIn(Reads(out)) = CallsIn(got) + CallsIn(out)
  <1>1. got \in Seq(Choice) /\ TextOf(got) \in Seq(Piece) /\ CallsIn(got) \in Nat
    BY Fragments, TextOfOut, CallsInOut
  <1>2. CASE Len(out) = 0
    <2>1. out = <<>> /\ Reads(out) = got
      BY <1>2, ReadsIs, EmptySeq
    <2>2. TextOf(got) \o <<>> = TextOf(got)
      BY <1>1, ConcatEmptySeq
    <2> QED
      BY <1>1, <2>1, <2>2, TextOfOut, CallsInOut
  <1>3. CASE Len(out) = 1
    <2>1. PICK x \in Fragment : x = out[1]
      BY <1>3
    <2>2. out = <<x>> /\ Reads(out) = Read(got, x) /\ x \in Choice
      BY <1>3, <2>1, ReadsIs DEF Fragment
    <2> QED
      BY <2>2, ReadSound, TextOfOut, CallsInOut, ZenonT(40)
  <1>4. CASE Len(out) = 2
    <2>1. PICK x \in Fragment, y \in Fragment : x = out[1] /\ y = out[2]
      <3>1. out[1] \in Fragment
        BY <1>4, ElementOfSeq
      <3>2. out[2] \in Fragment
        BY <1>4, ElementOfSeq
      <3> QED
        BY <3>1, <3>2
    <2>2. out = <<x, y>> /\ Reads(out) = Read(Read(got, x), y)
      BY <1>4, <2>1, ReadsIs
    <2>3. x \in Choice /\ y \in Choice /\ <<x>> \in Seq(Choice) /\ <<y>> \in Seq(Choice)
      BY DEF Fragment
    <2> DEFINE r == Read(got, x)
    <2>4. r \in Seq(Fragment) /\ TextOf(r) = TextOf(got) \o Text(x) /\ CallsIn(r) = CallsIn(got) + x.recovered
      BY ReadSound
    <2> HIDE DEF r
    <2>5. /\ Read(r, y) \in Seq(Fragment) /\ TextOf(Read(r, y)) = TextOf(r) \o Text(y)
          /\ CallsIn(Read(r, y)) = CallsIn(r) + y.recovered
      BY <2>4, ReadSound
    <2>6. TextOf(<<x, y>>) = Text(x) \o Text(y)
      BY <2>3, TextOfOut
    <2>7. CallsIn(<<x, y>>) = x.recovered + y.recovered
      <3>1. <<x, y>> = <<x>> \o <<y>>
        BY Pair
      <3> QED
        BY <2>3, <3>1, CallsInOut
    <2>8. (TextOf(got) \o Text(x)) \o Text(y) = TextOf(got) \o (Text(x) \o Text(y))
      <3>1. Text(x) \in Seq(Piece) /\ Text(y) \in Seq(Piece)
        BY <2>3, TextType
      <3>2. PICK u \in Seq(Piece), v \in Seq(Piece), w \in Seq(Piece) :
               u = TextOf(got) /\ v = Text(x) /\ w = Text(y)
        BY <1>1, <3>1, Zenon
      <3>3. (u \o v) \o w = u \o (v \o w)
        BY ConcatAssociative, SMTT(30)
      <3> QED
        BY <3>2, <3>3
    <2>9. TextOf(Read(r, y)) = TextOf(got) \o TextOf(<<x, y>>)
      <3>1. TextOf(Read(r, y)) = (TextOf(got) \o Text(x)) \o Text(y)
        BY ONLY <2>4, <2>5
      <3> QED
        BY ONLY <2>6, <2>8, <3>1
    <2>10. CallsIn(Read(r, y)) = CallsIn(got) + CallsIn(<<x, y>>)
      <3>1. x.recovered \in Nat /\ y.recovered \in Nat
        BY <2>3 DEF Choice
      <3> QED
        BY <1>1, <2>4, <2>5, <2>7, <3>1
    <2> QED
      BY <2>2, <2>5, <2>9, <2>10 DEF r
  <1> QED
    BY <1>2, <1>3, <1>4

\* The text and the calls of what a client has, as Received and Calls have them.
LEMMA TextsAreFlat ==
    ASSUME NEW g \in Seq(Choice)
    PROVE  /\ FlattenSeq([i \in DOMAIN g |->
                  g[i].reasoning \o IF g[i].content = None THEN <<>> ELSE g[i].content]) = TextOf(g)
           /\ Len(FlattenSeq([i \in DOMAIN g |-> [n \in 1 .. g[i].recovered |-> "call"]])) = CallsIn(g)
  <1>1. \A i \in DOMAIN g : g[i] \in Choice
    OBVIOUS
  <1>2. [i \in DOMAIN g |->
            g[i].reasoning \o IF g[i].content = None THEN <<>> ELSE g[i].content] = Map(textOf, g)
    BY <1>1 DEF Map, textOf, Text
  <1>3. [i \in DOMAIN g |-> [n \in 1 .. g[i].recovered |-> "call"]] = Map(callsOf, g)
    BY <1>1 DEF Map, callsOf
  <1> QED
    BY <1>2, <1>3 DEF TextOf, CallsIn, FlatMap

LEMMA ReceivedIs ==
    ASSUME got \in Seq(Choice)
    PROVE  /\ Received = TextOf(got) /\ Received \in Seq(Piece)
           /\ Calls = CallsIn(got) /\ Calls \in Nat
  <1>1. Received = TextOf(got) /\ Calls = CallsIn(got)
    BY TextsAreFlat DEF Received, Calls
  <1> QED
    BY <1>1, TextOfOut, CallsInOut

LEMMA ReceivedNext ==
    ASSUME got' \in Seq(Choice)
    PROVE  /\ Received' = TextOf(got') /\ Received' \in Seq(Piece)
           /\ Calls' = CallsIn(got') /\ Calls' \in Nat
  <1>1. Received' = TextOf(got') /\ Calls' = CallsIn(got')
    BY TextsAreFlat DEF Received, Calls
  <1> QED
    BY <1>1, TextOfOut, CallsInOut

-----------------------------------------------------------------------------
(* One chunk                                                               *)

LEMMA CatWords ==
    /\ \A a, b \in Seq(Piece) : /\ Cat(a, b) \in Seq(Piece) /\ Words(a) \in Seq(Piece)
                                /\ Words(Cat(a, b)) = Cat(Words(a), Words(b))
    /\ \A a, b, c \in Seq(Piece) : Cat(Cat(a, b), c) = Cat(a, Cat(b, c))
  <1>1. \A a, b \in Seq(Piece) : /\ Cat(a, b) \in Seq(Piece) /\ Words(a) \in Seq(Piece)
                                 /\ Words(Cat(a, b)) = Cat(Words(a), Words(b))
    BY WordsConcat DEF Cat
  <1>2. ASSUME NEW a \in Seq(Piece), NEW b \in Seq(Piece), NEW c \in Seq(Piece)
        PROVE  Cat(Cat(a, b), c) = Cat(a, Cat(b, c))
    BY ConcatAssociative DEF Cat
  <1> QED
    BY <1>1, <1>2

\* What the client has, in front of what was held and has come.
LEMMA WordsInFront ==
    ASSUME NEW r \in Seq(Piece), NEW a \in Seq(Piece), NEW b \in Seq(Piece), NEW c \in Seq(Piece)
    PROVE  /\ Words(Cat(Cat(Cat(r, a), b), c)) = Cat(Words(r), Words(Cat(Cat(a, b), c)))
           /\ Cat(Words(r), Words(Cat(Cat(a, b), c))) = Cat(Words(Cat(Cat(r, a), b)), Words(c))
  <1>1. Cat(r, a) \in Seq(Piece) /\ Cat(a, b) \in Seq(Piece) /\ Cat(Cat(a, b), c) \in Seq(Piece)
    BY CatWords
  <1>2. Cat(Cat(r, a), b) = Cat(r, Cat(a, b)) /\ Cat(Cat(r, a), b) \in Seq(Piece)
    <2>1. Cat(Cat(r, a), b) = Cat(r, Cat(a, b))
      BY CatWords
    <2>2. Cat(Cat(r, a), b) \in Seq(Piece)
      BY <1>1, CatWords
    <2> QED
      BY <2>1, <2>2
  <1>3. Cat(Cat(r, Cat(a, b)), c) = Cat(r, Cat(Cat(a, b), c))
    BY <1>1, CatWords
  <1>4. Words(Cat(r, Cat(Cat(a, b), c))) = Cat(Words(r), Words(Cat(Cat(a, b), c)))
    BY <1>1, CatWords
  <1>5. Words(Cat(Cat(Cat(r, a), b), c)) = Cat(Words(Cat(Cat(r, a), b)), Words(c))
    BY <1>2, CatWords
  <1> QED
    BY <1>2, <1>3, <1>4, <1>5

\* The text of all that the client has or the stages hold, and its calls.
AllText == (Received \o recovery.buffer) \o split.buffer

AllCalls == ((Calls + Count("call", Received)) + Count("call", recovery.buffer)) + Count("call", split.buffer)

\* A chunk that goes through the chain and is written, or is not because the
\* client is gone.
LEMMA DeliverSound ==
    ASSUME pc = "stream", ChainOK, got \in Seq(Fragment), NEW c, Plain(c), Deliver(c)
    PROVE  /\ ChainOK' /\ got' \in Seq(Fragment)
           /\ pc' \in {"stream", "cancelled"} /\ client' = client
           /\ pc' = "cancelled" => got' = got
           /\ ~c.parsed /\ Faithful(recovery) => Faithful(recovery')
           /\ pc' = "stream" => AllCalls' <= AllCalls + Count("call", Text(c))
           /\ pc' = "stream" /\ Calls' = 0 => Calls = 0
           /\ pc' = "stream" /\ ~c.parsed /\ Faithful(recovery) /\ InTime(c) /\ Calls' = 0 =>
                 Words(AllText') = Words(AllText) \o Words(Text(c))
           /\ pc' = "stream" /\ client = "gone" =>
                 /\ c.content # None
                 /\ Words(recovery'.buffer \o split'.buffer)
                    = Words(recovery.buffer \o split.buffer) \o Words(Text(c))
  <1> DEFINE parts == ThroughSplit(c)
             shown == ThroughRecovery(parts.out)
             out == shown.out
  <1>1. /\ SplitOK(parts.state) /\ (~splits => parts.state = SplitStart)
        /\ shown.state \in RecoveryStates /\ (~recovers => shown.state = RecoveryStart)
        /\ splits /\ Shut(parts.state) => shown.state.buffer = <<>>
        /\ out \in Seq(Fragment) /\ Len(out) \in 0 .. 2
        /\ Passed(out) + Count("call", shown.state.buffer) + Count("call", parts.state.buffer)
           <= Count("call", recovery.buffer) + Count("call", split.buffer) + Count("call", Text(c))
        /\ ~c.parsed /\ Faithful(recovery) => Faithful(shown.state)
        /\ c.content = None => out # <<>>
        /\ ((Faithful(recovery) /\ ~c.parsed) \/ out = <<>>) /\ CallsIn(out) = 0 /\ InTime(c) =>
              Words((TextOf(out) \o shown.state.buffer) \o parts.state.buffer)
              = Words((recovery.buffer \o split.buffer) \o Text(c))
    BY ChainSound
  <1>2. /\ split' = parts.state /\ recovery' = shown.state
        /\ splits' = splits /\ recovers' = recovers /\ client' = client
        /\ \/ out = <<>> /\ UNCHANGED <<pc, got>>
           \/ out # <<>> /\ client = "connected" /\ got' = Reads(out) /\ UNCHANGED pc
           \/ out # <<>> /\ client = "gone" /\ pc' = "cancelled" /\ UNCHANGED got
    BY DEF Deliver, Written, Cancel, deployment
  <1> HIDE DEF parts, shown, out
  <1>3. ChainOK'
    BY <1>1, <1>2 DEF ChainOK
  <1>4. /\ Reads(out) \in Seq(Fragment)
        /\ TextOf(Reads(out)) = TextOf(got) \o TextOf(out)
        /\ CallsIn(Reads(out)) = CallsIn(got) + CallsIn(out)
    BY <1>1, ReadsSound
  <1>5. got' \in Seq(Fragment)
    BY <1>2, <1>4
  <1>6. /\ got \in Seq(Choice) /\ got' \in Seq(Choice) /\ out \in Seq(Choice)
    BY <1>1, <1>5, Fragments
  <1>7. /\ Received = TextOf(got) /\ Received \in Seq(Piece)
        /\ Calls = CallsIn(got) /\ Calls \in Nat
        /\ Received' = TextOf(got') /\ Received' \in Seq(Piece)
        /\ Calls' = CallsIn(got') /\ Calls' \in Nat
        /\ TextOf(out) \in Seq(Piece) /\ CallsIn(out) \in Nat
    BY <1>6, ReceivedIs, ReceivedNext, TextOfOut, CallsInOut
  <1>8. ASSUME pc' = "stream"
        PROVE  /\ Received' = Received \o TextOf(out) /\ Calls' = Calls + CallsIn(out)
    <2>1. CASE out = <<>>
      <3>1. got' = got
        BY <1>2, <2>1
      <3>2. TextOf(out) = <<>> /\ CallsIn(out) = 0
        BY <2>1, TextOfOut, CallsInOut
      <3>3. Received \o <<>> = Received
        BY <1>7, ConcatEmptySeq
      <3> QED
        BY <1>7, <3>1, <3>2, <3>3
    <2>2. CASE out # <<>>
      <3>1. got' = Reads(out)
        BY <1>2, <1>8, <2>2
      <3> QED
        BY <1>4, <1>7, <3>1
    <2> QED
      BY <2>1, <2>2
  <1>9. /\ recovery.buffer \in Seq(Piece) /\ split.buffer \in Seq(Piece)
        /\ recovery'.buffer \in Seq(Piece) /\ split'.buffer \in Seq(Piece) /\ Text(c) \in Seq(Piece)
    BY <1>3, TextType DEF ChainOK, SplitOK, SplitStates, RecoveryStates, Plain, Delta
  <1>10. ASSUME pc' = "stream"
         PROVE  AllCalls' <= AllCalls + Count("call", Text(c))
    <2>1. Count("call", Received') = Count("call", Received) + Count("call", TextOf(out))
      <3>1. PICK u \in Seq(Piece), v \in Seq(Piece) : u = Received /\ v = TextOf(out)
        BY <1>7, Zenon
      <3>2. Count("call", u \o v) = Count("call", u) + Count("call", v)
        BY CountConcat
      <3>3. Received' = Received \o TextOf(out)
        BY <1>8, <1>10
      <3> QED
        BY <3>1, <3>2, <3>3
    <2>2. /\ Count("call", Received) \in Nat /\ Count("call", TextOf(out)) \in Nat
          /\ Count("call", recovery.buffer) \in Nat /\ Count("call", split.buffer) \in Nat
          /\ Count("call", recovery'.buffer) \in Nat /\ Count("call", split'.buffer) \in Nat
          /\ Count("call", Text(c)) \in Nat
      BY <1>7, <1>9, CountType
    <2>3. CallsIn(out) + Count("call", TextOf(out)) + Count("call", recovery'.buffer) + Count("call", split'.buffer)
          <= Count("call", recovery.buffer) + Count("call", split.buffer) + Count("call", Text(c))
      BY <1>1, <1>2 DEF Passed
    <2>4. Calls' = Calls + CallsIn(out)
      BY <1>8, <1>10
    <2>5. AllCalls' = ((Calls' + Count("call", Received')) + Count("call", recovery'.buffer))
                      + Count("call", split'.buffer)
      BY DEF AllCalls, Count
    <2> DEFINE o == Count("call", TextOf(out))
               r == Count("call", Received)
               q == Count("call", recovery.buffer)
               s == Count("call", split.buffer)
               q1 == Count("call", recovery'.buffer)
               s1 == Count("call", split'.buffer)
               t == Count("call", Text(c))
               n == CallsIn(out)
    <2>6. /\ o \in Nat /\ r \in Nat /\ q \in Nat /\ s \in Nat /\ q1 \in Nat /\ s1 \in Nat
          /\ t \in Nat /\ n \in Nat /\ Calls \in Nat
          /\ n + o + q1 + s1 <= q + s + t
          /\ AllCalls' = (((Calls + n) + (r + o)) + q1) + s1
          /\ AllCalls = ((Calls + r) + q) + s
      BY <1>7, <2>1, <2>2, <2>3, <2>4, <2>5 DEF AllCalls
    <2> HIDE DEF o, r, q, s, q1, s1, t, n
    <2>7. AllCalls' <= AllCalls + t
      BY <2>6
    <2> QED
      BY <2>7 DEF t
  <1>11. ASSUME pc' = "stream", (Faithful(recovery) /\ ~c.parsed) \/ out = <<>>, InTime(c), CallsIn(out) = 0
         PROVE  /\ Words(AllText') = Words(AllText) \o Words(Text(c))
                /\ out = <<>> => Words(recovery'.buffer \o split'.buffer)
                                 = Words(recovery.buffer \o split.buffer) \o Words(Text(c))
    <2> DEFINE g == Received
               o == TextOf(out)
               q == recovery.buffer
               s == split.buffer
               q1 == recovery'.buffer
               s1 == split'.buffer
               t == Text(c)
    <2>1. Words(Cat(Cat(o, q1), s1)) = Words(Cat(Cat(q, s), t))
      BY <1>1, <1>2, <1>11 DEF Cat
    <2>2. /\ g \in Seq(Piece) /\ o \in Seq(Piece) /\ q \in Seq(Piece) /\ s \in Seq(Piece)
          /\ q1 \in Seq(Piece) /\ s1 \in Seq(Piece) /\ t \in Seq(Piece)
      BY <1>7, <1>9
    <2>3. AllText' = Cat(Cat(Cat(g, o), q1), s1) /\ AllText = Cat(Cat(g, q), s)
      BY <1>8, <1>11 DEF AllText, Cat
    <2>4. out = <<>> => o = <<>>
      BY TextOfOut
    <2> HIDE DEF g, o, q, s, q1, s1, t
    <2>5. Words(Cat(Cat(Cat(g, o), q1), s1)) = Cat(Words(g), Words(Cat(Cat(o, q1), s1)))
      BY <2>2, WordsInFront
    <2>6. Cat(Words(g), Words(Cat(Cat(q, s), t))) = Cat(Words(Cat(Cat(g, q), s)), Words(t))
      BY <2>2, WordsInFront
    <2>7. Words(AllText') = Cat(Words(AllText), Words(t))
      BY <2>1, <2>3, <2>5, <2>6
    <2>8. Words(Cat(Cat(q, s), t)) = Cat(Words(Cat(q, s)), Words(t))
      BY <2>2, Regroup
    <2>9. out = <<>> => Words(Cat(q1, s1)) = Cat(Words(Cat(q, s)), Words(t))
      <3>1. Cat(<<>>, q1) = q1
        BY <2>2, ConcatEmptySeq DEF Cat
      <3> QED
        BY <2>1, <2>4, <2>8, <3>1
    <2> QED
      BY <2>7, <2>9 DEF Cat, q, s, q1, s1, t
  <1>12. ASSUME pc' = "stream", Calls' = 0
         PROVE  Calls = 0 /\ CallsIn(out) = 0
    BY <1>7, <1>8, <1>12
  <1>13. ASSUME pc' = "stream", client = "gone"
         PROVE  /\ c.content # None
                /\ Words(recovery'.buffer \o split'.buffer)
                   = Words(recovery.buffer \o split.buffer) \o Words(Text(c))
    <2>1. out = <<>>
      BY <1>2, <1>13
    <2>2. c.content # None /\ InTime(c) /\ CallsIn(out) = 0
      BY <1>1, <2>1, CallsInOut DEF InTime
    <2> QED
      BY <1>11, <1>13, <2>1, <2>2
  <1> QED
    BY <1>1, <1>2, <1>3, <1>5, <1>10, <1>11, <1>12, <1>13

-----------------------------------------------------------------------------
(* The request's messages                                                  *)

ClientMessage == MessageOf(STRING)

\* What a client says are messages.
LEMMA ClientMessages ==
    /\ \A m \in ClientMessage : m \in Message
    /\ \A messages \in Seq(ClientMessage) : messages \in Seq(Message)
  <1>1. ASSUME NEW m \in ClientMessage
        PROVE  m \in Message
    <2>1. /\ m \in [role : {"system", "user", "assistant"}, listed : BOOLEAN, texts : Seq(Seq(STRING))]
          /\ m.listed \/ Len(m.texts) = 1
      BY DEF ClientMessage, MessageOf
    <2>2. m.texts \in Seq(Seq(STRING \cup {Block}))
      <3>1. STRING \subseteq STRING \cup {Block}
        OBVIOUS
      <3>2. Seq(STRING) \subseteq Seq(STRING \cup {Block})
        BY <3>1, SeqMonotonic
      <3>3. Seq(Seq(STRING)) \subseteq Seq(Seq(STRING \cup {Block}))
        BY <3>2, SeqMonotonic
      <3> QED
        BY <2>1, <3>3
    <2> QED
      BY <2>1, <2>2 DEF Message, MessageOf
  <1> QED
    BY <1>1

\* The block is a system prompt of its own, or in front of one.
LEMMA BlockMessage ==
    /\ [role |-> "system", listed |-> FALSE, texts |-> <<<<Block>>>>] \in Message
    /\ \A m \in Message : InFront(m) \in Message /\ InFront(m).role = m.role
  <1> DEFINE Text1 == Seq(STRING \cup {Block})
  <1>1. <<Block>> \in Text1 /\ <<<<Block>>>> \in Seq(Text1) /\ Len(<<<<Block>>>>) = 1
    OBVIOUS
  <1>2. [role |-> "system", listed |-> FALSE, texts |-> <<<<Block>>>>] \in Message
    BY <1>1 DEF Message, MessageOf
  <1>3. ASSUME NEW m \in Message
        PROVE  InFront(m) \in Message /\ InFront(m).role = m.role
    <2>1. /\ m \in [role : {"system", "user", "assistant"}, listed : BOOLEAN, texts : Seq(Text1)]
          /\ m.listed \/ Len(m.texts) = 1
      BY DEF Message, MessageOf
    <2>2. CASE m.listed
      <3>1. InFront(m) = [m EXCEPT !.texts = <<<<Block>>>> \o m.texts]
        BY <2>2 DEF InFront
      <3>2. <<<<Block>>>> \o m.texts \in Seq(Text1)
        BY <1>1, <2>1, ConcatProperties
      <3> QED
        BY <2>1, <2>2, <3>1, <3>2 DEF Message, MessageOf
    <2>3. CASE ~m.listed
      <3> DEFINE x == <<Block>> \o Head(m.texts)
      <3>1. InFront(m) = [m EXCEPT !.texts = <<x>>]
        BY <2>3 DEF InFront
      <3>2. Head(m.texts) \in Text1
        <4> HIDE DEF Text1, x
        <4>1. PICK u \in Seq(Text1) : u = m.texts /\ Len(u) = 1
          BY <2>1, <2>3
        <4>2. Head(u) = u[1] /\ u[1] \in Text1
          BY <4>1
        <4> QED
          BY <4>1, <4>2
      <3>3. x \in Text1
        BY <1>1, <3>2, ConcatProperties
      <3> HIDE DEF x
      <3>4. <<x>> \in Seq(Text1) /\ Len(<<x>>) = 1
        BY <3>3
      <3> QED
        BY <2>1, <3>1, <3>4 DEF Message, MessageOf
    <2> QED
      BY <2>2, <2>3
  <1> QED
    BY <1>2, <1>3

Systems(messages) == {i \in DOMAIN messages : messages[i].role = "system"}

\* The first system prompt, if there is one.
LEMMA FirstSystem ==
    ASSUME NEW messages \in Seq(Message), Systems(messages) # {}
    PROVE  /\ Min(Systems(messages)) \in Systems(messages)
           /\ \A i \in Systems(messages) : Min(Systems(messages)) <= i
           /\ Systems(messages) \subseteq 1 .. Len(messages)
  <1>1. Systems(messages) \in SUBSET Nat /\ Systems(messages) \subseteq 1 .. Len(messages)
    BY DEF Systems
  <1> QED
    BY <1>1, MinIsLeast

LEMMA SpliceType ==
    ASSUME NEW messages \in Seq(Message)
    PROVE  Splice(messages) \in Seq(Message)
  <1>1. CASE Systems(messages) = {}
    <2> DEFINE m == [role |-> "system", listed |-> FALSE, texts |-> <<<<Block>>>>]
    <2>1. Splice(messages) = <<m>> \o messages
      BY <1>1 DEF Splice, Systems
    <2>2. m \in Message
      BY BlockMessage
    <2> HIDE DEF m
    <2> QED
      BY <2>1, <2>2
  <1>2. CASE Systems(messages) # {}
    <2> DEFINE k == Min(Systems(messages))
    <2>1. Splice(messages) = [messages EXCEPT ![k] = InFront(messages[k])]
      BY <1>2 DEF Splice, Systems
    <2>2. k \in 1 .. Len(messages)
      BY <1>2, FirstSystem
    <2> HIDE DEF k
    <2>3. messages[k] \in Message
      BY <2>2
    <2>4. InFront(messages[k]) \in Message
      BY <2>3, BlockMessage
    <2> QED
      BY <2>1, <2>2, <2>4, ExceptSeq
  <1> QED
    BY <1>1, <1>2

LEMMA EnrichType ==
    ASSUME NEW messages \in Seq(ClientMessage), NEW chunks
    PROVE  Enrich(messages, chunks) \in Seq(Message)
  BY ClientMessages, SpliceType DEF Enrich

-----------------------------------------------------------------------------
(* An answer in one piece                                                  *)

\* split_thinking_prefix loses no word.
LEMMA SplitPrefixSound ==
    ASSUME NEW t \in Seq(Piece)
    PROVE  LET whole == SplitThinkingPrefix(t)
           IN  /\ whole[1] \in Seq(Piece) /\ whole[2] \in Seq(Piece)
               /\ Words(whole[1] \o whole[2]) = Words(t)
  <1> DEFINE body == AfterPrefix(t)
             whole == SplitThinkingPrefix(t)
  <1>1. <<>> \in Seq(Piece)
    OBVIOUS
  <1>2. CASE ~HasPrefix(t)
    <2>1. whole[1] = <<>> /\ whole[2] = t
      BY <1>2 DEF SplitThinkingPrefix
    <2> HIDE DEF whole
    <2>2. <<>> \o t = t
      BY ConcatEmptySeq
    <2> QED
      BY <1>1, <2>1, <2>2 DEF whole
  <1>3. CASE HasPrefix(t)
    <2>1. body \in Seq(Piece) /\ Words(body) = Words(t)
      BY <1>3, PrefixKeepsWords
    <2>2. CASE Marks(body) = {}
      <3>1. whole[1] = Strip(body) /\ whole[2] = <<>>
        BY <1>3, <2>2 DEF SplitThinkingPrefix
      <3> HIDE DEF whole, body
      <3>2. Strip(body) \in Seq(Piece) /\ Words(Strip(body)) = Words(body)
        BY <2>1, StripKeepsWords
      <3>3. Strip(body) \o <<>> = Strip(body)
        BY <3>2, ConcatEmptySeq
      <3> QED
        BY <1>1, <2>1, <3>1, <3>2, <3>3 DEF whole
    <2>3. CASE Marks(body) # {}
      <3> DEFINE b == Before(body)
                 a == After(body)
      <3>1. whole[1] = Strip(b) /\ whole[2] = a
        BY <1>3, <2>3 DEF SplitThinkingPrefix
      <3> HIDE DEF whole, body
      <3>2. b \in Seq(Piece) /\ a \in Seq(Piece) /\ Words(body) = Words(b) \o Words(a)
        BY <2>1, <2>3, MarkKeepsWords
      <3> HIDE DEF a, b
      <3>3. Strip(b) \in Seq(Piece) /\ Words(Strip(b)) = Words(b)
        BY <3>2, StripKeepsWords
      <3>4. Words(Strip(b) \o a) = Words(Strip(b)) \o Words(a)
        BY <3>2, <3>3, WordsConcat
      <3> QED
        BY <2>1, <3>1, <3>2, <3>3, <3>4 DEF whole
    <2> QED
      BY <2>2, <2>3
  <1> QED
    BY <1>2, <1>3

\* A message of vLLM's, whose text is content and perhaps reasoning.
Whole(c) == c \in Choice /\ c.content # None /\ c.recovered = 0

LEMMA SplitMessageSound ==
    ASSUME NEW c, Whole(c)
    PROVE  LET m == SplitMessage(c)
           IN  /\ Whole(m) /\ Words(Text(m)) = Words(Text(c))
               /\ m.finish = c.finish /\ m.parsed = c.parsed
  <1> DEFINE m == SplitMessage(c)
  <1>1. PICK t \in Seq(Piece) : t = c.content
    BY DEF Whole, Choice
  <1> DEFINE whole == SplitThinkingPrefix(t)
  <1>2. CASE c.reasoning # <<>> \/ whole[1] = <<>>
    BY <1>1, <1>2 DEF SplitMessage
  <1>3. CASE ~(c.reasoning # <<>> \/ whole[1] = <<>>)
    <2>1. m = [c EXCEPT !.reasoning = whole[1], !.content = whole[2]]
      BY <1>1, <1>3 DEF SplitMessage
    <2>2. PICK u \in Seq(Piece), v \in Seq(Piece) :
             u = whole[1] /\ v = whole[2] /\ Words(u \o v) = Words(t)
      BY SplitPrefixSound, Zenon
    <2> HIDE DEF whole, m
    <2>3. m = [c EXCEPT !.reasoning = u, !.content = v]
      BY <2>1, <2>2
    <2>4. v # None
      BY RewriterAssumption DEF RewriterAssumption
    <2>5. m \in Choice /\ m.content = v /\ m.reasoning = u /\ m.recovered = 0
          /\ m.finish = c.finish /\ m.parsed = c.parsed
      BY <2>3 DEF Whole, Choice
    <2>6. Text(m) = u \o v
      BY <2>4, <2>5 DEF Text
    <2>7. Text(c) = t
      <3>1. c.reasoning = <<>> /\ c.content # None
        BY <1>3 DEF Whole
      <3>2. <<>> \o t = t
        BY ConcatEmptySeq
      <3> QED
        BY <1>1, <3>1, <3>2 DEF Text
    <2> QED
      BY <2>2, <2>4, <2>5, <2>6, <2>7 DEF Whole, m
  <1> QED
    BY <1>2, <1>3

LEMMA RecoverMessageSound ==
    ASSUME NEW c, Whole(c)
    PROVE  LET m == RecoverMessage(c)
           IN  /\ m \in Choice
               /\ Count("call", Text(m)) + m.recovered = Count("call", Text(c))
               /\ Count("word", Text(m)) = Count("word", Text(c))
               /\ m.recovered > 0 => m.finish = "tool_calls"
               /\ m.recovered = 0 => m = c
  <1> DEFINE m == RecoverMessage(c)
  <1>1. PICK t \in Seq(Piece), r \in Seq(Piece) : t = c.content /\ r = c.reasoning
    BY DEF Whole, Choice
  <1>2. Text(c) = r \o t /\ t # None
    BY <1>1 DEF Text, Whole
  <1> DEFINE found == RecoverToolCalls(t)
  <1>3. PICK n \in Nat, d \in Seq(Piece) :
           /\ n = found.calls /\ d = found.residual
           /\ Count("call", d) + n = Count("call", t)
           /\ Count("word", d) = Count("word", t)
    BY RecoverSound, Zenon
  <1> HIDE DEF found
  <1>4. CASE c.parsed \/ n = 0
    <2>1. m = c
      BY <1>1, <1>3, <1>4 DEF RecoverMessage, found
    <2>2. Count("call", Text(c)) \in Nat
      <3>1. Text(c) \in Seq(Piece)
        BY TextType DEF Whole
      <3> QED
        BY <3>1, CountType
    <2> QED
      BY <2>1, <2>2 DEF Whole
  <1>5. CASE ~(c.parsed \/ n = 0)
    <2> DEFINE e == IF d = <<>> THEN None ELSE d
               f == IF c.finish \in {"stop", "length", "none"} THEN "tool_calls" ELSE c.finish
    <2>1. m = [c EXCEPT !.recovered = n, !.content = e, !.finish = f]
      BY <1>1, <1>3, <1>5 DEF RecoverMessage, found
    <2>2. e \in Seq(Piece) \cup {None} /\ d # None
      BY RewriterAssumption DEF RewriterAssumption
    <2>3. f = "tool_calls"
      BY DEF Whole, Choice, Finish
    <2> HIDE DEF f, m
    <2>4. /\ m \in Choice /\ m.content = e /\ m.reasoning = r /\ m.recovered = n /\ m.finish = "tool_calls"
      <3> HIDE DEF e
      <3> QED
        BY <1>1, <2>1, <2>2, <2>3 DEF Whole, Choice, Finish
    <2>5. Text(m) = r \o d
      <3>1. CASE d = <<>>
        <4>1. Text(m) = r \o <<>>
          BY <2>4, <3>1 DEF Text
        <4> QED
          BY <3>1, <4>1
      <3>2. CASE d # <<>>
        BY <2>2, <2>4, <3>2 DEF Text
      <3> QED
        BY <3>1, <3>2
    <2>6. /\ Count("call", r \o d) = Count("call", r) + Count("call", d)
          /\ Count("call", r \o t) = Count("call", r) + Count("call", t)
          /\ Count("word", r \o d) = Count("word", r) + Count("word", d)
          /\ Count("word", r \o t) = Count("word", r) + Count("word", t)
          /\ Count("call", r) \in Nat /\ Count("call", d) \in Nat /\ Count("call", t) \in Nat
      BY CountConcat
    <2> HIDE DEF e
    <2>7. Count("call", Text(m)) + n = Count("call", Text(c))
      BY <1>2, <1>3, <2>5, <2>6
    <2>8. Count("word", Text(m)) = Count("word", Text(c))
      BY <1>2, <1>3, <2>5, <2>6
    <2>9. n > 0
      BY <1>5
    <2> QED
      BY <2>4, <2>7, <2>8, <2>9 DEF m
  <1> QED
    BY <1>4, <1>5

\* rewrite_chat_completion loses no word and no valid call.
LEMMA RewriteSound ==
    ASSUME NEW c, Whole(c)
    PROVE  LET m == RewriteChoice(c)
           IN  /\ m \in Choice
               /\ Count("call", Text(m)) + m.recovered = Count("call", Text(c))
               /\ Count("word", Text(m)) = Count("word", Text(c))
               /\ m.recovered > 0 => m.finish = "tool_calls"
               /\ m.recovered = 0 => m.finish = c.finish /\ Words(Text(m)) = Words(Text(c))
  <1> DEFINE b == SplitMessage(c)
             m == RecoverMessage(b)
  <1>1. RewriteChoice(c) = m
    BY DEF RewriteChoice, Whole
  <1>2. Whole(b) /\ Words(Text(b)) = Words(Text(c)) /\ b.finish = c.finish
    BY SplitMessageSound
  <1> HIDE DEF b
  <1>3. /\ m \in Choice
        /\ Count("call", Text(m)) + m.recovered = Count("call", Text(b))
        /\ Count("word", Text(m)) = Count("word", Text(b))
        /\ m.recovered > 0 => m.finish = "tool_calls"
        /\ m.recovered = 0 => m = b
    BY <1>2, RecoverMessageSound
  <1> HIDE DEF m
  <1>4. Text(b) \in Seq(Piece) /\ Text(c) \in Seq(Piece)
    BY <1>2, TextType DEF Whole
  <1>5. /\ Count("call", Text(b)) = Count("call", Text(c))
        /\ Count("word", Text(b)) = Count("word", Text(c))
    <2>1. \A p \in {"call", "word"} : p \in Piece \ {"prefix", "nl"}
      BY DEF Piece
    <2>2. \A p \in {"call", "word"} : /\ Count(p, Words(Text(b))) = Count(p, Text(b))
                                      /\ Count(p, Words(Text(c))) = Count(p, Text(c))
      BY <1>4, <2>1, CountWords
    <2> QED
      BY <1>2, <2>2
  <1> QED
    BY <1>1, <1>2, <1>3, <1>5

-----------------------------------------------------------------------------
(* The inductive invariant                                                 *)

RequestOK == request \in [ask : Ask, chunks : Seq(Chunk), sent : Nat, messages : Seq(Message)]

StateOK ==
    /\ splits \in BOOLEAN /\ recovers \in BOOLEAN
    /\ pc \in {"asked", "forwarded", "accepted", "answered", "stream", "done", "broken", "cancelled"}
    /\ split \in SplitStates /\ Len(split.buffer) < Threshold
    /\ recovery \in RecoveryStates
    /\ client \in {"connected", "gone"}
    /\ got \in Seq(Choice)
    /\ thought \in Seq(Piece) /\ said \in Seq(Piece)
    /\ tooled \in BOOLEAN /\ ended \in Finish /\ cut \in BOOLEAN /\ void \in Nat

\* Before vLLM answers nothing has happened to the answer.
Untouched ==
    pc \in {"asked", "forwarded", "accepted"} =>
        /\ split = SplitStart /\ recovery = RecoveryStart /\ got = <<>>
        /\ thought = <<>> /\ said = <<>> /\ ~tooled /\ void = 0

\* The stages still stand where the client's text and what they hold are all.
Flowing == pc \notin {"answered", "done", "cancelled"}

\* The words and calls of the answer are where they should be: with the client or
\* in one of the stages, whose states fit each other.
Flows ==
    /\ StateOK
    /\ Untouched
    /\ pc # "done" => ChainOK
    /\ pc # "answered" => got \in Seq(Fragment)
    /\ tooled \/ Faithful(recovery)
    /\ Flowing => AllCalls <= Count("call", said)
    /\ Flowing /\ ~tooled /\ Calls = 0 => Words(AllText) = Words(thought \o said)
    /\ client = "connected" => void = 0
    /\ TextConserved /\ CallNotTwice /\ WholeConserved /\ NoVoidGeneration

LEMMA RequestTyped ==
    \A ask \in Ask, chunks \in Seq(Chunk), sent \in Nat, messages \in Seq(Message) :
        Request(ask, chunks, sent, messages)
            \in [ask : Ask, chunks : Seq(Chunk), sent : Nat, messages : Seq(Message)]
  BY DEF Request

LEMMA RequestStep == ASSUME ProxyAssumption, RequestOK, [Next]_vars PROVE RequestOK'
  <1>1. CASE \E chunks \in Retrievals, fails \in BOOLEAN : Forward(chunks, fails)
    <2>1. PICK chunks \in Retrievals, fails \in BOOLEAN : Forward(chunks, fails)
      BY <1>1
    <2> DEFINE ask == request.ask
    <2>2. chunks \in Seq(Chunk) /\ <<>> \in Seq(Chunk) /\ ask \in Ask
      BY DEF ProxyAssumption, RequestOK
    <2> HIDE DEF ask
    <2>3. /\ ask.requested \in Nat /\ ask.reasons \in BOOLEAN /\ ask.len \in Nat
          /\ ask.messages \in Seq(ClientMessage)
      BY <2>2 DEF Ask, ClientMessage
    <2>4. /\ MaxTokens(ask.requested, ask.reasons, ask.len) \in Nat
          /\ ask.messages \in Seq(Message) /\ Enrich(ask.messages, chunks) \in Seq(Message)
      <3>1. PICK a \in Nat, b \in BOOLEAN, l \in Nat :
               a = ask.requested /\ b = ask.reasons /\ l = ask.len
        BY <2>3
      <3>2. MaxTokens(a, b, l) \in Nat
        BY MaxTokensSound
      <3>3. ask.messages \in Seq(Message)
        BY <2>3, ClientMessages
      <3>4. Enrich(ask.messages, chunks) \in Seq(Message)
        BY <2>3, EnrichType
      <3> QED
        BY <3>1, <3>2, <3>3, <3>4
    <2>5. \/ request' = Request(ask, <<>>, ask.requested, ask.messages)
          \/ request' = Request(ask, chunks, MaxTokens(ask.requested, ask.reasons, ask.len),
                                Enrich(ask.messages, chunks))
      BY <2>1 DEF Forward, Rewritten, ask
    <2>6. request' \in [ask : Ask, chunks : Seq(Chunk), sent : Nat, messages : Seq(Message)]
      <3>1. PICK sent \in Nat, messages \in Seq(Message), found \in Seq(Chunk) :
               request' = Request(ask, found, sent, messages)
        BY <2>2, <2>3, <2>4, <2>5, Zenon
      <3> QED
        BY <2>2, <3>1, RequestTyped
    <2> QED
      BY <2>6 DEF RequestOK
  <1>2. CASE Accept
    <2>1. <<>> \in Seq(Chunk) /\ <<>> \in Seq(Message) /\ <<>> \in Seq(MessageOf(STRING))
      OBVIOUS
    <2> QED
      BY <1>2, <2>1 DEF Accept, NoRequest, Request, RequestOK, Ask
  <1>3. ASSUME UNCHANGED request
        PROVE  RequestOK'
    BY <1>3 DEF RequestOK
  <1>4. CASE Open \/ Break \/ UsageChunk \/ Done \/ ClientLeaves \/ UNCHANGED vars
    BY <1>3, <1>4 DEF Open, Break, UsageChunk, Done, ClientLeaves, vars
  <1>5. CASE \E message \in Messages, fails \in BOOLEAN : AnswerWhole(message, fails)
    BY <1>3, <1>5 DEF AnswerWhole
  <1>6. CASE \/ \E t \in Deltas, finish \in {"none", "length"} : ContentChunk(t, finish)
             \/ ReasoningChunk \/ ToolChunk \/ FinishChunk("length")
    BY <1>3, <1>6 DEF ContentChunk, ReasoningChunk, ToolChunk, FinishChunk, Deliver
  <1> QED
    BY <1>1, <1>2, <1>4, <1>5, <1>6 DEF Next

LEMMA RequestInit == ProxyAssumption /\ Init => RequestOK
  <1>1. <<>> \in Seq(Chunk) /\ <<>> \in Seq(Message)
    OBVIOUS
  <1> SUFFICES ASSUME ProxyAssumption, Init
               PROVE  RequestOK
    OBVIOUS
  <1>2. PICK ask \in Ask : request = Request(ask, <<>>, 0, <<>>)
    BY DEF Init, ProxyAssumption
  <1> QED
    BY <1>1, <1>2, RequestTyped DEF RequestOK

\* What the parts of Flows speak of stays the same as long as its variables do.
LEMMA Frozen ==
    ASSUME UNCHANGED <<stages, got, answer>>
    PROVE  /\ Received' = Received /\ Calls' = Calls /\ AllText' = AllText /\ AllCalls' = AllCalls
           /\ Called' = Called
  <1>1. Received' = Received /\ Calls' = Calls
    BY DEF Received, Calls
  <1> QED
    BY <1>1 DEF AllText, AllCalls, Called, stages

\* A step of the request, the client or the connection only.
LEMMA QuietStep ==
    ASSUME Flows, UNCHANGED <<deployment, stages, got, answer>>,
           client' \in {client, "gone"},
           \/ pc' = pc
           \/ /\ Flowing /\ pc' \in {"forwarded", "accepted", "stream", "broken", "cancelled"}
              /\ pc' \in {"forwarded", "accepted"} => pc \in {"asked", "forwarded", "accepted"}
              /\ pc' = "stream" => pc = "accepted"
    PROVE  Flows'
  <1>1. /\ UNCHANGED <<splits, recovers, split, recovery, got, thought, said, tooled, ended, cut, void>>
        /\ Received' = Received /\ Calls' = Calls /\ AllText' = AllText /\ AllCalls' = AllCalls
        /\ Called' = Called
    BY Frozen DEF deployment, stages, answer
  <1>2. StateOK' /\ Untouched'
    BY <1>1 DEF Flows, StateOK, Untouched
  <1>3. /\ pc' # "done" => ChainOK'
        /\ pc' # "answered" => got' \in Seq(Fragment)
        /\ tooled' \/ Faithful(recovery')
    BY <1>1 DEF Flows, ChainOK, Flowing
  <1>4. /\ Flowing' => AllCalls' <= Count("call", said')
        /\ Flowing' /\ ~tooled' /\ Calls' = 0 => Words(AllText') = Words(thought' \o said')
        /\ client' = "connected" => void' = 0
    BY <1>1 DEF Flows, Flowing
  <1>5. got \in Seq(Choice)
    BY DEF Flows, StateOK
  <1>6. TextConserved'
    <2>1. ASSUME ~tooled', ~Called'
          PROVE  /\ pc' \in {"stream", "broken"} => Words(AllText') = Words(thought' \o said')
                 /\ pc' = "done" => Words(Received') = Words(thought' \o said')
      <3>1. Calls' = 0
        BY <1>1, <1>5, <2>1, ReceivedIs DEF Called
      <3>2. pc' \in {"stream", "broken"} => Flowing'
        BY DEF Flowing
      <3>3. pc' = "done" => pc = "done"
        OBVIOUS
      <3>4. pc' = "done" => Words(Received) = Words(thought \o said)
        BY <1>1, <2>1, <3>3 DEF Flows, TextConserved
      <3> QED
        BY <1>1, <1>4, <2>1, <3>1, <3>2, <3>4
    <2> QED
      BY <2>1 DEF TextConserved, AllText
  <1>7. CallNotTwice'
    BY <1>1 DEF Flows, CallNotTwice
  <1>8. WholeConserved'
    <2>1. pc' = "answered" /\ client' = "connected" => pc = "answered" /\ client = "connected"
      BY DEF Flows, StateOK
    <2> QED
      BY <1>1, <2>1 DEF Flows, WholeConserved
  <1>9. NoVoidGeneration'
    <2>1. CASE pc' = pc
      BY <1>1, <2>1 DEF Flows, NoVoidGeneration
    <2>2. CASE pc' = "stream" /\ pc = "accepted"
      <3>1. void = 0 /\ recovery.buffer = <<>> /\ split.buffer = <<>>
        BY <2>2 DEF Flows, Untouched, RecoveryStart, SplitStart
      <3>2. Words(<<>> \o <<>>) = <<>> /\ Len(<<>>) = 0
        BY WordsEmpty
      <3> QED
        BY <1>1, <3>1, <3>2 DEF NoVoidGeneration
    <2>3. CASE pc' # "stream"
      BY <2>3 DEF NoVoidGeneration
    <2> QED
      BY <2>1, <2>2, <2>3
  <1> QED
    BY <1>2, <1>3, <1>4, <1>6, <1>7, <1>8, <1>9 DEF Flows

\* A step that takes a chunk through the chain, which adds to what vLLM has
\* generated what it says.
LEMMA ChunkStep ==
    ASSUME Flows, pc = "stream", NEW c, Plain(c), Deliver(c),
           thought' \in Seq(Piece), said' \in Seq(Piece), ended' \in Finish,
           cut' \in BOOLEAN, tooled' \in BOOLEAN, tooled \/ c.parsed => tooled',
           Count("call", said') = Count("call", said) + Count("call", Text(c)),
           ~tooled /\ ~c.parsed /\ Calls = 0 =>
              InTime(c) /\ Words(thought' \o said') = Words(thought \o said) \o Words(Text(c)),
           void' \in Nat, client = "connected" => void' = 0,
           c.content # None /\ client = "gone" => void' = void + Len(Words(Text(c)))
    PROVE  Flows'
  <1>1. ChainOK /\ got \in Seq(Fragment) /\ Flowing /\ StateOK
    BY DEF Flows, Flowing
  <1>2. /\ ChainOK' /\ got' \in Seq(Fragment)
        /\ pc' \in {"stream", "cancelled"} /\ client' = client
        /\ pc' = "cancelled" => got' = got
        /\ ~c.parsed /\ Faithful(recovery) => Faithful(recovery')
        /\ pc' = "stream" => AllCalls' <= AllCalls + Count("call", Text(c))
        /\ pc' = "stream" /\ Calls' = 0 => Calls = 0
        /\ pc' = "stream" /\ ~c.parsed /\ Faithful(recovery) /\ InTime(c) /\ Calls' = 0 =>
              Words(AllText') = Words(AllText) \o Words(Text(c))
        /\ pc' = "stream" /\ client = "gone" =>
              /\ c.content # None
              /\ Words(recovery'.buffer \o split'.buffer)
                 = Words(recovery.buffer \o split.buffer) \o Words(Text(c))
    BY <1>1, DeliverSound
  <1>3. got \in Seq(Choice) /\ got' \in Seq(Choice)
    BY <1>1, <1>2, Fragments
  <1>4. /\ Received \in Seq(Piece) /\ Calls \in Nat /\ Received' \in Seq(Piece) /\ Calls' \in Nat
    BY <1>3, ReceivedIs, ReceivedNext
  <1>5. StateOK'
    BY <1>1, <1>2, <1>3 DEF StateOK, ChainOK, SplitOK
  <1>6. Untouched'
    BY <1>2 DEF Untouched
  <1>7. tooled' \/ Faithful(recovery')
    BY <1>2 DEF Flows
  <1>8. /\ Text(c) \in Seq(Piece) /\ Count("call", Text(c)) \in Nat /\ Count("call", said) \in Nat
        /\ Count("call", Received) \in Nat
        /\ recovery.buffer \in Seq(Piece) /\ split.buffer \in Seq(Piece)
        /\ recovery'.buffer \in Seq(Piece) /\ split'.buffer \in Seq(Piece)
        /\ Count("call", Received') \in Nat
        /\ Count("call", recovery.buffer) \in Nat /\ Count("call", split.buffer) \in Nat
        /\ Count("call", recovery'.buffer) \in Nat /\ Count("call", split'.buffer) \in Nat
    <2>1. Text(c) \in Seq(Piece)
      BY TextType DEF Plain, Delta
    <2>2. /\ recovery.buffer \in Seq(Piece) /\ split.buffer \in Seq(Piece)
          /\ recovery'.buffer \in Seq(Piece) /\ split'.buffer \in Seq(Piece) /\ said \in Seq(Piece)
      BY <1>1, <1>5 DEF StateOK, SplitStates, RecoveryStates
    <2> QED
      BY <1>4, <2>1, <2>2, CountType
  <1>9. /\ AllCalls = ((Calls + Count("call", Received)) + Count("call", recovery.buffer)) + Count("call", split.buffer)
        /\ AllCalls' = ((Calls' + Count("call", Received')) + Count("call", recovery'.buffer)) + Count("call", split'.buffer)
    BY DEF AllCalls, Count
  <1>10. AllCalls <= Count("call", said)
    BY <1>1 DEF Flows
  <1>10a. /\ AllCalls \in Nat /\ AllCalls' \in Nat
         /\ Calls' + Count("call", Received') <= AllCalls'
    <2>1. /\ Count("call", Received) \in Nat /\ Count("call", Received') \in Nat
          /\ Count("call", recovery.buffer) \in Nat /\ Count("call", split.buffer) \in Nat
          /\ Count("call", recovery'.buffer) \in Nat /\ Count("call", split'.buffer) \in Nat
          /\ Calls \in Nat /\ Calls' \in Nat
      BY <1>4, <1>8
    <2>2. \A u, v, w, z \in Nat : ((u + v) + w) + z \in Nat /\ u + v <= ((u + v) + w) + z
      OBVIOUS
    <2> QED
      BY ONLY <1>9, <2>1, <2>2
  <1>11. pc' = "stream" => AllCalls' <= Count("call", said')
    <2>1. pc' = "stream" => AllCalls' <= AllCalls + Count("call", Text(c))
      BY <1>2
    <2>2. \A u, v, w, z \in Nat : u <= v /\ w <= u + z => w <= v + z
      OBVIOUS
    <2>3. Count("call", said') = Count("call", said) + Count("call", Text(c))
      OBVIOUS
    <2>4. Count("call", said) \in Nat /\ Count("call", Text(c)) \in Nat
      BY <1>8
    <2> QED
      BY ONLY <1>10, <1>10a, <2>1, <2>2, <2>3, <2>4
  <1>12. CallNotTwice'
    <2>1. CASE pc' = "stream"
      <3>1. Calls' + Count("call", Received') <= Count("call", said')
        <4>1. Calls' \in Nat /\ Count("call", Received') \in Nat /\ Count("call", said') \in Nat
          BY <1>4, <1>8, CountType
        <4>2. AllCalls' <= Count("call", said')
          BY <1>11, <2>1
        <4>3. \A u, v, w, z \in Nat : u + v <= w /\ w <= z => u + v <= z
          OBVIOUS
        <4> QED
          BY ONLY <1>10a, <4>1, <4>2, <4>3
      <3> QED
        BY <3>1 DEF CallNotTwice, Count
    <2>2. CASE pc' = "cancelled"
      <3>1. Received' = Received /\ Calls' = Calls
        BY <1>2, <2>2 DEF Received, Calls
      <3>2. Calls + Count("call", Received) <= Count("call", said)
        BY DEF Flows, CallNotTwice
      <3>3. Calls' + Count("call", Received') <= Count("call", said')
        BY <1>4, <1>8, <3>1, <3>2, SMTT(30)
      <3> QED
        BY <3>3 DEF CallNotTwice, Count
    <2> QED
      BY <1>2, <2>1, <2>2
  <1>13. pc' = "stream" /\ ~tooled' /\ Calls' = 0 => Words(AllText') = Words(thought' \o said')
    <2> SUFFICES ASSUME pc' = "stream", ~tooled', Calls' = 0
                 PROVE  Words(AllText') = Words(thought' \o said')
      OBVIOUS
    <2>1. ~tooled /\ ~c.parsed
      OBVIOUS
    <2>2. Faithful(recovery)
      BY <2>1 DEF Flows
    <2>3. Calls = 0
      BY <1>2
    <2>4. InTime(c) /\ Words(thought' \o said') = Words(thought \o said) \o Words(Text(c))
      BY <2>1, <2>3
    <2>5. Words(AllText') = Words(AllText) \o Words(Text(c))
      BY <1>2, <2>1, <2>2, <2>4
    <2>6. Words(AllText) = Words(thought \o said)
      BY <1>1, <2>1, <2>3 DEF Flows
    <2> QED
      BY <2>4, <2>5, <2>6
  <1>14. TextConserved'
    <2>1. pc' \in {"stream", "broken", "done"} => pc' = "stream"
      BY <1>2
    <2>2. ~Called' => Calls' = 0
      BY <1>4 DEF Called
    <2> QED
      BY <1>13, <2>1, <2>2 DEF TextConserved, AllText
  <1>15. WholeConserved'
    BY <1>2 DEF WholeConserved
  <1>16. NoVoidGeneration'
    <2> DEFINE h == recovery.buffer \o split.buffer
               h1 == recovery'.buffer \o split'.buffer
               t == Text(c)
    <2>1. h \in Seq(Piece) /\ h1 \in Seq(Piece) /\ t \in Seq(Piece)
      BY <1>8
    <2>2. /\ pc' = "stream" /\ client = "gone" => c.content # None /\ Words(h1) = Words(h) \o Words(t)
      BY <1>2
    <2>3. void <= Len(Words(h)) /\ void \in Nat
      BY <1>1 DEF Flows, NoVoidGeneration, StateOK
    <2>4. Words(h) \in Seq(Piece) /\ Words(h1) \in Seq(Piece) /\ Words(t) \in Seq(Piece)
      BY <2>1, WordsType
    <2>5. c.content # None /\ client = "gone" => void' = void + Len(Words(t))
      OBVIOUS
    <2> HIDE DEF h, h1, t
    <2>6. pc' = "stream" => void' <= Len(Words(h1))
      <3>1. CASE client = "connected"
        BY <2>4, <3>1
      <3>2. CASE client = "gone" /\ pc' = "stream"
        <4>1. PICK u \in Seq(Piece), v \in Seq(Piece) : u = Words(h) /\ v = Words(t)
          BY <2>4, Zenon
        <4>2. Len(u \o v) = Len(u) + Len(v)
          BY ConcatProperties
        <4>3. Words(h1) = u \o v /\ void' = void + Len(v)
          BY <2>2, <2>5, <3>2, <4>1
        <4> QED
          BY <2>3, <4>1, <4>2, <4>3
      <3> QED
        BY <1>1, <3>1, <3>2 DEF StateOK
    <2> QED
      BY <2>6 DEF NoVoidGeneration, h1
  <1>17. /\ pc' # "done" => ChainOK'
         /\ pc' # "answered" => got' \in Seq(Fragment)
         /\ client' = "connected" => void' = 0
    BY <1>2
  <1>18. Flowing' => pc' = "stream"
    BY <1>2 DEF Flowing
  <1>19. /\ Flowing' => AllCalls' <= Count("call", said')
         /\ Flowing' /\ ~tooled' /\ Calls' = 0 => Words(AllText') = Words(thought' \o said')
    BY <1>11, <1>13, <1>18
  <1> QED
    BY <1>5, <1>6, <1>7, <1>12, <1>14, <1>15, <1>16, <1>17, <1>19 DEF Flows

\* What a chunk may add to the answer.
LEMMA DeltaType ==
    ASSUME ProxyAssumption, NEW t \in Deltas, StateOK
    PROVE  t \in Seq(Piece)
  <1> DEFINE far == Len(said)
  <1>1. far \in Nat /\ MaxDelta \in Nat
    BY DEF StateOK, ProxyAssumption
  <1>2. PICK a \in Answers : \E to \in far .. Min({far + MaxDelta, Len(a)}) : t = SubSeq(a, far + 1, to)
    BY DEF Deltas
  <1> HIDE DEF far
  <1>3. a \in Seq(Piece) /\ Len(a) \in Nat
    BY DEF ProxyAssumption
  <1>8. PICK to \in far .. Min({far + MaxDelta, Len(a)}) : t = SubSeq(a, far + 1, to)
    BY <1>2
  <1>4. Min({far + MaxDelta, Len(a)}) <= Len(a) /\ Min({far + MaxDelta, Len(a)}) \in Int
    <2>1. PICK x \in Int, y \in Int : x = far + MaxDelta /\ y = Len(a)
      BY <1>1, <1>3
    <2>2. Min({x, y}) <= y /\ Min({x, y}) \in Int
      BY MinOfTwo
    <2> QED
      BY <2>1, <2>2
  <1>5. to \in 0 .. Len(a) /\ far + 1 \in 1 .. Len(a) + 1
    BY <1>1, <1>3, <1>4
  <1>6. \A i \in (far + 1) .. to : i \in DOMAIN a
    BY <1>1, <1>3, <1>5
  <1>7. SubSeq(a, far + 1, to) \in Seq(Piece)
    <2>1. PICK m \in 1 .. Len(a) + 1, n \in 0 .. Len(a) : m = far + 1 /\ n = to
      BY <1>5
    <2>2. SubSeq(a, m, n) \in Seq(Piece)
      BY <1>3, SubSeqProperties
    <2> QED
      BY <2>1, <2>2
  <1> QED
    BY <1>7, <1>8

LEMMA ContentStep ==
    ASSUME ProxyAssumption, Flows, NEW t \in Deltas, NEW f \in {"none", "length"}, ContentChunk(t, f)
    PROVE  Flows'
  <1> DEFINE c == Content(t, f)
  <1>1. t \in Seq(Piece) /\ f \in Finish
    BY DeltaType DEF Flows, Finish
  <1>2. Plain(c) /\ c.content = t /\ Text(c) = t /\ ~c.parsed /\ t # None
    BY <1>1, ContentChoice
  <1>3. /\ pc = "stream" /\ Deliver(c) /\ said' = said \o t /\ ended' = f
        /\ cut' \in BOOLEAN /\ UNCHANGED <<thought, tooled>>
        /\ void' = IF client = "gone" THEN void + Len(Words(t)) ELSE void
    BY DEF ContentChunk, Streaming, Flows, StateOK
  <1> HIDE DEF c
  <1>4. thought \in Seq(Piece) /\ said \in Seq(Piece) /\ void \in Nat /\ tooled \in BOOLEAN
    BY DEF Flows, StateOK
  <1>5. /\ said \o t \in Seq(Piece) /\ Count("call", said \o t) = Count("call", said) + Count("call", t)
    BY <1>1, <1>4, CountConcat
  <1>6. Words(t) \in Seq(Piece) /\ Len(Words(t)) \in Nat
    BY <1>1, WordsType
  <1>7. Words(thought \o (said \o t)) = Words(thought \o said) \o Words(t)
    <2>1. PICK u \in Seq(Piece), v \in Seq(Piece) : u = thought /\ v = said
      BY <1>4
    <2>2. /\ Words(u \o (v \o t)) = Words((u \o v) \o t)
          /\ Words((u \o v) \o t) = Words(u \o v) \o Words(t)
      BY <1>1, WordsConcat3, ZenonT(40)
    <2> QED
      BY <2>1, <2>2
  <1>8. InTime(c)
    BY <1>2 DEF InTime
  <1>9. client = "connected" => void = 0
    BY DEF Flows
  <1>10. /\ thought' \in Seq(Piece) /\ said' \in Seq(Piece) /\ ended' \in Finish
         /\ cut' \in BOOLEAN /\ tooled' \in BOOLEAN /\ (tooled \/ c.parsed => tooled')
         /\ Count("call", said') = Count("call", said) + Count("call", Text(c))
         /\ void' \in Nat /\ (client = "connected" => void' = 0)
         /\ (c.content # None /\ client = "gone" => void' = void + Len(Words(Text(c))))
    BY <1>1, <1>2, <1>3, <1>4, <1>5, <1>6, <1>9
  <1>11. ~tooled /\ ~c.parsed /\ Calls = 0 =>
           InTime(c) /\ Words(thought' \o said') = Words(thought \o said) \o Words(Text(c))
    BY <1>2, <1>3, <1>7, <1>8
  <1>12. pc = "stream" /\ Deliver(c)
    BY <1>3
  <1>13. Plain(c)
    BY <1>2
  <1> QED
    BY ONLY Flows, <1>10, <1>11, <1>12, <1>13, ChunkStep

LEMMA ReasoningStep ==
    ASSUME Flows, ReasoningChunk
    PROVE  Flows'
  <1> DEFINE t == <<"word">>
             c == Reasoning(t, "none")
  <1>1. t \in Seq(Piece) /\ "none" \in Finish /\ "word" \in Piece
    BY DEF Piece, Finish
  <1>2. Plain(c) /\ c.content = None /\ Text(c) = t /\ ~c.parsed /\ c.finish = "none"
    BY <1>1, ReasoningChoice
  <1>3. /\ pc = "stream" /\ Deliver(c) /\ thought' = t /\ thought = <<>> /\ said = <<>>
        /\ UNCHANGED <<said, tooled, ended, cut, void>>
    BY DEF ReasoningChunk, Streaming
  <1>4. Words(t) = t /\ Count("call", t) = 0
    <2>1. Words(t) = t
      BY <1>1, WordsOne
    <2>2. {i \in DOMAIN t : t[i] = "call"} = {}
      OBVIOUS
    <2>3. Cardinality({}) = 0
      BY FS_EmptySet
    <2> QED
      BY <2>1, <2>2, <2>3 DEF Count
  <1> HIDE DEF c, t
  <1>5. /\ said \in Seq(Piece) /\ void \in Nat /\ tooled \in BOOLEAN /\ ended \in Finish /\ cut \in BOOLEAN
        /\ split \in SplitStates /\ recovery \in RecoveryStates /\ got \in Seq(Choice)
    BY DEF Flows, StateOK
  <1>6. /\ t \o <<>> = t /\ t \o said = t /\ <<>> \o t = t /\ Words(<<>>) = <<>>
        /\ thought \o said = <<>> /\ Count("call", said) = 0
    BY <1>1, <1>3, WordsEmpty, CountEmpty
  <1>7. ASSUME ~tooled, Calls = 0
        PROVE  InTime(c)
    <2>1. Words(AllText) = <<>>
      BY <1>3, <1>6, <1>7 DEF Flows, Flowing
    <2>2. Received \in Seq(Piece) /\ recovery.buffer \in Seq(Piece) /\ split.buffer \in Seq(Piece)
      BY <1>5, ReceivedIs DEF SplitStates, RecoveryStates
    <2> DEFINE r == Received
               q == recovery.buffer
               s == split.buffer
    <2> HIDE DEF r, q, s
    <2>3. r \in Seq(Piece) /\ q \in Seq(Piece) /\ s \in Seq(Piece) /\ Words(Cat(Cat(r, q), s)) = <<>>
      BY <2>1, <2>2 DEF Cat, AllText, r, q, s
    <2>4. Words(r) \in Seq(Piece) /\ Words(q) \in Seq(Piece) /\ Words(s) \in Seq(Piece)
      BY <2>3, WordsType
    <2>5. /\ Words(Cat(Cat(r, q), s)) = Cat(Words(Cat(r, q)), Words(s))
          /\ Words(Cat(r, q)) = Cat(Words(r), Words(q))
      BY <2>3, Regroup, CatWords
    <2>6. PICK u \in Seq(Piece), v \in Seq(Piece), w \in Seq(Piece) :
             u = Words(r) /\ v = Words(q) /\ w = Words(s)
      BY <2>4, Zenon
    <2>7. (u \o v) \o w = <<>>
      BY <2>3, <2>5, <2>6 DEF Cat
    <2>8. v = <<>> /\ w = <<>>
      <3>1. Len((u \o v) \o w) = Len(u) + Len(v) + Len(w)
        OBVIOUS
      <3>2. Len(v) = 0 /\ Len(w) = 0
        BY <2>7, <3>1
      <3> QED
        BY <3>2, EmptySeq
    <2> QED
      BY <1>2, <2>6, <2>8 DEF InTime, q, s
  <1>8. /\ thought' \in Seq(Piece) /\ said' \in Seq(Piece) /\ ended' \in Finish
        /\ cut' \in BOOLEAN /\ tooled' \in BOOLEAN /\ (tooled \/ c.parsed => tooled')
        /\ Count("call", said') = Count("call", said) + Count("call", Text(c))
        /\ void' \in Nat /\ (client = "connected" => void' = 0)
        /\ (c.content # None /\ client = "gone" => void' = void + Len(Words(Text(c))))
    BY <1>1, <1>2, <1>3, <1>4, <1>5, <1>6 DEF Flows
  <1>9. ~tooled /\ ~c.parsed /\ Calls = 0 =>
           InTime(c) /\ Words(thought' \o said') = Words(thought \o said) \o Words(Text(c))
    <2>1. Words(thought' \o said') = Words(thought \o said) \o Words(Text(c))
      BY <1>2, <1>3, <1>4, <1>6
    <2> QED
      BY <1>7, <2>1
  <1> QED
    BY <1>2, <1>3, <1>8, <1>9, ChunkStep

\* A chunk without a text adds nothing.
LEMMA TextlessStep ==
    ASSUME Flows, pc = "stream", NEW c, Plain(c), c.content = None, Text(c) = <<>>, Deliver(c),
           ended' \in Finish, tooled' \in BOOLEAN, tooled \/ c.parsed => tooled',
           UNCHANGED <<thought, said, cut, void>>
    PROVE  Flows'
  <1>1. /\ thought \in Seq(Piece) /\ said \in Seq(Piece) /\ void \in Nat /\ cut \in BOOLEAN
        /\ (client = "connected" => void = 0)
    BY DEF Flows, StateOK
  <1>2. Count("call", said) \in Nat /\ Count("call", <<>>) = 0 /\ Words(<<>>) = <<>>
    BY <1>1, CountType, CountEmpty, WordsEmpty
  <1>3. Words(thought \o said) \o <<>> = Words(thought \o said)
    BY <1>1, WordsConcat, ConcatEmptySeq
  <1>4. InTime(c)
    BY DEF InTime
  <1>5. /\ thought' \in Seq(Piece) /\ said' \in Seq(Piece) /\ cut' \in BOOLEAN
        /\ Count("call", said') = Count("call", said) + Count("call", Text(c))
        /\ void' \in Nat /\ (client = "connected" => void' = 0)
    BY <1>1, <1>2
  <1>6. Words(thought' \o said') = Words(thought \o said) \o Words(Text(c))
    BY <1>2, <1>3
  <1> QED
    BY <1>4, <1>5, <1>6, ChunkStep

LEMMA ToolStep ==
    ASSUME Flows, ToolChunk
    PROVE  Flows'
  <1> DEFINE c == [Empty("none") EXCEPT !.parsed = TRUE]
  <1>1. PICK e \in Choice : /\ e = Empty("none") /\ e.reasoning = <<>> /\ e.content = None
                            /\ e.recovered = 0
    BY EmptyChoice DEF Plain, Delta, Finish
  <1>2. /\ c \in Choice /\ c.reasoning = <<>> /\ c.content = None /\ c.parsed /\ c.recovered = 0
    <2>1. c = [e EXCEPT !.parsed = TRUE]
      BY <1>1
    <2> HIDE DEF c
    <2> QED
      BY <1>1, <2>1 DEF Choice
  <1>3. /\ pc = "stream" /\ Deliver(c) /\ ended' = ended /\ tooled' = TRUE
        /\ UNCHANGED <<thought, said, cut, void>>
    BY DEF ToolChunk, Streaming
  <1> HIDE DEF c
  <1>4. Plain(c) /\ Text(c) = <<>>
    BY <1>2 DEF Plain, Delta, Text
  <1>5. ended' \in Finish
    BY <1>3 DEF Flows, StateOK
  <1> QED
    BY <1>2, <1>3, <1>4, <1>5, TextlessStep

LEMMA FinishStep ==
    ASSUME Flows, FinishChunk("length")
    PROVE  Flows'
  <1> DEFINE c == Empty("length")
  <1>1. /\ Plain(c) /\ c.content = None /\ Text(c) = <<>> /\ ~c.parsed
    BY EmptyChoice DEF Finish
  <1>2. /\ pc = "stream" /\ Deliver(c) /\ ended' = "length"
        /\ UNCHANGED <<thought, said, tooled, cut, void>>
    BY DEF FinishChunk, Streaming
  <1> HIDE DEF c
  <1>3. ended' \in Finish /\ tooled' \in BOOLEAN /\ (tooled \/ c.parsed => tooled')
    BY <1>1, <1>2 DEF Finish, Flows, StateOK
  <1> QED
    BY <1>1, <1>2, <1>3, TextlessStep

\* After [DONE] the client has all the text that the stages held.
LEMMA DoneStep ==
    ASSUME Flows, Done
    PROVE  Flows'
  <1> DEFINE shown == ThroughRecovery(AtDone)
             rest == IF recovers THEN RecoveryDone(shown.state) ELSE Forwards(shown.state, <<>>)
             out == shown.out \o rest.out
  <1>1. /\ pc = "stream"
        /\ \/ client = "connected" /\ got' = Reads(out) /\ recovery' = rest.state /\ pc' = "done"
           \/ client = "gone" /\ pc' = "cancelled" /\ UNCHANGED <<got, recovery>>
        /\ UNCHANGED <<deployment, request, split, client, answer>>
    BY DEF Done, AtDone, Cancel
  <1>2. CASE client = "gone"
    <2>1. /\ UNCHANGED <<deployment, stages, got, answer>> /\ client' \in {client, "gone"}
          /\ pc' = "cancelled" /\ Flowing
      BY <1>1, <1>2 DEF stages, Flowing
    <2> QED
      BY <2>1, QuietStep
  <1>3. CASE client # "gone"
    <2>1. /\ got' = Reads(out) /\ recovery' = rest.state /\ pc' = "done"
          /\ splits' = splits /\ recovers' = recovers /\ split' = split /\ client' = client
          /\ UNCHANGED <<thought, said, tooled, ended, cut, void>>
      BY <1>1, <1>3 DEF deployment, answer
    <2>2. /\ ChainOK /\ StateOK /\ got \in Seq(Fragment)
      BY <1>1 DEF Flows
    <2>3. /\ Parts(AtDone) /\ Len(AtDone) \in 0 .. 1 /\ Unparsed(AtDone)
          /\ TextOf(AtDone) = split.buffer /\ split.buffer \in Seq(Piece)
          /\ Ordered(recovery, AtDone)
      BY <2>2, SplitDoneSound
    <2>4. /\ CarriesAll(recovery, AtDone, shown) /\ (~recovers => shown.state = RecoveryStart)
          /\ Len(shown.out) \in 0 .. 1
      BY <2>2, <2>3, ThroughRecoverySound, RecoversOne
    <2> HIDE DEF shown
    <2>5. /\ rest.state \in RecoveryStates /\ Single(rest.out)
          /\ Passed(rest.out) + Count("call", rest.state.buffer) <= Count("call", shown.state.buffer)
          /\ CallsIn(rest.out) = 0
          /\ Faithful(shown.state) => Faithful(rest.state) /\ TextOf(rest.out) = shown.state.buffer
      <3>1. shown.state \in RecoveryStates
        BY <2>4 DEF CarriesAll
      <3>2. CASE recovers
        BY <3>1, <3>2, RecoveryDoneSound
      <3>3. CASE ~recovers
        <4>1. rest.state = RecoveryStart /\ rest.out = <<>> /\ shown.state = RecoveryStart
          BY <2>4, <3>3 DEF Forwards
        <4>2. RecoveryStart.buffer = <<>> /\ Faithful(RecoveryStart) /\ Count("call", <<>>) = 0
          BY CountEmpty DEF RecoveryStart, Faithful
        <4> HIDE DEF rest
        <4> QED
          BY <3>1, <4>1, <4>2, NothingPasses
      <3> QED
        BY <3>2, <3>3
    <2> HIDE DEF rest
    <2>6. /\ shown.state \in RecoveryStates /\ shown.out \in Seq(Fragment)
          /\ Passed(shown.out) + Count("call", shown.state.buffer)
             <= Count("call", recovery.buffer) + Count("call", split.buffer)
          /\ Faithful(recovery) => Faithful(shown.state)
          /\ Faithful(recovery) /\ CallsIn(shown.out) = 0 =>
                Words(TextOf(shown.out) \o shown.state.buffer) = Words(recovery.buffer \o split.buffer)
      BY <2>3, <2>4 DEF CarriesAll
    <2>7. /\ rest.out \in Seq(Fragment) /\ Len(rest.out) \in 0 .. 1
      BY <2>5, Fragments
    <2>8. /\ out \in Seq(Fragment) /\ Len(out) \in 0 .. 2
      <3>1. PICK u \in Seq(Fragment), v \in Seq(Fragment) : u = shown.out /\ v = rest.out
        BY <2>6, <2>7
      <3>2. u \o v \in Seq(Fragment) /\ Len(u \o v) = Len(u) + Len(v)
        BY ConcatProperties
      <3>3. out = u \o v /\ Len(u) \in 0 .. 1 /\ Len(v) \in 0 .. 1
        BY <2>4, <2>7, <3>1
      <3> HIDE DEF out
      <3> QED
        BY <3>2, <3>3
    <2>9. /\ shown.out \in Seq(Choice) /\ rest.out \in Seq(Choice) /\ got \in Seq(Choice)
      BY <2>2, <2>6, <2>7, Fragments
    <2>10. /\ TextOf(out) = TextOf(shown.out) \o TextOf(rest.out)
           /\ CallsIn(out) = CallsIn(shown.out) + CallsIn(rest.out)
      BY <2>9, TextOfOut, CallsInOut
    <2> HIDE DEF out
    <2>11. /\ got' \in Seq(Fragment) /\ TextOf(got') = TextOf(got) \o TextOf(out)
           /\ CallsIn(got') = CallsIn(got) + CallsIn(out)
      BY <2>1, <2>2, <2>8, ReadsSound
    <2>12. got' \in Seq(Choice)
      BY <2>11, Fragments
    <2>13. /\ Received = TextOf(got) /\ Calls = CallsIn(got) /\ Received' = TextOf(got') /\ Calls' = CallsIn(got')
           /\ Received \in Seq(Piece) /\ Calls \in Nat /\ Received' \in Seq(Piece) /\ Calls' \in Nat
           /\ TextOf(shown.out) \in Seq(Piece) /\ TextOf(rest.out) \in Seq(Piece)
           /\ CallsIn(shown.out) \in Nat /\ CallsIn(rest.out) \in Nat
      BY <2>9, <2>12, ReceivedIs, ReceivedNext, TextOfOut, CallsInOut
    <2>14. /\ recovery.buffer \in Seq(Piece) /\ split.buffer \in Seq(Piece) /\ said \in Seq(Piece)
           /\ shown.state.buffer \in Seq(Piece) /\ rest.state.buffer \in Seq(Piece)
      BY <2>2, <2>5, <2>6 DEF StateOK, SplitStates, RecoveryStates
    <2> DEFINE g == Received
               o == TextOf(shown.out)
               z == TextOf(rest.out)
               q == recovery.buffer
               s == split.buffer
               h == shown.state.buffer
    <2>15. /\ g \in Seq(Piece) /\ o \in Seq(Piece) /\ z \in Seq(Piece) /\ q \in Seq(Piece)
           /\ s \in Seq(Piece) /\ h \in Seq(Piece)
      BY <2>13, <2>14
    <2>16. Received' = Cat(g, Cat(o, z))
      BY <2>10, <2>11, <2>13 DEF Cat
    <2>17. CallNotTwice'
      <3> DEFINE n == CallsIn(shown.out)
      <3>1. /\ n + Count("call", o) + Count("call", h) <= Count("call", q) + Count("call", s)
            /\ 0 + Count("call", z) + Count("call", rest.state.buffer) <= Count("call", h)
        BY <2>5, <2>6 DEF Passed
      <3>2. ((Calls + Count("call", g)) + Count("call", q)) + Count("call", s) <= Count("call", said)
        BY <1>1 DEF Flows, Flowing, AllCalls
      <3>3. Calls' = Calls + n
        BY <2>5, <2>10, <2>11, <2>13
      <3>4. n \in Nat /\ Calls \in Nat
        BY <2>13
      <3>5. Count("call", rest.state.buffer) \in Nat /\ Count("call", said) \in Nat
        BY <2>14, CountType
      <3> HIDE DEF g, o, z, q, s, h, n
      <3>6. Count("call", Cat(g, Cat(o, z))) = Count("call", g) + (Count("call", o) + Count("call", z))
        <4>1. Cat(o, z) \in Seq(Piece) /\ Count("call", Cat(o, z)) = Count("call", o) + Count("call", z)
          BY <2>15, CountConcat DEF Cat
        <4>2. Count("call", Cat(g, Cat(o, z))) = Count("call", g) + Count("call", Cat(o, z))
          <5> DEFINE y == Cat(o, z)
          <5>1. y \in Seq(Piece)
            BY <4>1
          <5> HIDE DEF y
          <5>2. Count("call", Cat(g, y)) = Count("call", g) + Count("call", y)
            BY <2>15, <5>1, CountConcat DEF Cat
          <5> QED
            BY <5>2 DEF y
        <4> QED
          BY <4>1, <4>2
      <3>7. /\ Count("call", g) \in Nat /\ Count("call", o) \in Nat /\ Count("call", z) \in Nat
            /\ Count("call", q) \in Nat /\ Count("call", s) \in Nat /\ Count("call", h) \in Nat
        BY <2>15, CountType
      <3>8. Calls' + Count("call", Received') <= Count("call", said)
        BY ONLY <2>16, <3>1, <3>2, <3>3, <3>4, <3>5, <3>6, <3>7
      <3> QED
        BY <2>1, <3>8 DEF CallNotTwice, Count
    <2>18. TextConserved'
      <3> SUFFICES ASSUME ~tooled, ~Called'
                   PROVE  Words(Received') = Words(thought \o said)
        BY <2>1 DEF TextConserved
      <3>1. Calls = 0 /\ CallsIn(shown.out) = 0
        <4>1. Calls' = 0
          BY <2>13 DEF Called
        <4>2. Calls' = Calls + CallsIn(shown.out)
          BY <2>5, <2>10, <2>11, <2>13
        <4>3. Calls \in Nat /\ CallsIn(shown.out) \in Nat
          BY <2>13
        <4> QED
          BY <4>1, <4>2, <4>3
      <3>2. Faithful(recovery)
        BY DEF Flows
      <3>3. Words(Cat(o, h)) = Words(Cat(q, s)) /\ z = h
        BY <2>5, <2>6, <3>1, <3>2 DEF Cat
      <3>4. Words(Cat(Cat(g, q), s)) = Words(thought \o said)
        BY <1>1, <3>1 DEF Flows, Flowing, AllText, Cat
      <3> HIDE DEF g, o, z, q, s, h
      <3>5. /\ Words(Cat(g, Cat(o, h))) = Words(Cat(Cat(g, o), h))
            /\ Words(Cat(Cat(g, o), h)) = Cat(Words(g), Words(Cat(o, h)))
            /\ Words(Cat(Cat(g, q), s)) = Cat(Words(g), Words(Cat(q, s)))
        BY <2>15, Regroup
      <3> QED
        BY <2>16, <3>3, <3>4, <3>5
    <2>19. StateOK' /\ Untouched' /\ (tooled' \/ Faithful(recovery'))
      <3>1. StateOK'
        BY <2>1, <2>2, <2>5, <2>12 DEF StateOK
      <3>2. tooled' \/ Faithful(recovery')
        BY <2>1, <2>5, <2>6 DEF Flows
      <3> QED
        BY <2>1, <3>1, <3>2 DEF Untouched
    <2>20. /\ pc' = "done" /\ got' \in Seq(Fragment) /\ ~Flowing'
           /\ (client' = "connected" => void' = 0)
           /\ WholeConserved' /\ NoVoidGeneration'
      BY <2>1, <2>11 DEF Flowing, Flows, WholeConserved, NoVoidGeneration
    <2> QED
      BY <2>17, <2>18, <2>19, <2>20 DEF Flows
  <1> QED
    BY <1>2, <1>3

\* What the client may get in place of a message c: m keeps its words and calls.
Keeps(c, m) ==
    /\ m \in Choice
    /\ Count("call", Text(m)) + m.recovered = Count("call", Text(c))
    /\ Count("word", Text(m)) = Count("word", Text(c))
    /\ m.recovered > 0 => m.finish = "tool_calls"
    /\ m.recovered = 0 => m.finish = c.finish /\ Words(Text(m)) = Words(Text(c))

LEMMA MessageSound ==
    ASSUME ProxyAssumption, NEW message \in Messages
    PROVE  /\ Whole(message) /\ message.finish \in Finish /\ message.parsed \in BOOLEAN
           /\ message.reasoning \in Seq(Piece) /\ message.content \in Seq(Piece)
           /\ Text(message) = message.reasoning \o message.content
           /\ Count("call", Text(message)) = Count("call", message.content)
  <1>1. PICK t \in Texts, thinking \in {<<>>, <<"word">>}, finish \in {"stop", "length", "tool_calls"} :
           message = Completion(t, thinking, finish)
    BY DEF Messages
  <1>2. t \in Seq(Piece)
    <2>1. PICK a \in Answers : \E n \in 0 .. Len(a) : t = SubSeq(a, 1, n)
      BY DEF Texts
    <2>2. PICK n \in 0 .. Len(a) : t = SubSeq(a, 1, n)
      BY <2>1
    <2>3. a \in Seq(Piece)
      BY DEF ProxyAssumption
    <2> QED
      BY <2>2, <2>3, CutAt
  <1>3. thinking \in Seq(Piece) /\ Count("call", thinking) = 0
    <2>1. <<>> \in Seq(Piece) /\ <<"word">> \in Seq(Piece)
      BY DEF Piece
    <2>2. Count("call", <<>>) = 0
      BY CountEmpty
    <2>3. {i \in DOMAIN <<"word">> : <<"word">>[i] = "call"} = {}
      OBVIOUS
    <2>4. Count("call", <<"word">>) = 0
      BY <2>3, FS_EmptySet DEF Count
    <2> QED
      BY <2>1, <2>2, <2>4
  <1>4. finish \in Finish /\ t # None
    BY <1>2, RewriterAssumption DEF Finish, RewriterAssumption
  <1>5. PICK e \in Choice : /\ e = Content(t, finish) /\ e.content = t /\ e.finish = finish /\ e.recovered = 0
    BY <1>2, <1>4, ContentChoice DEF Plain, Delta
  <1>6. PICK b \in BOOLEAN : b = (finish = "tool_calls")
    OBVIOUS
  <1>7. message = [e EXCEPT !.reasoning = thinking, !.parsed = b]
    BY <1>1, <1>5, <1>6 DEF Completion
  <1>8. /\ message \in Choice /\ message.content = t /\ message.finish = finish /\ message.recovered = 0
        /\ message.reasoning = thinking /\ message.parsed = b
    BY <1>3, <1>5, <1>7 DEF Choice
  <1>9. Text(message) = thinking \o t
    BY <1>4, <1>8 DEF Text
  <1>10. Count("call", thinking \o t) = Count("call", t)
    <2>1. /\ Count("call", thinking \o t) = Count("call", thinking) + Count("call", t)
          /\ Count("call", t) \in Nat
      BY <1>2, <1>3, CountConcat
    <2> QED
      BY <1>3, <2>1
  <1>11. Whole(message)
    BY <1>4, <1>8 DEF Whole
  <1>12. Text(message) = message.reasoning \o message.content
    BY <1>8, <1>9
  <1>13. Count("call", Text(message)) = Count("call", message.content)
    BY <1>8, <1>9, <1>10
  <1> QED
    BY <1>2, <1>3, <1>4, <1>8, <1>11, <1>12, <1>13

LEMMA AnswerStep ==
    ASSUME ProxyAssumption, Flows,
           NEW message \in Messages, NEW fails \in BOOLEAN, AnswerWhole(message, fails)
    PROVE  Flows'
  <1>1. /\ Whole(message) /\ message.finish \in Finish /\ message.parsed \in BOOLEAN
        /\ message.reasoning \in Seq(Piece) /\ message.content \in Seq(Piece)
        /\ Text(message) = message.reasoning \o message.content
        /\ Count("call", Text(message)) = Count("call", message.content)
    BY MessageSound
  <1>2. /\ pc = "accepted" /\ pc' = "answered"
        /\ thought' = message.reasoning /\ said' = message.content
        /\ tooled' = message.parsed /\ ended' = message.finish
        /\ got' = IF client = "gone" THEN <<>>
                  ELSE IF fails THEN <<message>> ELSE <<RewriteChoice(message)>>
        /\ void' = IF client = "gone" THEN Len(Words(said')) ELSE 0
        /\ splits' = splits /\ recovers' = recovers /\ split' = split /\ recovery' = recovery
        /\ client' = client /\ cut' = cut
    BY DEF AnswerWhole, deployment, stages
  <1>3. Keeps(message, message) /\ Keeps(message, RewriteChoice(message))
    <2>1. Count("call", Text(message)) \in Nat
      BY <1>1, TextType, CountType DEF Whole
    <2>2. Keeps(message, message)
      BY <1>1, <2>1 DEF Whole, Keeps
    <2>3. Keeps(message, RewriteChoice(message))
      BY <1>1, RewriteSound DEF Keeps
    <2> QED
      BY <2>2, <2>3
  <1>4. \/ client = "gone" /\ got' = <<>>
        \/ \E m : Keeps(message, m) /\ got' = <<m>>
    BY <1>2, <1>3
  <1>5. /\ got' \in Seq(Choice)
        /\ Calls' + Count("call", Received') <= Count("call", said')
        /\ client = "connected" =>
              /\ Count("word", Received') = Count("word", thought' \o said')
              /\ Count("call", Received') + Calls' = Count("call", said')
              /\ Called' => got'[1].finish = "tool_calls"
              /\ ~Called' => got'[1].finish = ended' /\ Words(Received') = Words(thought' \o said')
    <2>1. CASE client = "gone" /\ got' = <<>>
      <3>1. <<>> \in Seq(Choice) /\ TextOf(<<>>) = <<>> /\ CallsIn(<<>>) = 0 /\ Count("call", <<>>) = 0
        BY TextOfOut, CallsInOut, CountEmpty
      <3>2. got' \in Seq(Choice)
        BY <2>1, <3>1
      <3>3. Calls' = 0 /\ Count("call", Received') = 0
        BY <2>1, <3>1, <3>2, ReceivedNext
      <3>4. Count("call", said') \in Nat
        BY <1>1, <1>2, CountType
      <3> QED
        BY <2>1, <3>2, <3>3, <3>4
    <2>2. CASE \E m : Keeps(message, m) /\ got' = <<m>>
      <3>1. PICK m : Keeps(message, m) /\ got' = <<m>>
        BY <2>2
      <3>2. m \in Choice /\ <<m>> \in Seq(Choice) /\ got'[1] = m
        BY <3>1 DEF Keeps
      <3>3. TextOf(<<m>>) = Text(m) /\ CallsIn(<<m>>) = m.recovered /\ got' \in Seq(Choice)
        BY <3>1, <3>2, TextOfOut, CallsInOut
      <3>4. Received' = Text(m) /\ Calls' = m.recovered /\ m.recovered \in Nat
        BY <3>1, <3>2, <3>3, ReceivedNext DEF Choice
      <3>5. thought' \o said' = Text(message) /\ Count("call", said') = Count("call", Text(message))
        BY <1>1, <1>2
      <3>6. Called' <=> m.recovered > 0
        BY <3>4 DEF Called
      <3>7. Count("call", Text(m)) \in Nat
        <4>1. Text(m) \in Seq(Piece)
          BY <3>2, TextType
        <4> QED
          BY <4>1, CountType
      <3>8. /\ Count("call", Text(m)) + m.recovered = Count("call", Text(message))
            /\ Count("word", Text(m)) = Count("word", Text(message))
            /\ m.recovered > 0 => m.finish = "tool_calls"
            /\ m.recovered = 0 => m.finish = message.finish /\ Words(Text(m)) = Words(Text(message))
        BY <3>1 DEF Keeps
      <3>9. Calls' + Count("call", Received') <= Count("call", said')
        BY <3>4, <3>5, <3>7, <3>8
      <3>10. /\ Count("word", Received') = Count("word", thought' \o said')
             /\ Count("call", Received') + Calls' = Count("call", said')
        BY <3>4, <3>5, <3>8
      <3>11. /\ Called' => got'[1].finish = "tool_calls"
             /\ ~Called' => got'[1].finish = ended' /\ Words(Received') = Words(thought' \o said')
        BY <1>2, <3>2, <3>4, <3>5, <3>6, <3>8
      <3> QED
        BY <3>3, <3>9, <3>10, <3>11
    <2> QED
      BY <1>4, <2>1, <2>2
  <1>6. void' \in Nat
    <2>1. Words(said') \in Seq(Piece)
      BY <1>1, <1>2, WordsType
    <2> QED
      BY <1>2, <2>1
  <1>7. StateOK'
    BY <1>1, <1>2, <1>5, <1>6 DEF Flows, StateOK
  <1>8. CallNotTwice' /\ WholeConserved'
    BY <1>2, <1>5 DEF CallNotTwice, WholeConserved, Count
  <1>9. /\ Untouched' /\ ChainOK' /\ ~Flowing' /\ TextConserved' /\ NoVoidGeneration'
        /\ Faithful(recovery')
    <2>1. ChainOK /\ recovery.buffer = <<>>
      BY <1>2 DEF Flows, Untouched, RecoveryStart
    <2> QED
      BY <1>2, <2>1 DEF Untouched, ChainOK, Flowing, TextConserved, NoVoidGeneration, Faithful
  <1>10. client' = "connected" => void' = 0
    BY <1>2
  <1> QED
    BY <1>2, <1>7, <1>8, <1>9, <1>10 DEF Flows

LEMMA FlowsInit == ASSUME ProxyAssumption, Init PROVE Flows
  <1>1. /\ splits \in BOOLEAN /\ recovers \in BOOLEAN
        /\ pc = "asked" /\ split = SplitStart /\ recovery = RecoveryStart
        /\ client = "connected" /\ got = <<>> /\ thought = <<>> /\ said = <<>> /\ void = 0
        /\ tooled = FALSE /\ ended = "none" /\ cut = FALSE
    BY DEF Init, ProxyAssumption
  <1>2. /\ <<>> \in Seq(Piece) /\ <<>> \in Seq(Fragment) /\ <<>> \in Seq(Choice) /\ Len(<<>>) = 0
        /\ TextOf(<<>>) = <<>> /\ CallsIn(<<>>) = 0 /\ Count("call", <<>>) = 0
        /\ (<<>> \o <<>>) \o <<>> = <<>> /\ Words(<<>>) = <<>>
    BY TextOfOut, CallsInOut, CountEmpty, WordsEmpty
  <1>3. /\ SplitStart \in SplitStates /\ SplitStart.buffer = <<>> /\ ~SplitStart.decided
        /\ ~SplitStart.in_reasoning /\ Len(SplitStart.buffer) < Threshold
    BY <1>2, RewriterAssumption DEF SplitStart, SplitStates, RewriterAssumption
  <1>4. RecoveryStart \in RecoveryStates /\ RecoveryStart.buffer = <<>> /\ Faithful(RecoveryStart)
    BY <1>2 DEF RecoveryStart, RecoveryStates, Faithful
  <1>5. ChainOK
    BY <1>1, <1>3, <1>4 DEF ChainOK, SplitOK
  <1>6. Received = <<>> /\ Calls = 0
    BY <1>1, <1>2, ReceivedIs
  <1>7. AllText = <<>> /\ AllCalls = 0
    BY <1>1, <1>2, <1>3, <1>4, <1>6 DEF AllText, AllCalls
  <1>8. StateOK
    BY <1>1, <1>2, <1>3, <1>4 DEF StateOK, Finish
  <1>9. TextConserved /\ CallNotTwice /\ WholeConserved /\ NoVoidGeneration
    BY <1>1, <1>2, <1>6 DEF TextConserved, CallNotTwice, WholeConserved, NoVoidGeneration
  <1>10. Untouched
    BY <1>1 DEF Untouched
  <1>11. thought \o said = <<>>
    BY <1>1, <1>2
  <1> QED
    BY <1>1, <1>2, <1>4, <1>5, <1>7, <1>8, <1>9, <1>10, <1>11 DEF Flows

LEMMA FlowsStep == ASSUME ProxyAssumption, Flows, [Next]_vars PROVE Flows'
  <1>1. client \in {"connected", "gone"}
    BY DEF Flows, StateOK
  <1>2. CASE \E chunks \in Retrievals, fails \in BOOLEAN : Forward(chunks, fails)
    <2>1. /\ UNCHANGED <<deployment, stages, got, answer>> /\ client' = client
          /\ pc = "asked" /\ pc' = "forwarded"
      BY <1>2 DEF Forward
    <2> QED
      BY <2>1, QuietStep DEF Flowing
  <1>3. CASE Accept \/ Open \/ Break
    <2>1. /\ UNCHANGED <<deployment, stages, got, answer>> /\ client' = client
          /\ \/ pc = "forwarded" /\ pc' = "accepted"
             \/ pc = "accepted" /\ pc' = "stream"
             \/ pc \in {"accepted", "stream"} /\ pc' \in {"broken", "cancelled"}
      BY <1>3 DEF Accept, Open, Break
    <2> QED
      BY <2>1, QuietStep DEF Flowing
  <1>4. CASE ClientLeaves
    <2>1. /\ UNCHANGED <<deployment, stages, got, answer>> /\ client' = "gone" /\ pc' = pc
      BY <1>4 DEF ClientLeaves
    <2> QED
      BY <2>1, QuietStep
  <1>5. CASE UsageChunk
    <2>1. /\ UNCHANGED <<deployment, stages, got, answer>> /\ client' = client
          /\ pc = "stream" /\ pc' = "cancelled"
      BY <1>5 DEF UsageChunk, Cancel
    <2> QED
      BY <2>1, QuietStep DEF Flowing
  <1>6. CASE UNCHANGED vars
    <2>1. /\ UNCHANGED <<deployment, stages, got, answer>> /\ client' = client /\ pc' = pc
      BY <1>6 DEF vars, deployment, stages, answer
    <2> QED
      BY <2>1, QuietStep
  <1>7. CASE \E message \in Messages, fails \in BOOLEAN : AnswerWhole(message, fails)
    BY <1>7, AnswerStep
  <1>8. CASE \E t \in Deltas, finish \in {"none", "length"} : ContentChunk(t, finish)
    BY <1>8, ContentStep
  <1>9. CASE ReasoningChunk
    BY <1>9, ReasoningStep
  <1>10. CASE ToolChunk
    BY <1>10, ToolStep
  <1>11. CASE FinishChunk("length")
    BY <1>11, FinishStep
  <1>12. CASE Done
    BY <1>12, DoneStep
  <1> QED
    BY <1>2, <1>3, <1>4, <1>5, <1>6, <1>7, <1>8, <1>9, <1>10, <1>11, <1>12 DEF Next

LEMMA AlwaysFlows == Spec => [](RequestOK /\ Flows)
  <1>1. ProxyAssumption /\ Init => RequestOK /\ Flows
    BY RequestInit, FlowsInit
  <1>2. ProxyAssumption /\ RequestOK /\ Flows /\ [Next]_vars => RequestOK' /\ Flows'
    BY RequestStep, FlowsStep
  <1> QED
    BY <1>1, <1>2, ProxyAssumption, PTL DEF Spec

\* stream_tool_recovery is undecided only while it may.
Undecided(q) == q.decision = "deciding" => Len(q.buffer) < Threshold \/ MayOpen(q.buffer)

LEMMA RecoverChoiceUndecided ==
    ASSUME NEW q \in RecoveryStates, NEW d, Plain(d), Undecided(q)
    PROVE  Undecided(RecoverChoice(q, d).state)
  <1> DEFINE held == Holds(q, d.content)
  <1>1. CASE d.parsed \/ q.decision = "passthrough"
    BY <1>1 DEF RecoverChoice, Forwards, Undecided, RecoveryStates
  <1>2. CASE ~d.parsed /\ q.decision # "passthrough" /\ d.content = None
    <2>1. RecoverChoice(q, d) = RecoverNoContent(q, d)
      BY <1>2 DEF RecoverChoice
    <2>2. Passing(q).decision = "passthrough"
      BY DEF Passing, Emptied, RecoveryStates
    <2>3. RecoverNoContent(q, d).state \in {q, Passing(q)}
      BY DEF RecoverNoContent, Forwards
    <2> QED
      BY <2>1, <2>2, <2>3 DEF Undecided
  <1>3. CASE ~d.parsed /\ q.decision # "passthrough" /\ d.content # None
    <2>1. d.content \in Seq(Piece) /\ q.buffer \in Seq(Piece)
      BY <1>3 DEF Plain, Delta, Choice, RecoveryStates
    <2>2. held \in RecoveryStates /\ held.decision = q.decision
      <3>0. q.buffer \o d.content \in Seq(Piece)
        BY <2>1
      <3>1. PICK u \in Seq(Piece) : u = q.buffer \o d.content
        BY <3>0, Zenon
      <3>2. held = [q EXCEPT !.buffer = u]
        BY <3>1 DEF Holds
      <3> HIDE DEF held
      <3> QED
        BY <3>2 DEF RecoveryStates
    <2> HIDE DEF held
    <2>3. CASE q.decision = "deciding"
      <3>1. RecoverChoice(q, d) = RecoverDeciding(held, d.finish)
        BY <1>3, <2>3 DEF RecoverChoice, held
      <3> DEFINE leaking == [held EXCEPT !.decision = "buffering"]
      <3>2. /\ leaking.decision = "buffering" /\ Emptied(leaking).decision = "buffering"
            /\ Passing(held).decision = "passthrough"
        BY <2>2 DEF Emptied, Passing, RecoveryStates
      <3>3. ClassifyStreamingBuffer(held.buffer) \notin {"leak", "no-leak"} =>
              Len(held.buffer) < Threshold \/ MayOpen(held.buffer)
        BY DEF ClassifyStreamingBuffer, MayOpen
      <3>4. \/ RecoverDeciding(held, d.finish).state \in {leaking, Emptied(leaking), Passing(held)}
            \/ /\ RecoverDeciding(held, d.finish).state = held
               /\ ClassifyStreamingBuffer(held.buffer) \notin {"leak", "no-leak"}
        BY DEF RecoverDeciding, Forwards
      <3> HIDE DEF leaking
      <3> QED
        BY <3>1, <3>2, <3>3, <3>4 DEF Undecided
    <2>4. CASE q.decision # "deciding"
      <3>1. RecoverChoice(q, d) = RecoverBuffering(held, d.finish)
        BY <1>3, <2>4 DEF RecoverChoice, held
      <3>2. Emptied(held).decision = q.decision
        BY <2>2 DEF Emptied, RecoveryStates
      <3>3. RecoverBuffering(held, d.finish).state \in {held, Emptied(held)}
        BY DEF RecoverBuffering, Forwards
      <3> QED
        BY <2>2, <2>4, <3>1, <3>2, <3>3 DEF Undecided
    <2> QED
      BY <2>3, <2>4
  <1> QED
    BY <1>1, <1>2, <1>3

LEMMA FurtherUndecided ==
    ASSUME NEW f, f.state \in RecoveryStates, Undecided(f.state), NEW x, Plain(x)
    PROVE  Further(f, x).state \in RecoveryStates /\ Undecided(Further(f, x).state)
  <1>1. PICK q \in RecoveryStates : q = f.state
    OBVIOUS
  <1>2. Further(f, x).state = RecoverChoice(q, x).state
    BY <1>1 DEF Further, Forwards
  <1>3. RecoverChoice(q, x).state \in RecoveryStates
    BY RecoverChoiceSound DEF Carries
  <1>4. Undecided(RecoverChoice(q, x).state)
    BY <1>1, RecoverChoiceUndecided
  <1> QED
    BY <1>2, <1>3, <1>4

LEMMA ThroughRecoveryUndecided ==
    ASSUME ChainOK, Undecided(recovery), NEW out, Parts(out)
    PROVE  Undecided(ThroughRecovery(out).state)
  <1>1. CASE ~recovers
    BY <1>1 DEF ThroughRecovery, Forwards
  <1>2. CASE recovers
    <2> DEFINE zero == Forwards(recovery, <<>>)
    <2>1. zero.state \in RecoveryStates /\ Undecided(zero.state)
      BY DEF ChainOK, Forwards
    <2> HIDE DEF zero
    <2>2. CASE out = <<>>
      <3>1. Len(out) = 0 /\ 0 \in 0 .. 2
        BY <2>2
      <3>2. ThroughRecovery(out) = zero
        BY <1>2, <3>1, ThroughRecoveryIs DEF zero
      <3> QED
        BY <2>1, <3>2
    <2>3. ASSUME NEW x, Plain(x), out = <<x>> PROVE Undecided(ThroughRecovery(out).state)
      <3>1. Len(out) = 1 /\ 1 \in 0 .. 2 /\ out[1] = x
        BY <2>3
      <3>2. ThroughRecovery(out) = Further(zero, x)
        BY <1>2, <3>1, ThroughRecoveryIs DEF zero
      <3> QED
        BY <2>1, <2>3, <3>2, FurtherUndecided
    <2>4. ASSUME NEW x, NEW y, Plain(x), Plain(y), out = <<x, y>>
          PROVE  Undecided(ThroughRecovery(out).state)
      <3>1. Len(out) = 2 /\ 2 \in 0 .. 2 /\ out[1] = x /\ out[2] = y
        BY <2>4
      <3>2. ThroughRecovery(out) = Further(Further(zero, x), y)
        BY <1>2, <3>1, ThroughRecoveryIs DEF zero
      <3>3. PICK f : f = Further(zero, x)
        OBVIOUS
      <3>4. f.state \in RecoveryStates /\ Undecided(f.state)
        BY <2>1, <2>4, <3>3, FurtherUndecided
      <3>5. Undecided(Further(f, y).state)
        BY <2>4, <3>4, FurtherUndecided
      <3> QED
        BY <3>2, <3>3, <3>5
    <2> QED
      BY <2>2, <2>3, <2>4 DEF Parts
  <1> QED
    BY <1>1, <1>2

LEMMA UndecidedChunk ==
    ASSUME Flows, pc = "stream", Undecided(recovery), NEW c, Plain(c), Deliver(c)
    PROVE  Undecided(recovery')
  <1>1. ChainOK
    BY DEF Flows
  <1>2. Parts(ThroughSplit(c).out)
    BY <1>1, ThroughSplitSound
  <1>3. recovery' = ThroughRecovery(ThroughSplit(c).out).state
    BY DEF Deliver
  <1> QED
    BY <1>1, <1>2, <1>3, ThroughRecoveryUndecided

LEMMA UndecidedDone ==
    ASSUME Flows, Undecided(recovery), Done
    PROVE  Undecided(recovery')
  <1> DEFINE shown == ThroughRecovery(AtDone)
             rest == IF recovers THEN RecoveryDone(shown.state) ELSE Forwards(shown.state, <<>>)
  <1>1. pc = "stream" /\ (recovery' = rest.state \/ UNCHANGED recovery)
    BY DEF Done, AtDone
  <1>2. ChainOK
    BY <1>1 DEF Flows
  <1>3. Undecided(shown.state) /\ shown.state \in RecoveryStates
    BY <1>2, SplitDoneSound, ThroughRecoverySound, ThroughRecoveryUndecided DEF CarriesAll
  <1> HIDE DEF shown
  <1>4. rest.state \in {shown.state, Passing(shown.state)}
    BY DEF RecoveryDone, Forwards
  <1>5. Passing(shown.state).decision = "passthrough"
    BY <1>3 DEF Passing, Emptied, RecoveryStates
  <1> HIDE DEF rest
  <1> QED
    BY <1>1, <1>3, <1>4, <1>5 DEF Undecided

LEMMA UndecidedStep ==
    ASSUME ProxyAssumption, Flows, Undecided(recovery), [Next]_vars
    PROVE  Undecided(recovery')
  <1>1. CASE UNCHANGED recovery
    BY <1>1
  <1>2. CASE \/ \E chunks \in Retrievals, fails \in BOOLEAN : Forward(chunks, fails)
             \/ \E message \in Messages, fails \in BOOLEAN : AnswerWhole(message, fails)
             \/ Accept \/ Open \/ UsageChunk \/ Break \/ ClientLeaves \/ UNCHANGED vars
    BY <1>1, <1>2 DEF Forward, AnswerWhole, Accept, Open, UsageChunk, Break, ClientLeaves, vars, stages
  <1>3. ASSUME NEW t \in Deltas, NEW f \in {"none", "length"}, ContentChunk(t, f)
        PROVE  Undecided(recovery')
    <2>1. t \in Seq(Piece) /\ f \in Finish
      BY DeltaType DEF Flows, Finish
    <2>2. Plain(Content(t, f))
      BY <2>1, ContentChoice
    <2> QED
      BY <1>3, <2>2, UndecidedChunk DEF ContentChunk, Streaming
  <1>4. CASE ReasoningChunk
    <2>1. <<"word">> \in Seq(Piece) /\ "none" \in Finish
      BY OneElement DEF Piece, Finish
    <2>2. Plain(Reasoning(<<"word">>, "none"))
      BY <2>1, ReasoningChoice
    <2> QED
      BY <1>4, <2>2, UndecidedChunk DEF ReasoningChunk, Streaming
  <1>5. CASE ToolChunk
    <2>1. PICK c : c = [Empty("none") EXCEPT !.parsed = TRUE]
      OBVIOUS
    <2>2. PICK e \in Choice : /\ e = Empty("none") /\ e.reasoning = <<>> /\ e.content = None
                              /\ e.recovered = 0 /\ e.finish = "none"
      BY EmptyChoice DEF Plain, Delta, Finish
    <2>3. c \in Choice /\ c.reasoning = <<>> /\ c.content = None /\ c.recovered = 0
      BY <2>1, <2>2 DEF Choice
    <2>4. Plain(c)
      BY <2>3 DEF Plain, Delta
    <2> QED
      BY <1>5, <2>1, <2>4, UndecidedChunk DEF ToolChunk, Streaming
  <1>6. CASE FinishChunk("length")
    <2>1. Plain(Empty("length"))
      BY EmptyChoice DEF Finish
    <2> QED
      BY <1>6, <2>1, UndecidedChunk DEF FinishChunk, Streaming
  <1>7. CASE Done
    BY <1>7, UndecidedDone
  <1> QED
    BY <1>2, <1>3, <1>4, <1>5, <1>6, <1>7 DEF Next

LEMMA UndecidedInit == Init => Undecided(recovery)
  <1>1. Len(<<>>) = 0 /\ 0 < Threshold
    BY RewriterAssumption DEF RewriterAssumption
  <1> QED
    BY <1>1 DEF Init, RecoveryStart, Undecided

\* For any deployment, requests, retrieval and answers the state of a completion
\* stays well typed, stream_rewriter undecided below its threshold only, and
\* stream_tool_recovery below it or while the text may open a call.
THEOREM TypeCorrect == Spec => []ProxyTypeOK
  <1>1. RequestOK /\ Flows /\ Undecided(recovery) => ProxyTypeOK
    BY DEF RequestOK, Flows, StateOK, SplitStates, RecoveryStates, Undecided, ProxyTypeOK
  <1>2. Init => Undecided(recovery)
    BY UndecidedInit
  <1>3. ProxyAssumption /\ Flows /\ Undecided(recovery) /\ [Next]_vars => Undecided(recovery)'
    BY UndecidedStep DEF Undecided
  <1> QED
    BY <1>1, <1>2, <1>3, AlwaysFlows, ProxyAssumption, PTL DEF Spec

\* Whatever vLLM generates and however it is cut into deltas, no word is lost,
\* repeated or overtaken between vLLM and the client.
THEOREM NoWordLost == Spec => []TextConserved
  <1>1. Flows => TextConserved
    BY DEF Flows
  <1> QED
    BY <1>1, AlwaysFlows, PTL

\* No leaked call reaches the client both as a call and as text.
THEOREM NoCallTwice == Spec => []CallNotTwice
  <1>1. Flows => CallNotTwice
    BY DEF Flows
  <1> QED
    BY <1>1, AlwaysFlows, PTL

\* Rewriting an answer in one piece keeps its words and its calls, and its finish
\* reason tells of a recovered one.
THEOREM AnswerConserved == Spec => []WholeConserved
  <1>1. Flows => WholeConserved
    BY DEF Flows
  <1> QED
    BY <1>1, AlwaysFlows, PTL

\* What is generated for a client gone is never more than the stages hold back.
THEOREM VoidBounded == Spec => []NoVoidGeneration
  <1>1. Flows => NoVoidGeneration
    BY DEF Flows
  <1> QED
    BY <1>1, AlwaysFlows, PTL

-----------------------------------------------------------------------------
(* The block of retrieved code                                             *)

Blocks == [used : Nat, kept : Seq(Chunk), closed : BOOLEAN]

FirstBlock == [used |-> 27, kept |-> <<>>, closed |-> FALSE]

\* What holds of the block when n of the chunks found have been looked at: it has
\* a first part of them in order, and is closed at the first that has no room.
Filled(block, found, n) ==
    /\ block \in Blocks
    /\ block.used <= MaxChars + 15
    /\ Len(block.kept) <= n /\ block.kept = SubSeq(found, 1, Len(block.kept))
    /\ ~block.closed => Len(block.kept) = n
    /\ block.closed =>
          /\ Len(block.kept) < n
          /\ Room(block.used, found[Len(block.kept) + 1]) <= 200

relevantOf == [c \in Chunk |-> IF c.scored THEN <<c>> ELSE <<>>]

LEMMA RelevantType ==
    ASSUME NEW chunks \in Seq(Chunk)
    PROVE  Relevant(chunks) \in Seq(Chunk)
  <1>1. relevantOf \in Each(Chunk, Seq(Chunk))
    BY DEF relevantOf, Each
  <1>2. \A i \in DOMAIN chunks : chunks[i] \in Chunk
    OBVIOUS
  <1>3. Map(relevantOf, chunks) = [i \in DOMAIN chunks |-> IF chunks[i].scored THEN <<chunks[i]>> ELSE <<>>]
    BY <1>2 DEF Map, relevantOf
  <1>4. Relevant(chunks) = FlatMap(relevantOf, chunks)
    BY <1>3 DEF Relevant, FlatMap
  <1> QED
    BY <1>1, <1>4, FlatMapType

\* A chunk that there is room for leaves the block within its cap.
LEMMA AddChunkFits ==
    ASSUME NEW b \in Blocks, NEW c \in Chunk, ~b.closed, Room(b.used, c) > 200
    PROVE  /\ AddChunk(b, c) \in Blocks /\ AddChunk(b, c).used <= MaxChars + 15
           /\ AddChunk(b, c).kept = Append(b.kept, c) /\ ~AddChunk(b, c).closed
  <1>1. b.used \in Nat /\ c.header \in Nat /\ c.size \in Nat /\ b.kept \in Seq(Chunk)
    BY DEF Blocks, Chunk
  <1>2. PICK room \in Int : room = Room(b.used, c) /\ room = 16384 - b.used - (c.header + 12)
    BY <1>1 DEF Room, MaxChars
  <1>3. room > 200
    BY <1>2
  <1>4. AddChunk(b, c) = [used |-> b.used + Fenced(b.used, c), kept |-> Append(b.kept, c), closed |-> FALSE]
    <2>1. ~(Room(b.used, c) <= 200)
      BY <1>2, <1>3
    <2> QED
      BY <2>1 DEF AddChunk
  <1>5. PICK kept \in Nat : /\ kept = Kept(b.used, c)
                           /\ (kept = room + 16 \/ kept <= room)
    <2>1. PICK size \in Nat : size = c.size
      BY <1>1
    <2>2. Kept(b.used, c) = IF size > room THEN room + 16 ELSE size
      BY <1>2, <2>1 DEF Kept
    <2> QED
      BY <1>3, <2>2
  <1>6. /\ b.used + Fenced(b.used, c) \in Nat
        /\ b.used + Fenced(b.used, c) <= MaxChars + 15
    <2>1. PICK u \in Nat, h \in Nat : u = b.used /\ h = c.header
      BY <1>1
    <2>2. room = 16384 - u - (h + 12)
      BY <1>2, <2>1
    <2>3. u + (h + 11 + kept) \in Nat /\ u + (h + 11 + kept) <= 16384 + 15
      BY ONLY <1>5, <2>2, u \in Nat, h \in Nat, kept \in Nat, room \in Int
    <2> QED
      BY <1>5, <2>1, <2>3 DEF Fenced, MaxChars
  <1>7. Append(b.kept, c) \in Seq(Chunk)
    BY <1>1
  <1>8. PICK u \in Nat, k \in Seq(Chunk) : u = b.used + Fenced(b.used, c) /\ k = Append(b.kept, c)
    BY <1>6, <1>7, Zenon
  <1>9. AddChunk(b, c) = [used |-> u, kept |-> k, closed |-> FALSE]
    BY <1>4, <1>8
  <1> QED
    BY <1>6, <1>8, <1>9 DEF Blocks

LEMMA AddChunkType ==
    ASSUME NEW b \in Blocks, NEW c \in Chunk
    PROVE  AddChunk(b, c) \in Blocks
  <1>1. CASE b.closed
    BY <1>1 DEF AddChunk
  <1>2. CASE ~b.closed /\ Room(b.used, c) <= 200
    <2>1. AddChunk(b, c) = [b EXCEPT !.closed = TRUE]
      BY <1>2 DEF AddChunk, Stops
    <2> QED
      BY <2>1 DEF Blocks
  <1>3. CASE ~b.closed /\ Room(b.used, c) > 200
    BY <1>3, AddChunkFits
  <1>4. Room(b.used, c) <= 200 \/ Room(b.used, c) > 200
    BY DEF Room, MaxChars, Blocks, Chunk
  <1> QED
    BY <1>1, <1>2, <1>3, <1>4

LEMMA AddChunkFills ==
    ASSUME NEW found \in Seq(Chunk), NEW n \in 0 .. Len(found), n < Len(found),
           NEW b, Filled(b, found, n)
    PROVE  Filled(AddChunk(b, found[n + 1]), found, n + 1)
  <1> DEFINE c == found[n + 1]
             r == AddChunk(b, c)
  <1>1. c \in Chunk /\ b \in Blocks /\ b.used \in Nat /\ b.kept \in Seq(Chunk) /\ Len(b.kept) \in Nat
    BY DEF Filled, Blocks
  <1>2. r \in Blocks
    BY <1>1, AddChunkType
  <1>3. ASSUME b.closed
        PROVE  Filled(r, found, n + 1)
    <2>1. r = b
      BY <1>3 DEF AddChunk
    <2>2. Filled(b, found, n + 1)
      BY <1>1, <1>3 DEF Filled
    <2> QED
      BY <2>1, <2>2
  <1>4. ASSUME ~b.closed, Room(b.used, c) <= 200
        PROVE  Filled(r, found, n + 1)
    <2>1. r = [b EXCEPT !.closed = TRUE]
      BY <1>4 DEF AddChunk, Stops
    <2>2. r.used = b.used /\ r.kept = b.kept /\ r.closed
      BY <1>1, <2>1 DEF Blocks
    <2>3. Len(b.kept) = n /\ b.used <= MaxChars + 15 /\ b.kept = SubSeq(found, 1, Len(b.kept))
      BY <1>4 DEF Filled
    <2>4. Room(r.used, found[Len(r.kept) + 1]) <= 200
      BY <1>4, <2>2, <2>3
    <2> HIDE DEF r, c
    <2> QED
      BY <1>1, <1>2, <2>2, <2>3, <2>4 DEF Filled
  <1>5. ASSUME ~b.closed, Room(b.used, c) > 200
        PROVE  Filled(r, found, n + 1)
    <2>1. r.used <= MaxChars + 15 /\ r.kept = Append(b.kept, c) /\ ~r.closed
      BY <1>1, <1>5, AddChunkFits
    <2>2. Len(b.kept) = n /\ b.kept = SubSeq(found, 1, n)
      BY <1>5 DEF Filled
    <2>3. Len(r.kept) = n + 1
      BY <1>1, <2>1, <2>2
    <2>4. r.kept = SubSeq(found, 1, n + 1)
      BY <2>1, <2>2
    <2> HIDE DEF r, c
    <2> QED
      BY <1>2, <2>1, <2>3, <2>4 DEF Filled
  <1>6. Room(b.used, c) <= 200 \/ Room(b.used, c) > 200
    <2> HIDE DEF c
    <2> QED
      BY <1>1, SMTT(30) DEF Room, MaxChars, Chunk
  <1> QED
    BY <1>3, <1>4, <1>5, <1>6

LEMMA FormatBlockFills ==
    ASSUME NEW found \in Seq(Chunk)
    PROVE  Filled(FormatBlock(found), found, Len(found))
  <1> DEFINE Body(F) == [n \in 0 .. Len(found) |-> IF n = 0 THEN FirstBlock ELSE AddChunk(F[n - 1], found[n])]
             C == CHOOSE F : F = Body(F)
  <1>1. FormatBlock(found) = C[Len(found)]
    BY DEF FormatBlock, FirstBlock
  <1>2. PICK m \in Nat : m = Len(found)
    OBVIOUS
  <1>3. \A i \in 1 .. m : found[i] \in Chunk
    BY <1>2
  <1>4. FirstBlock \in Blocks
    <2>1. <<>> \in Seq(Chunk)
      OBVIOUS
    <2> QED
      BY <2>1 DEF FirstBlock, Blocks
  <1>5. PICK D \in Steps(m, Blocks) : \A i \in 1 .. m : D[i] = [b \in Blocks |-> AddChunk(b, found[i])]
    <2> DEFINE D == [i \in 1 .. m |-> [b \in Blocks |-> AddChunk(b, found[i])]]
    <2>1. D \in Steps(m, Blocks)
      BY <1>3, AddChunkType DEF Steps
    <2> HIDE DEF Body, C
    <2> QED
      BY <2>1
  <1>6. PICK W \in Values(m, Blocks) : Follows(W, FirstBlock, m, D)
    BY <1>4, RecursionExists
  <1>7. W = Body(W)
    <2>1. ASSUME NEW n \in 0 .. m PROVE W[n] = Body(W)[n]
      <3>1. CASE n = 0
        BY <1>2, <1>6, <3>1 DEF Follows
      <3>2. CASE n # 0
        <4>1. n \in 1 .. m /\ n - 1 \in 0 .. m
          BY <3>2
        <4>2. W[n - 1] \in Blocks
          BY <4>1 DEF Values
        <4>3. W[n] = D[n][W[n - 1]]
          BY <1>6, <4>1 DEF Follows
        <4>4. W[n] = AddChunk(W[n - 1], found[n])
          BY <1>5, <4>1, <4>2, <4>3
        <4> QED
          BY <1>2, <3>2, <4>4
      <3> QED
        BY <3>1, <3>2
    <2>2. W = [n \in 0 .. m |-> W[n]]
      BY DEF Values
    <2> QED
      BY <1>2, <2>1, <2>2
  <1>8. C = Body(C)
    BY <1>7
  <1> HIDE DEF C
  <1>9. C[0] = FirstBlock
    BY <1>2, <1>8
  <1>10. \A n \in 1 .. m : C[n] = AddChunk(C[n - 1], found[n])
    BY <1>2, <1>8
  <1> DEFINE G == {n \in 0 .. m : Filled(C[n], found, n)}
  <1>11. 0 \in G
    <2>1. FirstBlock.kept = <<>> /\ FirstBlock.used = 27 /\ ~FirstBlock.closed
      BY DEF FirstBlock
    <2>2. SubSeq(found, 1, 0) = <<>> /\ Len(<<>>) = 0
      OBVIOUS
    <2>3. Filled(FirstBlock, found, 0)
      BY <1>4, <2>1, <2>2 DEF Filled, MaxChars
    <2> QED
      BY <1>9, <2>3
  <1>12. ASSUME NEW n \in 0 .. m, n < m, n \in G PROVE n + 1 \in G
    <2>1. n + 1 \in 1 .. m /\ n + 1 \in 0 .. m /\ n + 1 - 1 = n
      BY <1>12
    <2>2. C[n + 1] = AddChunk(C[n], found[n + 1])
      BY <1>10, <2>1
    <2>3. Filled(C[n], found, n)
      BY <1>12
    <2>4. Filled(AddChunk(C[n], found[n + 1]), found, n + 1)
      BY <1>2, <1>12, <2>3, AddChunkFills
    <2> QED
      BY <2>1, <2>2, <2>4
  <1> HIDE DEF G
  <1>13. m \in G
    BY <1>11, <1>12, Induction
  <1> QED
    BY <1>1, <1>2, <1>13 DEF G

\* Whatever is retrieved, the block stays within its cap and leaves no chunk out
\* but for want of room.
THEOREM BlockAlwaysFits == Spec => []BlockFits
  <1>1. ASSUME RequestOK
        PROVE  BlockFits
    <2> DEFINE found == Relevant(request.chunks)
               block == FormatBlock(found)
    <2>1. found \in Seq(Chunk)
      <3>1. request.chunks \in Seq(Chunk)
        BY <1>1 DEF RequestOK
      <3> QED
        BY <3>1, RelevantType
    <2> HIDE DEF found
    <2>2. Filled(block, found, Len(found))
      BY <2>1, FormatBlockFills
    <2> HIDE DEF block
    <2>3. PICK k \in Seq(Chunk) : k = block.kept
      BY <2>2 DEF Filled, Blocks
    <2>4. Len(k) <= Len(found) /\ k = SubSeq(found, 1, Len(k)) /\ block.used \in Nat
      BY <2>2, <2>3 DEF Filled, Blocks
    <2>5. IsPrefix(k, found)
      <3>1. SubSeq(k, 1, Len(k)) = k
        BY SubSeqFull
      <3> QED
        BY <2>4, <3>1 DEF IsPrefix
    <2>6. ASSUME Len(k) < Len(found)
          PROVE  block.used + found[Len(k) + 1].header + 212 >= MaxChars
      <3>1. Room(block.used, found[Len(k) + 1]) <= 200
        <4>1. block.closed
          BY <2>2, <2>3, <2>6 DEF Filled
        <4> QED
          BY <2>2, <2>3, <4>1 DEF Filled
      <3>2. Len(k) + 1 \in 1 .. Len(found)
        BY <2>1, <2>6
      <3>3. PICK c \in Chunk : c = found[Len(k) + 1]
        BY <2>1, <3>2
      <3>4. PICK h \in Nat, u \in Nat : h = c.header /\ u = block.used
        BY <2>4 DEF Chunk
      <3>5. 16384 - u - (h + 12) <= 200
        BY <3>1, <3>3, <3>4 DEF Room, MaxChars
      <3>6. u + h + 212 >= 16384
        BY <3>5
      <3> QED
        BY <3>3, <3>4, <3>6 DEF MaxChars
    <2> QED
      BY <2>2, <2>3, <2>5, <2>6 DEF BlockFits, Filled, found, block
  <1> QED
    BY <1>1, AlwaysFlows, PTL

-----------------------------------------------------------------------------
(* What a conversation says                                                *)

Roles == {"system", "user", "assistant"}

\* A role's piece, its text, and a message's texts, as Spoken says them.
saysPiece(r, P) == [p \in P |-> <<r, p>>]

saysText(r, P) == [t \in Seq(P) |-> Map(saysPiece(r, P), t)]

says(P) == [m \in MessageOf(P) |-> Spoken(m)]

LEMMA SaysType ==
    ASSUME NEW P, NEW R, NEW r \in R
    PROVE  saysPiece(r, P) \in Each(P, R \X P) /\ saysText(r, P) \in Each(Seq(P), Seq(R \X P))
  <1>1. saysPiece(r, P) \in Each(P, R \X P)
    BY DEF saysPiece, Each
  <1>2. \A t \in Seq(P) : Map(saysPiece(r, P), t) \in Seq(R \X P)
    BY <1>1, MapType
  <1> QED
    BY <1>1, <1>2 DEF saysText, Each

LEMMA SpokenIs ==
    ASSUME NEW P, NEW m \in MessageOf(P)
    PROVE  Spoken(m) = FlatMap(saysText(m.role, P), m.texts)
  <1>1. m.texts \in Seq(Seq(P))
    BY DEF MessageOf
  <1>2. ASSUME NEW t \in Seq(P)
        PROVE  saysText(m.role, P)[t] = [j \in DOMAIN t |-> <<m.role, t[j]>>]
    <2>1. \A j \in DOMAIN t : t[j] \in P
      OBVIOUS
    <2>2. Map(saysPiece(m.role, P), t) = [j \in DOMAIN t |-> <<m.role, t[j]>>]
      BY <2>1 DEF Map, saysPiece
    <2> QED
      BY <2>2 DEF saysText
  <1>3. \A i \in DOMAIN m.texts : m.texts[i] \in Seq(P)
    BY <1>1
  <1>4. Map(saysText(m.role, P), m.texts)
        = [i \in DOMAIN m.texts |-> [j \in DOMAIN m.texts[i] |-> <<m.role, m.texts[i][j]>>]]
    BY <1>2, <1>3 DEF Map
  <1> QED
    BY <1>4 DEF Spoken, FlatMap

LEMMA SpokenType ==
    ASSUME NEW P, NEW R, NEW m \in MessageOf(P), m.role \in R
    PROVE  Spoken(m) \in Seq(R \X P)
  <1>1. m.texts \in Seq(Seq(P))
    BY DEF MessageOf
  <1>2. saysText(m.role, P) \in Each(Seq(P), Seq(R \X P))
    BY SaysType
  <1> QED
    BY <1>1, <1>2, SpokenIs, FlatMapType

LEMMA AllSpokenIs ==
    ASSUME NEW P, NEW messages \in Seq(MessageOf(P))
    PROVE  AllSpoken(messages) = FlatMap(says(P), messages)
  <1>1. \A i \in DOMAIN messages : messages[i] \in MessageOf(P)
    OBVIOUS
  <1>2. Map(says(P), messages) = [i \in DOMAIN messages |-> Spoken(messages[i])]
    BY <1>1 DEF Map, says
  <1> QED
    BY <1>2 DEF AllSpoken, FlatMap

LEMMA SaysAll ==
    ASSUME NEW P
    PROVE  says(P) \in Each(MessageOf(P), Seq(Roles \X P))
  <1>1. \A m \in MessageOf(P) : m.role \in Roles
    BY DEF MessageOf, Roles
  <1>2. \A m \in MessageOf(P) : Spoken(m) \in Seq(Roles \X P)
    BY <1>1, SpokenType
  <1> QED
    BY <1>2 DEF says, Each

\* A conversation says what its messages say, in order.
LEMMA AllSpokenConcat ==
    ASSUME NEW P, NEW a \in Seq(MessageOf(P)), NEW b \in Seq(MessageOf(P))
    PROVE  AllSpoken(a \o b) = AllSpoken(a) \o AllSpoken(b)
  <1>1. a \o b \in Seq(MessageOf(P))
    BY ConcatProperties
  <1>2. PICK A, B, e : e \in Each(A, Seq(B)) /\ A = MessageOf(P) /\ e = says(P)
    BY SaysAll
  <1>3. a \in Seq(A) /\ b \in Seq(A)
    BY <1>2
  <1>4. FlatMap(e, a \o b) = FlatMap(e, a) \o FlatMap(e, b)
    BY ONLY <1>2, <1>3, FlatMapConcat, ZenonT(40)
  <1> QED
    BY <1>1, <1>2, <1>4, AllSpokenIs

LEMMA AllSpokenOne ==
    ASSUME NEW P, NEW m \in MessageOf(P)
    PROVE  AllSpoken(<<m>>) = Spoken(m)
  <1>1. <<m>> \in Seq(MessageOf(P))
    OBVIOUS
  <1>2. PICK A, B, e : e \in Each(A, Seq(B)) /\ A = MessageOf(P) /\ e = says(P)
    BY SaysAll
  <1>3. FlatMap(e, <<m>>) = e[m]
    BY <1>2, FlatMapOne
  <1> QED
    BY <1>1, <1>2, <1>3, AllSpokenIs DEF says

\* Only the roles of its messages speak in it.
LEMMA AllSpokenType ==
    ASSUME NEW P, NEW R, NEW messages \in Seq(MessageOf(P)),
           \A i \in DOMAIN messages : messages[i].role \in R
    PROVE  AllSpoken(messages) \in Seq(R \X P)
  <1> DEFINE A == {m \in MessageOf(P) : m.role \in R}
             e == [m \in A |-> Spoken(m)]
  <1>1. messages \in Seq(A)
    OBVIOUS
  <1>2. \A m \in A : Spoken(m) \in Seq(R \X P)
    BY SpokenType
  <1>3. e \in Each(A, Seq(R \X P))
    BY <1>2 DEF Each
  <1>4. \A i \in DOMAIN messages : messages[i] \in A
    OBVIOUS
  <1>5. Map(e, messages) = [i \in DOMAIN messages |-> Spoken(messages[i])]
    BY <1>4 DEF Map
  <1> HIDE DEF e, A
  <1>6. FlatMap(e, messages) \in Seq(R \X P)
    BY <1>1, <1>3, FlatMapType
  <1> QED
    BY <1>5, <1>6 DEF AllSpoken, FlatMap

\* The block as it is spoken, and in front of what its message says.
BlockSaid == <<"system", Block>>

LEMMA SpokenBlock ==
    LET new == [role |-> "system", listed |-> FALSE, texts |-> <<<<Block>>>>]
    IN  Spoken(new) = <<BlockSaid>>
  <1> DEFINE new == [role |-> "system", listed |-> FALSE, texts |-> <<<<Block>>>>]
             All == STRING \cup {Block}
             e == saysText("system", All)
  <1>1. Spoken(new) = FlatMap(e, <<<<Block>>>>)
    <2>1. new \in MessageOf(All)
      BY BlockMessage DEF Message
    <2>2. new.role = "system" /\ new.texts = <<<<Block>>>>
      OBVIOUS
    <2> HIDE DEF new, All
    <2> QED
      BY <2>1, <2>2, SpokenIs
  <1>2. <<Block>> \in Seq(All) /\ Block \in All
    OBVIOUS
  <1>3. e \in Each(Seq(All), Seq(Roles \X All))
    <2>1. "system" \in Roles
      BY DEF Roles
    <2> HIDE DEF All
    <2> QED
      BY <2>1, SaysType
  <1> HIDE DEF All, new
  <1>4. FlatMap(e, <<<<Block>>>>) = e[<<Block>>]
    <2> HIDE DEF e
    <2> QED
      BY <1>2, <1>3, FlatMapOne
  <1>5. e[<<Block>>] = Map(saysPiece("system", All), <<Block>>)
    BY <1>2 DEF saysText
  <1>6. Map(saysPiece("system", All), <<Block>>) = <<saysPiece("system", All)[Block]>>
    BY DEF Map
  <1>7. saysPiece("system", All)[Block] = BlockSaid
    BY <1>2 DEF saysPiece, BlockSaid
  <1> QED
    BY <1>1, <1>4, <1>5, <1>6, <1>7 DEF new

LEMMA SpokenInFront ==
    ASSUME NEW m \in Message, m.role = "system"
    PROVE  Spoken(InFront(m)) = <<BlockSaid>> \o Spoken(m)
  <1> DEFINE All == STRING \cup {Block}
             e == saysText("system", All)
             f == saysPiece("system", All)
  <1>1. <<Block>> \in Seq(All) /\ Block \in All
    OBVIOUS
  <1>2. m \in MessageOf(All) /\ InFront(m) \in MessageOf(All) /\ InFront(m).role = "system"
    BY BlockMessage DEF Message
  <1> HIDE DEF All
  <1>3. e \in Each(Seq(All), Seq(Roles \X All)) /\ f \in Each(All, Roles \X All)
    <2>1. "system" \in Roles
      BY DEF Roles
    <2> QED
      BY <2>1, SaysType
  <1>4. \A t \in Seq(All) : e[t] = Map(f, t)
    BY DEF saysText
  <1>5. Map(f, <<Block>>) = <<BlockSaid>>
    <2>1. Map(f, <<Block>>) = <<f[Block]>>
      BY DEF Map
    <2>2. f[Block] = BlockSaid
      BY <1>1 DEF saysPiece, BlockSaid
    <2> QED
      BY <2>1, <2>2
  <1>6. /\ m.texts \in Seq(Seq(All))
        /\ m.listed \/ Len(m.texts) = 1
        /\ m.listed \in BOOLEAN
    BY <1>2 DEF MessageOf
  <1> HIDE DEF e, f
  <1>7. Spoken(m) = FlatMap(e, m.texts) /\ Spoken(InFront(m)) = FlatMap(e, InFront(m).texts)
    BY <1>2, SpokenIs DEF e
  <1>8. ASSUME m.listed
        PROVE  Spoken(InFront(m)) = <<BlockSaid>> \o Spoken(m)
    <2>1. InFront(m).texts = <<<<Block>>>> \o m.texts
      BY <1>2, <1>8 DEF InFront, MessageOf
    <2>2. <<<<Block>>>> \in Seq(Seq(All))
      BY <1>1
    <2>3. PICK b \in Seq(Seq(All)), x \in Seq(Seq(All)) : b = <<<<Block>>>> /\ x = m.texts
      BY <1>6, <2>2, Zenon
    <2>5. FlatMap(e, b \o x) = FlatMap(e, b) \o FlatMap(e, x)
      BY <1>3, FlatMapConcat
    <2>4. FlatMap(e, <<<<Block>>>>) = e[<<Block>>]
      BY <1>1, <1>3, FlatMapOne
    <2> QED
      BY <1>1, <1>4, <1>5, <1>7, <2>1, <2>3, <2>4, <2>5
  <1>9. ASSUME ~m.listed
        PROVE  Spoken(InFront(m)) = <<BlockSaid>> \o Spoken(m)
    <2>1. PICK t \in Seq(All) : t = Head(m.texts) /\ m.texts = <<t>>
      <3>1. PICK u \in Seq(Seq(All)) : u = m.texts /\ Len(u) = 1
        BY <1>6, <1>9
      <3>2. u[1] \in Seq(All) /\ u[1] = Head(u)
        BY <3>1
      <3>3. u = <<u[1]>>
        BY <3>1
      <3> QED
        BY <3>1, <3>2, <3>3, Zenon
    <2>2. InFront(m).texts = <<<<Block>> \o t>>
      BY <1>2, <1>9, <2>1 DEF InFront, MessageOf
    <2>3. PICK v \in Seq(All) : v = <<Block>> \o t
      BY <1>1, ConcatProperties, Zenon
    <2>4. FlatMap(e, <<v>>) = e[v] /\ FlatMap(e, <<t>>) = e[t]
      BY <1>3, FlatMapOne
    <2>5. PICK b \in Seq(All) : b = <<Block>>
      BY <1>1
    <2>6. Map(f, b \o t) = Map(f, b) \o Map(f, t)
      BY <1>3, MapConcat
    <2> QED
      BY <1>4, <1>5, <1>7, <2>1, <2>2, <2>3, <2>4, <2>5, <2>6
  <1> QED
    BY <1>6, <1>8, <1>9

-----------------------------------------------------------------------------
(* A conversation with the block in it                                     *)

Utterance == Roles \X (STRING \cup {Block})

unblockedOf == [u \in Utterance |-> IF u[2] = Block THEN <<>> ELSE <<u>>]

\* Without the block, and where the block is.
Unblocked(sent) ==
    FlattenSeq([i \in DOMAIN sent |-> IF sent[i][2] = Block THEN <<>> ELSE <<sent[i]>>])

BlocksIn(sent) == {i \in DOMAIN sent : sent[i][2] = Block}

LEMMA UnblockedType == unblockedOf \in Each(Utterance, Seq(Utterance))
  <1>1. \A u \in Utterance : <<u>> \in Seq(Utterance) /\ <<>> \in Seq(Utterance)
    OBVIOUS
  <1>2. \A u \in Utterance : (IF u[2] = Block THEN <<>> ELSE <<u>>) \in Seq(Utterance)
    BY <1>1
  <1> QED
    BY <1>2 DEF unblockedOf, Each

LEMMA UnblockedIs ==
    ASSUME NEW sent \in Seq(Utterance)
    PROVE  Unblocked(sent) = FlatMap(unblockedOf, sent)
  <1>1. \A i \in DOMAIN sent : sent[i] \in Utterance
    OBVIOUS
  <1>2. Map(unblockedOf, sent) = [i \in DOMAIN sent |-> IF sent[i][2] = Block THEN <<>> ELSE <<sent[i]>>]
    BY <1>1 DEF Map, unblockedOf
  <1> QED
    BY <1>2 DEF Unblocked, FlatMap

LEMMA UnblockedConcat ==
    ASSUME NEW a \in Seq(Utterance), NEW b \in Seq(Utterance)
    PROVE  Unblocked(a \o b) = Unblocked(a) \o Unblocked(b)
  <1>1. PICK c \in Seq(Utterance) : c = a \o b
    BY ConcatProperties, Zenon
  <1>2. FlatMap(unblockedOf, a \o b) = FlatMap(unblockedOf, a) \o FlatMap(unblockedOf, b)
    BY UnblockedType, FlatMapConcat
  <1> QED
    BY <1>1, <1>2, UnblockedIs

\* What a client says has no block in it.
LEMMA NothingToUnblock ==
    ASSUME EnrichmentAssumption, NEW R, R \subseteq Roles, NEW sent \in Seq(R \X STRING)
    PROVE  sent \in Seq(Utterance) /\ Unblocked(sent) = sent /\ BlocksIn(sent) = {}
  <1> DEFINE A == R \X STRING
             e == [u \in A |-> <<u>>]
  <1>1. \A i \in DOMAIN sent : sent[i] \in A
    OBVIOUS
  <1>2. \A u \in A : u \in Utterance /\ u[2] # Block
    BY DEF EnrichmentAssumption, Utterance
  <1>3. \A i \in DOMAIN sent : sent[i][2] # Block
    BY <1>1, <1>2
  <1>4. BlocksIn(sent) = {}
    BY <1>3 DEF BlocksIn
  <1>5. sent \in Seq(Utterance)
    <2>1. A \subseteq Utterance
      BY <1>2
    <2> QED
      BY <2>1, SeqMonotonic
  <1>6. [i \in DOMAIN sent |-> IF sent[i][2] = Block THEN <<>> ELSE <<sent[i]>>] = Map(e, sent)
    <2>1. \A i \in DOMAIN sent : e[sent[i]] = <<sent[i]>>
      BY <1>1
    <2> HIDE DEF e
    <2> QED
      BY <1>3, <2>1 DEF Map
  <1>7. FlatMap(e, sent) = sent
    <2>1. \A u \in A : <<u>> \in Seq(A)
      OBVIOUS
    <2>2. e \in Each(A, Seq(A)) /\ \A u \in A : e[u] = <<u>>
      BY <2>1 DEF Each
    <2>3. sent \in Seq(A)
      OBVIOUS
    <2> HIDE DEF e, A
    <2> QED
      BY <2>2, <2>3, FlatMapSame
  <1> QED
    BY <1>4, <1>5, <1>6, <1>7 DEF Unblocked, FlatMap

\* The block between two parts of what the client says.
LEMMA BlockBetween ==
    ASSUME EnrichmentAssumption,
           NEW a \in Seq({"user", "assistant"} \X STRING), NEW b \in Seq(Roles \X STRING),
           NEW sent, sent = a \o (<<BlockSaid>> \o b)
    PROVE  /\ Unblocked(sent) = a \o b
           /\ \A i \in BlocksIn(sent) :
                 /\ i = Len(a) + 1 /\ sent[i] = BlockSaid
                 /\ \A j \in 1 .. i - 1 : sent[j][1] # "system"
  <1>1. /\ a \in Seq(Utterance) /\ Unblocked(a) = a /\ BlocksIn(a) = {}
        /\ b \in Seq(Utterance) /\ Unblocked(b) = b /\ BlocksIn(b) = {}
    <2>1. {"user", "assistant"} \subseteq Roles /\ Roles \subseteq Roles
      BY DEF Roles
    <2> QED
      BY <2>1, NothingToUnblock
  <1>2. BlockSaid \in Utterance /\ BlockSaid[2] = Block
    BY DEF BlockSaid, Utterance, Roles
  <1>3. PICK block \in Seq(Utterance) : block = <<BlockSaid>> /\ Len(block) = 1 /\ block[1] = BlockSaid
    <2>1. PICK u \in Utterance : u = BlockSaid
      BY <1>2
    <2>2. <<u>> \in Seq(Utterance) /\ Len(<<u>>) = 1 /\ <<u>>[1] = u
      OBVIOUS
    <2> QED
      BY <2>1, <2>2
  <1>4. PICK rest \in Seq(Utterance) : rest = block \o b
    BY <1>1, ConcatProperties, Zenon
  <1>5. Unblocked(block) = <<>>
    <2>1. Unblocked(block) = FlatMap(unblockedOf, <<BlockSaid>>)
      BY <1>3, UnblockedIs
    <2>2. FlatMap(unblockedOf, <<BlockSaid>>) = unblockedOf[BlockSaid]
      BY <1>2, UnblockedType, FlatMapOne
    <2> QED
      BY <1>2, <2>1, <2>2 DEF unblockedOf
  <1>6. Unblocked(rest) = b
    <2>1. Unblocked(block \o b) = Unblocked(block) \o Unblocked(b)
      BY <1>1, UnblockedConcat
    <2>2. <<>> \o b = b
      BY <1>1, ConcatEmptySeq
    <2> QED
      BY <1>1, <1>4, <1>5, <2>1, <2>2
  <1>7. Unblocked(sent) = a \o b
    <2>1. Unblocked(a \o rest) = Unblocked(a) \o Unblocked(rest)
      BY <1>1, UnblockedConcat
    <2> QED
      BY <1>1, <1>3, <1>4, <1>6, <2>1
  <1>8. /\ Len(rest) = 1 + Len(b) /\ rest[1] = BlockSaid
        /\ \A i \in 1 .. Len(b) : rest[i + 1] = b[i]
    BY <1>1, <1>3, <1>4
  <1>9. sent = a \o rest
    BY <1>3, <1>4
  <1>10. /\ sent \in Seq(Utterance) /\ Len(sent) = Len(a) + 1 + Len(b)
         /\ \A i \in 1 .. Len(a) : sent[i] = a[i]
         /\ \A i \in 1 .. Len(rest) : sent[Len(a) + i] = rest[i]
    BY <1>1, <1>4, <1>8, <1>9
  <1>11. \A i \in 1 .. Len(a) : a[i][2] # Block /\ a[i][1] # "system"
    <2>1. \A i \in 1 .. Len(a) : a[i] \in {"user", "assistant"} \X STRING
      OBVIOUS
    <2>2. \A u \in {"user", "assistant"} \X STRING : u[1] # "system" /\ u[2] # Block
      BY DEF EnrichmentAssumption
    <2> QED
      BY <2>1, <2>2
  <1>12. \A i \in 1 .. Len(b) : b[i][2] # Block
    BY <1>1 DEF BlocksIn
  <1>13. ASSUME NEW i \in BlocksIn(sent)
         PROVE  i = Len(a) + 1
    <2>1. i \in 1 .. Len(sent) /\ sent[i][2] = Block /\ Len(a) \in Nat /\ Len(b) \in Nat
      BY <1>1, <1>10 DEF BlocksIn
    <2>2. ~(i \in 1 .. Len(a))
      BY <1>10, <1>11, <2>1
    <2>3. ASSUME i > Len(a) + 1 PROVE FALSE
      <3>1. PICK k \in 1 .. Len(b) : i = Len(a) + (k + 1)
        <4>1. i - Len(a) - 1 \in 1 .. Len(b) /\ i = Len(a) + ((i - Len(a) - 1) + 1)
          BY <1>10, <2>1, <2>3
        <4> QED
          BY <4>1
      <3>2. k + 1 \in 1 .. Len(rest)
        BY <1>8, <2>1
      <3>3. sent[i] = rest[k + 1] /\ rest[k + 1] = b[k]
        BY <1>8, <1>10, <3>1, <3>2
      <3> QED
        BY <1>12, <2>1, <3>3
    <2> QED
      BY <1>10, <2>1, <2>2, <2>3
  <1>14. sent[Len(a) + 1] = BlockSaid
    <2>1. 1 \in 1 .. Len(rest)
      BY <1>1, <1>8
    <2> QED
      BY <1>8, <1>10, <2>1
  <1>15. \A j \in 1 .. Len(a) : sent[j][1] # "system"
    BY <1>10, <1>11
  <1>16. Len(a) + 1 - 1 = Len(a)
    BY <1>1
  <1>17. ASSUME NEW i \in BlocksIn(sent)
         PROVE  /\ i = Len(a) + 1 /\ sent[i] = BlockSaid
                /\ \A j \in 1 .. i - 1 : sent[j][1] # "system"
    <2>1. i = Len(a) + 1
      BY <1>13
    <2> QED
      BY <2>1, <1>14, <1>15, <1>16
  <1> QED
    BY <1>7, <1>17, Zenon

-----------------------------------------------------------------------------
(* Splicing the block into a conversation                                  *)

NewPrompt == [role |-> "system", listed |-> FALSE, texts |-> <<<<Block>>>>]

\* The block comes once, right after what the users and the assistant say ahead
\* of the first system prompt.
LEMMA SpliceSaysBlock ==
    ASSUME EnrichmentAssumption, NEW messages \in Seq(ClientMessage)
    PROVE  \E a \in Seq({"user", "assistant"} \X STRING), b \in Seq(Roles \X STRING) :
              /\ AllSpoken(messages) = a \o b
              /\ AllSpoken(Splice(messages)) = a \o (<<BlockSaid>> \o b)
              /\ Systems(messages) = {} => a = <<>>
  <1>1. messages \in Seq(Message) /\ \A i \in DOMAIN messages : messages[i] \in Message
    BY ClientMessages
  <1>2. \A m \in ClientMessage : m.role \in Roles
    BY DEF ClientMessage, MessageOf, Roles
  <1>3. CASE Systems(messages) = {}
    <2>1. Splice(messages) = <<NewPrompt>> \o messages
      BY <1>3 DEF Splice, Systems, NewPrompt
    <2>2. NewPrompt \in Message
      BY BlockMessage DEF NewPrompt
    <2>3. AllSpoken(messages) \in Seq(Roles \X STRING)
      <3>1. \A i \in DOMAIN messages : messages[i].role \in Roles
        BY <1>2
      <3> QED
        BY <3>1, AllSpokenType DEF ClientMessage
    <2>4. AllSpoken(<<NewPrompt>> \o messages) = <<BlockSaid>> \o AllSpoken(messages)
      <3>1. PICK one \in Seq(Message) : one = <<NewPrompt>>
        BY <2>2, OneElement
      <3>2. AllSpoken(one \o messages) = AllSpoken(one) \o AllSpoken(messages)
        BY <1>1, AllSpokenConcat DEF Message
      <3>3. AllSpoken(<<NewPrompt>>) = Spoken(NewPrompt)
        BY <2>2, AllSpokenOne DEF Message
      <3>4. Spoken(NewPrompt) = <<BlockSaid>>
        BY SpokenBlock DEF NewPrompt
      <3> QED
        BY <3>1, <3>2, <3>3, <3>4
    <2>5. PICK b \in Seq(Roles \X STRING) : b = AllSpoken(messages)
      BY <2>3
    <2>6. PICK a \in Seq({"user", "assistant"} \X STRING) : a = <<>>
      BY NoneYet
    <2>7. a \o b = b
      BY <2>6, ConcatEmptySeq
    <2>8. a \o (<<BlockSaid>> \o b) = <<BlockSaid>> \o b
      <3>1. BlockSaid \in Utterance
        BY DEF BlockSaid, Utterance, Roles
      <3>2. PICK u \in Utterance : u = BlockSaid
        BY <3>1
      <3>3. <<u>> \in Seq(Utterance)
        OBVIOUS
      <3>4. b \in Seq(Utterance)
        BY NothingToUnblock
      <3>5. PICK c \in Seq(Utterance) : c = <<u>> \o b
        BY <3>3, <3>4, ConcatProperties, Zenon
      <3>6. <<>> \o c = c
        BY ConcatEmptySeq
      <3> QED
        BY <2>6, <3>2, <3>5, <3>6
    <2> QED
      BY <2>1, <2>4, <2>5, <2>6, <2>7, <2>8
  <1>4. CASE Systems(messages) # {}
    <2> DEFINE k == Min(Systems(messages))
    <2>1. k \in 1 .. Len(messages) /\ messages[k].role = "system" /\ \A i \in Systems(messages) : k <= i
      <3>1. k \in Systems(messages) /\ Systems(messages) \subseteq 1 .. Len(messages)
        BY <1>1, <1>4, FirstSystem
      <3> QED
        BY <1>1, <1>4, <3>1, FirstSystem DEF Systems
    <2>2. Splice(messages) = [messages EXCEPT ![k] = InFront(messages[k])]
      BY <1>4 DEF Splice, Systems
    <2> HIDE DEF k
    <2>3. PICK m \in ClientMessage : m = messages[k]
      BY <2>1
    <2>4. m \in Message /\ InFront(m) \in Message
      BY <2>3, ClientMessages, BlockMessage
    <2>5. PICK p \in Seq(ClientMessage), q \in Seq(ClientMessage) : AreAround(p, q, messages, k, Message)
      <3>1. ClientMessage \in SUBSET Message
        BY ClientMessages
      <3> QED
        BY <2>1, <3>1, Around
    <2>6. /\ Len(p) = k - 1 /\ \A i \in 1 .. k - 1 : p[i] = messages[i]
          /\ \A x \in Message : [messages EXCEPT ![k] = x] = p \o (<<x>> \o q)
      BY <2>5 DEF AreAround
    <2>7. messages = p \o (<<m>> \o q) /\ Splice(messages) = p \o (<<InFront(m)>> \o q)
      <3>1. [messages EXCEPT ![k] = m] = messages
        BY <2>1, <2>3
      <3> QED
        BY <2>2, <2>3, <2>4, <2>6, <3>1
    <2>8. \A x \in Message : AllSpoken(p \o (<<x>> \o q)) = AllSpoken(p) \o (Spoken(x) \o AllSpoken(q))
      <3> TAKE x \in Message
      <3>1. PICK one \in Seq(Message) : one = <<x>>
        BY OneElement
      <3>2. p \in Seq(Message) /\ q \in Seq(Message)
        BY ClientMessages
      <3>3. PICK r \in Seq(Message) : r = one \o q
        BY <3>2, ConcatProperties, Zenon
      <3>4. AllSpoken(one \o q) = AllSpoken(one) \o AllSpoken(q)
        BY <3>2, AllSpokenConcat DEF Message
      <3>5. AllSpoken(p \o r) = AllSpoken(p) \o AllSpoken(r)
        BY <3>2, AllSpokenConcat DEF Message
      <3>6. AllSpoken(<<x>>) = Spoken(x)
        BY AllSpokenOne DEF Message
      <3> QED
        BY <3>1, <3>3, <3>4, <3>5, <3>6
    <2>9. Spoken(InFront(m)) = <<BlockSaid>> \o Spoken(m)
      BY <2>1, <2>3, <2>4, SpokenInFront
    <2>10. PICK a \in Seq({"user", "assistant"} \X STRING) : a = AllSpoken(p)
      <3>1. ASSUME NEW i \in DOMAIN p PROVE p[i].role \in {"user", "assistant"}
        <4>1. i \in 1 .. k - 1 /\ i \in 1 .. Len(messages) /\ i < k
          BY <2>1, <2>6
        <4>2. p[i] = messages[i] /\ messages[i].role \in Roles
          BY <1>2, <2>6, <4>1
        <4>3. messages[i].role # "system"
          BY <2>1, <4>1 DEF Systems
        <4> QED
          BY <4>2, <4>3 DEF Roles
      <3>2. AllSpoken(p) \in Seq({"user", "assistant"} \X STRING)
        BY <3>1, AllSpokenType DEF ClientMessage
      <3> QED
        BY <3>2
    <2>11. PICK c \in Seq(Roles \X STRING), d \in Seq(Roles \X STRING) : c = Spoken(m) /\ d = AllSpoken(q)
      <3>1. Spoken(m) \in Seq(Roles \X STRING)
        BY <1>2, SpokenType DEF ClientMessage
      <3>2. \A i \in DOMAIN q : q[i].role \in Roles
        BY <1>2
      <3>3. AllSpoken(q) \in Seq(Roles \X STRING)
        BY <3>2, AllSpokenType DEF ClientMessage
      <3> QED
        BY <3>1, <3>3
    <2>12. PICK b \in Seq(Roles \X STRING) : b = c \o d
      BY ConcatProperties, Zenon
    <2>13. (<<BlockSaid>> \o c) \o d = <<BlockSaid>> \o b
      <3>1. BlockSaid \in Utterance
        BY DEF BlockSaid, Utterance, Roles
      <3>2. PICK u \in Seq(Utterance) : u = <<BlockSaid>>
        BY <3>1, OneElement
      <3>3. PICK v \in Seq(Utterance), w \in Seq(Utterance) : v = c /\ w = d
        BY NothingToUnblock
      <3>4. (u \o v) \o w = u \o (v \o w)
        BY ConcatAssociative, SMTT(30)
      <3> QED
        BY <2>12, <3>2, <3>3, <3>4
    <2>14. AllSpoken(messages) = a \o b
      BY <2>4, <2>7, <2>8, <2>10, <2>11, <2>12
    <2>15. AllSpoken(Splice(messages)) = a \o (<<BlockSaid>> \o b)
      BY <2>4, <2>7, <2>8, <2>9, <2>10, <2>11, <2>13
    <2> QED
      BY <1>4, <2>14, <2>15
  <1> QED
    BY <1>3, <1>4

-----------------------------------------------------------------------------
(* The question                                                            *)

\* Where the user says something.
Asking(messages) == {i \in DOMAIN messages : messages[i].role = "user" /\ messages[i].texts # <<>>}

LEMMA QuestionIs ==
    \A messages :
        LastUserText(messages)
        = IF Asking(messages) = {} THEN <<>> ELSE Head(messages[Max(Asking(messages))].texts)
  BY DEF LastUserText, Asking

LEMMA LastAsking ==
    ASSUME NEW messages \in Seq(Message), Asking(messages) # {}
    PROVE  /\ Max(Asking(messages)) \in Asking(messages) /\ Max(Asking(messages)) \in 1 .. Len(messages)
           /\ \A i \in Asking(messages) : i <= Max(Asking(messages))
  <1>1. Asking(messages) \in SUBSET (1 .. Len(messages)) /\ Len(messages) \in Nat
    BY DEF Asking
  <1> QED
    BY <1>1, MaxIsLargest

\* A block spliced in leaves the question the last.
LEMMA QuestionKept ==
    ASSUME NEW messages \in Seq(Message)
    PROVE  LastUserText(Splice(messages)) = LastUserText(messages)
  <1>1. CASE Systems(messages) = {}
    <2>1. NewPrompt \in Message /\ NewPrompt.role = "system"
      BY BlockMessage DEF NewPrompt
    <2>2. PICK one \in Seq(Message) : one = <<NewPrompt>> /\ Len(one) = 1 /\ one[1] = NewPrompt
      BY <2>1, OneElement
    <2>3. PICK s \in Seq(Message) : IsJoint(s, one, messages)
      BY Joint
    <2>4. s = Splice(messages)
      BY <1>1, <2>2, <2>3 DEF IsJoint, Splice, Systems, NewPrompt
    <2>5. /\ Len(s) = 1 + Len(messages) /\ s[1].role = "system"
          /\ \A i \in 1 .. Len(messages) : s[1 + i] = messages[i]
      BY <2>1, <2>2, <2>3 DEF IsJoint
    <2>6. ASSUME NEW i \in Asking(s)
          PROVE  \E j \in Asking(messages) : i = 1 + j
      <3>1. i \in 1 .. Len(s) /\ s[i].role = "user" /\ s[i].texts # <<>>
        BY DEF Asking
      <3>2. PICK j \in 1 .. Len(messages) : i = 1 + j
        <4>1. i # 1 /\ Len(messages) \in Nat
          BY <2>5, <3>1
        <4>2. i - 1 \in 1 .. Len(messages) /\ i = 1 + (i - 1)
          BY <2>5, <3>1, <4>1
        <4> QED
          BY <4>2
      <3>3. s[i] = messages[j]
        BY <2>5, <3>2
      <3> QED
        BY <3>1, <3>2, <3>3 DEF Asking
    <2>7. ASSUME NEW j \in Asking(messages)
          PROVE  1 + j \in Asking(s)
      <3>1. j \in 1 .. Len(messages) /\ messages[j].role = "user" /\ messages[j].texts # <<>>
        BY DEF Asking
      <3>2. 1 + j \in 1 .. Len(s) /\ s[1 + j] = messages[j]
        BY <2>5, <3>1
      <3> QED
        BY <3>1, <3>2 DEF Asking
    <2>8. CASE Asking(messages) = {}
      <3>1. Asking(s) = {}
        BY <2>6, <2>8
      <3> QED
        BY <2>4, <2>8, <3>1, QuestionIs
    <2>9. CASE Asking(messages) # {}
      <3>1. PICK x \in 1 .. Len(messages) :
               /\ x = Max(Asking(messages)) /\ x \in Asking(messages)
               /\ \A i \in Asking(messages) : i <= x
        BY <2>9, LastAsking
      <3>2. Asking(s) # {}
        BY <2>7, <3>1
      <3>3. PICK y \in 1 .. Len(s) : /\ y = Max(Asking(s)) /\ y \in Asking(s)
                                     /\ \A i \in Asking(s) : i <= y
        BY <3>2, LastAsking
      <3>4. y = 1 + x
        <4>1. 1 + x <= y
          BY <2>7, <3>1, <3>3
        <4>2. PICK j \in Asking(messages) : y = 1 + j
          BY <2>6, <3>3
        <4>3. j \in 1 .. Len(messages) /\ j <= x
          BY <3>1 DEF Asking
        <4> QED
          BY <4>1, <4>2, <4>3
      <3>5. s[y] = messages[x]
        BY <2>5, <3>4
      <3> QED
        BY <2>4, <2>9, <3>1, <3>2, <3>3, <3>5, QuestionIs
    <2> QED
      BY <2>8, <2>9
  <1>2. CASE Systems(messages) # {}
    <2> DEFINE k == Min(Systems(messages))
               m == InFront(messages[k])
               s == [messages EXCEPT ![k] = m]
    <2>1. s = Splice(messages)
      BY <1>2 DEF Splice, Systems
    <2>2. k \in 1 .. Len(messages) /\ messages[k].role = "system"
      <3>1. k \in Systems(messages) /\ Systems(messages) \subseteq 1 .. Len(messages)
        BY <1>2, FirstSystem
      <3> QED
        BY <3>1 DEF Systems
    <2> HIDE DEF k
    <2>3. m \in Message /\ m.role = "system"
      BY <2>2, BlockMessage
    <2> HIDE DEF m
    <2>4. /\ DOMAIN s = DOMAIN messages /\ s[k] = m
          /\ \A i \in DOMAIN messages : i # k => s[i] = messages[i]
      BY <2>2, DOMAIN messages = 1 .. Len(messages)
    <2> HIDE DEF s
    <2>5. Asking(s) = Asking(messages)
      <3>1. k \notin Asking(s) /\ k \notin Asking(messages)
        BY <2>2, <2>3, <2>4 DEF Asking
      <3>2. \A i \in DOMAIN messages : i # k => (i \in Asking(s) <=> i \in Asking(messages))
        BY <2>4 DEF Asking
      <3>3. Asking(s) \subseteq DOMAIN messages /\ Asking(messages) \subseteq DOMAIN messages
        BY <2>4 DEF Asking
      <3>4. \A i : i \in Asking(s) <=> i \in Asking(messages)
        BY <3>1, <3>2, <3>3, Zenon
      <3> HIDE DEF Asking
      <3> QED
        BY <3>4
    <2>6. CASE Asking(messages) = {}
      BY <2>1, <2>5, <2>6, QuestionIs
    <2>7. CASE Asking(messages) # {}
      <3>1. PICK x \in DOMAIN messages : x = Max(Asking(messages)) /\ x \in Asking(messages)
        BY <2>7, LastAsking
      <3>2. x # k
        BY <2>2, <3>1 DEF Asking
      <3>3. s[x] = messages[x]
        BY <2>4, <3>2
      <3> QED
        BY <2>1, <2>5, <2>7, <3>1, <3>3, QuestionIs
    <2> QED
      BY <2>6, <2>7
  <1> QED
    BY <1>1, <1>2

-----------------------------------------------------------------------------
(* The client's messages                                                   *)

\* What is forwarded are the client's messages, perhaps with a block in them.
Spliced ==
    pc = "forwarded" =>
        request.messages \in {request.ask.messages, Splice(request.ask.messages)}

LEMMA SplicedInit == Init => Spliced
  BY DEF Init, Spliced

LEMMA SplicedStep == ASSUME Spliced, [Next]_vars PROVE Spliced'
  <1>1. CASE \E chunks \in Retrievals, fails \in BOOLEAN : Forward(chunks, fails)
    BY <1>1 DEF Forward, Rewritten, Request, Enrich, Spliced
  <1>2. CASE UNCHANGED vars
    BY <1>2 DEF vars, Spliced
  <1>3. ASSUME pc' # "forwarded"
        PROVE  Spliced'
    BY <1>3 DEF Spliced
  <1>4. CASE Accept \/ Open \/ Break \/ ClientLeaves
    BY <1>3, <1>4 DEF Accept, Open, Break, ClientLeaves
  <1>5. CASE \E message \in Messages, fails \in BOOLEAN : AnswerWhole(message, fails)
    BY <1>3, <1>5 DEF AnswerWhole
  <1>6. ASSUME NEW c, pc = "stream", Deliver(c)
        PROVE  Spliced'
    BY <1>3, <1>6 DEF Deliver, Written, Cancel
  <1>7. CASE \E t \in Deltas, finish \in {"none", "length"} : ContentChunk(t, finish)
    BY <1>6, <1>7 DEF ContentChunk, Streaming
  <1>8. CASE ReasoningChunk \/ ToolChunk \/ FinishChunk("length")
    BY <1>6, <1>8 DEF ReasoningChunk, ToolChunk, FinishChunk, Streaming
  <1>9. CASE UsageChunk \/ Done
    BY <1>3, <1>9 DEF UsageChunk, Done, Cancel
  <1> QED
    BY <1>1, <1>2, <1>4, <1>5, <1>7, <1>8, <1>9 DEF Next

\* The two ways in which a request is forwarded.
LEMMA AsTheyAre ==
    ASSUME NEW asked \in Seq(ClientMessage), NEW sent, sent = AllSpoken(asked)
    PROVE  Unblocked(sent) = AllSpoken(asked) /\ BlocksIn(sent) = {}
  <1>1. \A i \in DOMAIN asked : asked[i].role \in Roles
    BY DEF ClientMessage, MessageOf, Roles
  <1>2. sent \in Seq(Roles \X STRING)
    BY <1>1, AllSpokenType DEF ClientMessage
  <1> QED
    BY <1>2, EnrichmentAssumption, NothingToUnblock

LEMMA WithTheBlock ==
    ASSUME NEW asked \in Seq(ClientMessage), NEW sent, sent = AllSpoken(Splice(asked))
    PROVE  /\ Unblocked(sent) = AllSpoken(asked)
           /\ \A i, j \in BlocksIn(sent) : i = j
           /\ \A i \in BlocksIn(sent) :
                 /\ sent[i][1] = "system"
                 /\ \A j \in 1 .. i - 1 : sent[j][1] # "system"
                 /\ (\A m \in Range(asked) : m.role # "system") => i = 1
  <1>1. PICK a \in Seq({"user", "assistant"} \X STRING), b \in Seq(Roles \X STRING) :
           /\ AllSpoken(asked) = a \o b
           /\ sent = a \o (<<BlockSaid>> \o b)
           /\ Systems(asked) = {} => a = <<>>
    BY EnrichmentAssumption, SpliceSaysBlock
  <1>2. /\ Unblocked(sent) = a \o b
        /\ \A i \in BlocksIn(sent) :
              /\ i = Len(a) + 1 /\ sent[i] = BlockSaid
              /\ \A j \in 1 .. i - 1 : sent[j][1] # "system"
    BY <1>1, EnrichmentAssumption, BlockBetween, ZenonT(40)
  <1>3. BlockSaid[1] = "system"
    BY DEF BlockSaid
  <1>4. (\A m \in Range(asked) : m.role # "system") => Len(a) + 1 = 1
    <2>1. (\A m \in Range(asked) : m.role # "system") => Systems(asked) = {}
      BY DEF Systems, Range
    <2> QED
      BY <1>1, <2>1
  <1> QED
    BY <1>1, <1>2, <1>3, <1>4

\* Whatever is asked and retrieved, what the client and its system prompt say
\* reaches vLLM in the same roles and order, the question last, and the block
\* once, ahead of all that any system prompt says.
THEOREM MessagesAlwaysKept == Spec => []ClientMessagesKept
  <1>1. ASSUME RequestOK, Spliced
        PROVE  ClientMessagesKept
    <2> SUFFICES ASSUME pc = "forwarded"
                 PROVE  ClientMessagesKept
      BY DEF ClientMessagesKept
    <2> DEFINE asked == request.ask.messages
               sent == AllSpoken(request.messages)
    <2>1. asked \in Seq(ClientMessage) /\ asked \in Seq(Message)
      BY <1>1, ClientMessages DEF RequestOK, Ask, ClientMessage
    <2>2. request.messages = asked \/ request.messages = Splice(asked)
      BY <1>1 DEF Spliced
    <2>3. LastUserText(request.messages) = LastUserText(asked)
      BY <2>1, <2>2, QuestionKept
    <2>4. sent = AllSpoken(asked) \/ sent = AllSpoken(Splice(asked))
      BY <2>2
    <2> HIDE DEF asked, sent
    <2>5. /\ Unblocked(sent) = AllSpoken(asked)
          /\ \A i, j \in BlocksIn(sent) : i = j
          /\ \A i \in BlocksIn(sent) :
                /\ sent[i][1] = "system"
                /\ \A j \in 1 .. i - 1 : sent[j][1] # "system"
                /\ (\A m \in Range(asked) : m.role # "system") => i = 1
      <3>1. CASE sent = AllSpoken(asked)
        <4>1. Unblocked(sent) = AllSpoken(asked) /\ BlocksIn(sent) = {}
          BY <2>1, <3>1, AsTheyAre
        <4> QED
          BY <4>1
      <3>2. CASE sent = AllSpoken(Splice(asked))
        BY <2>1, <3>2, WithTheBlock
      <3> QED
        BY <2>4, <3>1, <3>2
    <2> QED
      BY <2>3, <2>5 DEF ClientMessagesKept, Unblocked, BlocksIn, asked, sent
  <1> QED
    BY <1>1, AlwaysFlows, SplicedInit, SplicedStep, PTL DEF Spec

-----------------------------------------------------------------------------
(* The finish reason                                                       *)

\* No delta of g has a finish reason, and no call was recovered.
Unfinished(g) == CallsIn(g) = 0 /\ \A i \in DOMAIN g : g[i].finish = "none"

\* Only the last delta of g has one: f, or that of a recovered call.
Finished(g, f) ==
    /\ g # <<>>
    /\ \A i \in DOMAIN g : i # Len(g) => g[i].finish = "none"
    /\ g[Len(g)].finish = IF CallsIn(g) > 0 THEN "tool_calls" ELSE f

\* stream_tool_recovery has nothing left for [DONE].
Spent(q) == q.buffer = <<>> \/ q.decision = "passthrough"

\* Of a chunk with finish reason f the stage makes y.
Conveyed(y, f) ==
    /\ y \in Fragment
    /\ y.finish = IF y.recovered > 0 THEN "tool_calls" ELSE f
    /\ f = "none" => y.recovered = 0

\* As long as there is no finish reason a chunk is held or passed on; the one with
\* the finish reason is passed on with all that is held.
LEMMA RecoverFinishes ==
    ASSUME NEW q \in RecoveryStates, NEW d, Plain(d)
    PROVE  LET r == RecoverChoice(q, d)
           IN  /\ \/ d.finish = "none" /\ r.out = <<>>
                  \/ \E y : r.out = <<y>> /\ Conveyed(y, d.finish)
               /\ d.finish # "none" => Spent(r.state)
  <1> DEFINE r == RecoverChoice(q, d)
             t == d.content
             f == d.finish
             held == Holds(q, t)
             Good == /\ \/ f = "none" /\ r.out = <<>>
                        \/ \E y : r.out = <<y>> /\ Conveyed(y, f)
                     /\ f # "none" => Spent(r.state)
  <1>1. /\ d \in Choice /\ Delta(d) /\ f \in Finish /\ q.buffer \in Seq(Piece)
        /\ q.decision \in {"deciding", "passthrough", "buffering"} /\ d.recovered = 0
    BY DEF Plain, Delta, RecoveryStates, Choice
  <1>2. Conveyed(d, f)
    BY <1>1 DEF Conveyed, Fragment
  <1>3. ASSUME NEW b \in Seq(Piece) PROVE Conveyed(Content(b, f), f)
    <2>1. Plain(Content(b, f)) /\ Content(b, f).finish = f
      BY <1>1, ContentChoice
    <2> QED
      BY <2>1 DEF Conveyed, Fragment, Plain, Delta
  <1>4. ASSUME NEW b \in Seq(Piece), f # "none" PROVE Conveyed(Recovered(b, f), f)
    <2>1. PICK y : y = Recovered(b, f)
      OBVIOUS
    <2>2. Delta(y) /\ y.finish = IF y.recovered > 0 THEN "tool_calls" ELSE f
      BY <1>1, <2>1, RecoveredSound
    <2> QED
      BY <1>4, <2>1, <2>2 DEF Conveyed, Fragment, Delta
  <1> HIDE DEF r, f
  <1>5. CASE d.parsed
    <2>1. r.out = <<d>> /\ r.state = [q EXCEPT !.decision = "passthrough"]
      BY <1>5 DEF RecoverChoice, Forwards, r
    <2>2. r.state.decision = "passthrough"
      BY <2>1 DEF RecoveryStates
    <2> QED
      BY <1>2, <2>1, <2>2 DEF r, f, Spent
  <1>6. CASE ~d.parsed /\ q.decision = "passthrough"
    <2>1. r.out = <<d>> /\ r.state = q
      BY <1>6 DEF RecoverChoice, Forwards, r
    <2> QED
      BY <1>2, <1>6, <2>1 DEF r, f, Spent
  <1>7. CASE ~d.parsed /\ q.decision # "passthrough" /\ t = None
    <2>1. r = RecoverNoContent(q, d)
      BY <1>7 DEF RecoverChoice, r
    <2>2. CASE f = "none" \/ q.buffer = <<>>
      <3>1. r.out = <<d>> /\ r.state = q
        BY <2>1, <2>2 DEF RecoverNoContent, Forwards, f, FlushesAtFinish
      <3> QED
        BY <1>2, <2>2, <3>1 DEF r, f, Spent
    <2>3. CASE f # "none" /\ q.buffer # <<>>
      <3>1. PICK y : y = IF q.decision = "buffering" THEN Recovered(q.buffer, f) ELSE Content(q.buffer, f)
        OBVIOUS
      <3>2. r.out = <<y>> /\ r.state = Passing(q)
        BY <2>1, <2>3, <3>1 DEF RecoverNoContent, Forwards, FlushesAtFinish, f
      <3>3. Conveyed(y, f)
        BY <1>1, <1>3, <1>4, <2>3, <3>1
      <3>4. r.state.decision = "passthrough"
        BY <3>2 DEF Passing, Emptied, RecoveryStates
      <3> QED
        BY <3>2, <3>3, <3>4 DEF r, f, Spent
    <2> QED
      BY <2>2, <2>3
  <1>8. ASSUME ~d.parsed, q.decision # "passthrough", t # None
        PROVE  Good
    <2>1. t \in Seq(Piece)
      BY <1>1, <1>8 DEF Choice
    <2>2. PICK u \in Seq(Piece) : u = q.buffer \o t
      <3>1. q.buffer \o t \in Seq(Piece)
        BY <1>1, <2>1
      <3> QED
        BY <3>1, Zenon
    <2>3. held = [q EXCEPT !.buffer = u]
      BY <2>2 DEF Holds
    <2>4. held \in RecoveryStates /\ held.buffer = u /\ held.decision = q.decision
      BY <2>3 DEF RecoveryStates
    <2> HIDE DEF held
    <2>5. CASE q.decision = "deciding"
      <3> DEFINE leaking == [held EXCEPT !.decision = "buffering"]
      <3>1. r = RecoverDeciding(held, f)
        BY <1>8, <2>5 DEF RecoverChoice, r, held, f
      <3>2. Emptied(leaking).buffer = <<>> /\ Passing(held).decision = "passthrough"
        BY <2>4 DEF RecoveryStates, Emptied, Passing
      <3>3. \/ f # "none" /\ r = Forwards(Emptied(leaking), <<Recovered(u, f)>>)
            \/ f = "none" /\ r = Forwards(leaking, <<>>)
            \/ r = Forwards(Passing(held), <<Content(u, f)>>)
            \/ f = "none" /\ r = Forwards(held, <<>>)
        BY <2>4, <3>1 DEF RecoverDeciding
      <3> HIDE DEF leaking
      <3>4. \/ f # "none" /\ r.state = Emptied(leaking) /\ r.out = <<Recovered(u, f)>>
            \/ r.state = Passing(held) /\ r.out = <<Content(u, f)>>
            \/ f = "none" /\ r.out = <<>>
        BY <3>3 DEF Forwards
      <3> QED
        BY <1>3, <1>4, <3>2, <3>4 DEF Spent
    <2>6. CASE q.decision = "buffering"
      <3>1. r = RecoverBuffering(held, f)
        BY <1>8, <2>6 DEF RecoverChoice, r, held, f
      <3>2. Emptied(held).buffer = <<>>
        BY <2>4 DEF RecoveryStates, Emptied
      <3>3. \/ f = "none" /\ r.out = <<>>
            \/ f # "none" /\ r.state = Emptied(held) /\ r.out = <<Recovered(u, f)>>
        BY <2>4, <3>1 DEF RecoverBuffering, Forwards
      <3> QED
        BY <1>4, <3>2, <3>3 DEF Spent
    <2> QED
      BY <1>1, <1>8, <2>5, <2>6
  <1>9. CASE ~d.parsed /\ q.decision # "passthrough" /\ t # None
    BY <1>8, <1>9 DEF r, f
  <1> QED
    BY <1>5, <1>6, <1>7, <1>9

\* The last delta a client has read has the finish reason of the last it was sent.
LEMMA ReadFinishes ==
    ASSUME NEW g \in Seq(Fragment), \A i \in DOMAIN g : g[i].finish = "none", NEW c \in Fragment
    PROVE  LET h == Read(g, c)
           IN  /\ h \in Seq(Fragment) /\ h # <<>> /\ h[Len(h)].finish = c.finish
               /\ \A i \in DOMAIN h : i # Len(h) => h[i].finish = "none"
               /\ CallsIn(h) = CallsIn(g) + c.recovered
  <1> DEFINE h == Read(g, c)
  <1>1. h \in Seq(Fragment) /\ CallsIn(h) = CallsIn(g) + c.recovered
    BY ReadSound
  <1>2. CASE g # <<>> /\ Joins(Last(g), c)
    <2>1. PICK f \in Seq(Fragment), l \in Fragment :
             f = Front(g) /\ l = Last(g) /\ g = f \o <<l>>
      BY <1>2, FrontAndLast
    <2> DEFINE j == Joined(l, c)
    <2>2. h = Append(f, j)
      BY <1>2, <2>1 DEF Read
    <2>3. j.finish = c.finish
      BY DEF Joined, Fragment, Choice
    <2> HIDE DEF h, j
    <2>4. /\ Len(h) = Len(f) + 1 /\ h[Len(f) + 1] = j /\ DOMAIN h = 1 .. Len(f) + 1
          /\ \A i \in 1 .. Len(f) : h[i] = f[i]
      BY <2>2
    <2>5. \A i \in 1 .. Len(f) : i \in DOMAIN g /\ g[i] = f[i]
      BY <2>1
    <2>6. \A i \in 1 .. Len(f) : h[i].finish = "none"
      BY <2>4, <2>5
    <2>7. Len(f) \in Nat
      BY <2>1
    <2> QED
      BY <1>1, <2>3, <2>4, <2>6, <2>7 DEF h
  <1>3. CASE ~(g # <<>> /\ Joins(Last(g), c))
    <2>1. h = Append(g, c)
      BY <1>3 DEF Read
    <2> HIDE DEF h
    <2>2. /\ Len(h) = Len(g) + 1 /\ h[Len(g) + 1] = c /\ DOMAIN h = 1 .. Len(g) + 1
          /\ \A i \in 1 .. Len(g) : h[i] = g[i]
      BY <2>1
    <2>3. \A i \in 1 .. Len(g) : h[i].finish = "none"
      BY <2>2
    <2>4. Len(g) \in Nat
      OBVIOUS
    <2> QED
      BY <1>1, <2>2, <2>3, <2>4 DEF h
  <1> QED
    BY <1>2, <1>3

\* Without stream_rewriter a chunk is held or reaches the client as one delta.
LEMMA DeliverUnsplit ==
    ASSUME Flows, pc = "stream", ~splits, NEW c, Plain(c), Deliver(c)
    PROVE  LET r == RecoverChoice(recovery, c)
               out == IF recovers THEN r.out ELSE <<c>>
           IN  /\ recovers => recovery' = r.state
               /\ splits' = splits /\ recovers' = recovers /\ client' = client
               /\ \/ pc' = "cancelled" /\ got' = got
                  \/ /\ pc' = "stream"
                     /\ \/ out = <<>> /\ got' = got
                        \/ \E y : out = <<y>> /\ got' = Read(got, y)
  <1> DEFINE r == RecoverChoice(recovery, c)
             out == IF recovers THEN r.out ELSE <<c>>
             shown == ThroughRecovery(<<c>>)
  <1>1. recovery \in RecoveryStates
    BY DEF Flows, ChainOK
  <1>2. ThroughSplit(c).out = <<c>>
    BY DEF ThroughSplit, Forwards
  <1>3. recovery' = shown.state /\ Written(shown.out) /\ UNCHANGED <<deployment, client>>
    BY <1>2 DEF Deliver
  <1> HIDE DEF shown
  <1>4. shown.out = out /\ (recovers => shown.state = r.state) /\ (out = <<>> \/ \E y : out = <<y>>)
    <2>1. CASE ~recovers
      BY <2>1 DEF shown, ThroughRecovery, Forwards
    <2>2. CASE recovers
      <3>1. Len(<<c>>) = 1 /\ <<c>>[1] = c
        OBVIOUS
      <3>2. shown = Further(Forwards(recovery, <<>>), c)
        BY <2>2, <3>1, ThroughRecoveryIs DEF shown
      <3>3. shown.state = r.state /\ shown.out = <<>> \o r.out
        BY <3>2 DEF Further, Forwards
      <3>4. r.out = <<>> \/ \E y : Delta(y) /\ r.out = <<y>>
        <4>1. Single(r.out)
          BY <1>1, RecoverChoiceSound DEF Carries
        <4> QED
          BY <4>1 DEF Single
      <3>5. r.out \in Seq(Fragment)
        <4>1. CASE r.out = <<>>
          BY <4>1
        <4>2. ASSUME NEW y, Delta(y), r.out = <<y>> PROVE r.out \in Seq(Fragment)
          <5>1. y \in Fragment
            BY <4>2 DEF Fragment, Delta
          <5> QED
            BY <4>2, <5>1, OneElement
        <4> HIDE DEF r
        <4> QED
          BY <3>4, <4>1, <4>2
      <3>6. <<>> \o r.out = r.out
        BY <3>5, ConcatEmptySeq
      <3> HIDE DEF r
      <3> QED
        BY <2>2, <3>3, <3>4, <3>6
    <2> QED
      BY <2>1, <2>2
  <1> HIDE DEF out, r
  <1>5. CASE out = <<>>
    BY <1>3, <1>4, <1>5 DEF Written, deployment, out, r
  <1>6. ASSUME NEW y, out = <<y>> PROVE (pc' = "cancelled" /\ got' = got) \/ (pc' = "stream" /\ got' = Read(got, y))
    <2>1. out # <<>> /\ Len(out) = 1 /\ out[1] = y
      BY <1>6
    <2>2. Reads(out) = Read(got, y)
      BY <2>1, ReadsIs
    <2> QED
      BY <1>3, <1>4, <2>1, <2>2 DEF Written, Cancel
  <1> QED
    BY <1>3, <1>4, <1>5, <1>6 DEF deployment, out, r

\* What OneFinishLast says when the stream is done, it says of the stream as well.
Finishing ==
    /\ pc \in {"asked", "forwarded", "accepted"} => ended = "none"
    /\ pc = "stream" /\ ~splits =>
          /\ ended = "none" => Unfinished(got)
          /\ ended # "none" => Finished(got, ended) /\ (recovers => Spent(recovery))
    /\ OneFinishLast

LEMMA FinishingInit == Init => Finishing
  BY DEF Init, Finishing, OneFinishLast

\* A step that is no chunk and does not end the stream.
LEMMA FinishingQuiet ==
    ASSUME Flows, Finishing, UNCHANGED <<splits, recovers, recovery, got, ended>>,
           pc' = pc \/ pc' \notin {"asked", "forwarded", "accepted", "stream", "done"}
             \/ (pc = "asked" /\ pc' = "forwarded") \/ (pc = "forwarded" /\ pc' = "accepted")
             \/ (pc = "accepted" /\ pc' = "stream")
    PROVE  Finishing'
  <1>1. Called' = Called
    BY DEF Called, Calls
  <1>2. CASE pc = "accepted" /\ pc' = "stream"
    <2>1. got = <<>> /\ ended = "none"
      BY <1>2 DEF Flows, Untouched, Finishing
    <2>2. Unfinished(got)
      BY <2>1, CallsInOut DEF Unfinished
    <2> QED
      BY <1>2, <2>1, <2>2 DEF Finishing, OneFinishLast, Unfinished, Finished, Spent
  <1>3. CASE pc' = pc
    BY <1>1, <1>3 DEF Finishing, OneFinishLast, Unfinished, Finished, Spent
  <1>4. CASE pc' # pc /\ ~(pc = "accepted" /\ pc' = "stream")
    BY <1>4 DEF Finishing, OneFinishLast
  <1> QED
    BY <1>2, <1>3, <1>4

\* Any chunk but the last one adds no finish reason, and that one adds its own.
LEMMA FinishingChunk ==
    ASSUME Flows, Finishing, pc = "stream", ended = "none", NEW c, Plain(c), Deliver(c), ended' = c.finish
    PROVE  Finishing'
  <1>1. CASE splits
    <2>1. splits' /\ pc' \in {"stream", "cancelled"}
      BY <1>1 DEF Deliver, deployment, Written, Cancel
    <2> QED
      BY <2>1 DEF Finishing, OneFinishLast
  <1>2. CASE ~splits
    <2> DEFINE r == RecoverChoice(recovery, c)
               out == IF recovers THEN r.out ELSE <<c>>
    <2>1. /\ recovers => recovery' = r.state
          /\ splits' = splits /\ recovers' = recovers /\ client' = client
          /\ \/ pc' = "cancelled" /\ got' = got
             \/ /\ pc' = "stream"
                /\ \/ out = <<>> /\ got' = got
                   \/ \E y : out = <<y>> /\ got' = Read(got, y)
      BY <1>2, DeliverUnsplit
    <2>2. /\ got \in Seq(Fragment) /\ recovery \in RecoveryStates
          /\ CallsIn(got) = 0 /\ \A i \in DOMAIN got : got[i].finish = "none"
      BY <1>2 DEF Flows, ChainOK, Finishing, Unfinished
    <2>3. /\ \/ c.finish = "none" /\ out = <<>>
             \/ \E y : out = <<y>> /\ Conveyed(y, c.finish)
          /\ recovers /\ c.finish # "none" => Spent(r.state)
      <3>1. CASE recovers
        BY <2>2, <3>1, RecoverFinishes
      <3>2. CASE ~recovers
        BY <3>2 DEF Conveyed, Fragment, Plain, Delta
      <3> QED
        BY <3>1, <3>2
    <2> HIDE DEF r, out
    <2>4. CASE pc' = "cancelled"
      BY <2>4 DEF Finishing, OneFinishLast
    <2>5. CASE pc' = "stream" /\ out = <<>>
      <3>1. c.finish = "none" /\ got' = got
        BY <2>1, <2>3, <2>5
      <3> QED
        BY <2>2, <2>5, <3>1 DEF Finishing, OneFinishLast, Unfinished
    <2>6. ASSUME NEW y, pc' = "stream", out = <<y>>, got' = Read(got, y) PROVE Finishing'
      <3>1. Conveyed(y, c.finish)
        BY <2>3, <2>6
      <3>2. /\ got' # <<>> /\ got'[Len(got')].finish = y.finish /\ got' \in Seq(Fragment)
            /\ \A i \in DOMAIN got' : i # Len(got') => got'[i].finish = "none"
            /\ CallsIn(got') = CallsIn(got) + y.recovered
        BY <2>2, <2>6, <3>1, ReadFinishes DEF Conveyed
      <3>3. y.recovered \in Nat
        BY <3>1 DEF Conveyed, Fragment, Choice
      <3>4. CallsIn(got') = y.recovered
        BY <2>2, <3>2, <3>3
      <3>5. CASE c.finish = "none"
        <4>1. y.recovered = 0 /\ y.finish = "none"
          BY <3>1, <3>5 DEF Conveyed
        <4>2. Unfinished(got')
          BY <3>2, <3>4, <4>1 DEF Unfinished
        <4> QED
          BY <2>6, <3>5, <4>2 DEF Finishing, OneFinishLast
      <3>6. CASE c.finish # "none"
        <4>1. Finished(got', c.finish)
          BY <3>1, <3>2, <3>4 DEF Finished, Conveyed
        <4>2. recovers' => Spent(recovery')
          BY <2>1, <2>3, <3>6
        <4> QED
          BY <2>6, <3>6, <4>1, <4>2 DEF Finishing, OneFinishLast
      <3> QED
        BY <3>5, <3>6
    <2>7. \/ pc' = "cancelled" \/ (pc' = "stream" /\ out = <<>>)
          \/ \E y : pc' = "stream" /\ out = <<y>> /\ got' = Read(got, y)
      BY <2>1 DEF r, out
    <2> QED
      BY <2>4, <2>5, <2>6, <2>7
  <1> QED
    BY <1>1, <1>2

\* [DONE] adds a finish reason only if there was none.
LEMMA FinishingDone ==
    ASSUME Flows, Finishing, Done
    PROVE  Finishing'
  <1>1. /\ pc = "stream" /\ UNCHANGED <<splits, recovers, ended>>
        /\ pc' \in {"cancelled", "done"}
    BY DEF Done, Cancel, deployment, answer
  <1>2. CASE pc' = "cancelled" \/ splits
    BY <1>1, <1>2 DEF Finishing, OneFinishLast
  <1>3. CASE pc' = "done" /\ ~splits
    <2> DEFINE shown == ThroughRecovery(<<>>)
               rest == IF recovers THEN RecoveryDone(shown.state) ELSE Forwards(shown.state, <<>>)
    <2>1. got' = Reads(shown.out \o rest.out)
      BY <1>3 DEF Done, Cancel
    <2>2. shown = Forwards(recovery, <<>>)
      <3>1. Len(<<>>) = 0
        OBVIOUS
      <3>2. CASE recovers
        BY <3>1, <3>2, ThroughRecoveryIs
      <3>3. CASE ~recovers
        BY <3>3 DEF ThroughRecovery
      <3> QED
        BY <3>2, <3>3
    <2>3. shown.out = <<>> /\ shown.state = recovery
      BY <2>2 DEF Forwards
    <2> HIDE DEF shown
    <2>4. /\ got \in Seq(Fragment) /\ recovery \in RecoveryStates
      BY <1>1 DEF Flows, ChainOK
    <2>5. \/ rest.out = <<>>
          \/ recovers /\ ~Spent(recovery) /\ rest.out = <<Content(recovery.buffer, "stop")>>
      BY <2>3 DEF RecoveryDone, Forwards, Spent
    <2> HIDE DEF rest
    <2>6. CASE rest.out = <<>>
      <3>1. <<>> \o <<>> = <<>> /\ Len(<<>>) = 0
        OBVIOUS
      <3>2. got' = got
        BY <2>1, <2>3, <2>6, <3>1, ReadsIs
      <3>3. Called' = Called /\ Called = (CallsIn(got) > 0)
        BY <2>4, <3>2, Fragments, ReceivedIs DEF Called, Calls
      <3>4. CASE ended = "none"
        <4>1. \A i \in DOMAIN got : got[i].finish = "none"
          BY <1>1, <1>3, <3>4 DEF Finishing, Unfinished
        <4>2. {i \in DOMAIN got : got[i].finish # "none"} = {}
          BY <4>1
        <4> QED
          BY <1>1, <1>3, <3>2, <3>4, <4>2 DEF Finishing, OneFinishLast
      <3>5. CASE ended # "none"
        <4>1. /\ got # <<>> /\ \A i \in DOMAIN got : i # Len(got) => got[i].finish = "none"
              /\ got[Len(got)].finish = IF CallsIn(got) > 0 THEN "tool_calls" ELSE ended
          BY <1>1, <1>3, <3>5 DEF Finishing, Finished
        <4>2. Len(got) \in DOMAIN got
          BY <2>4, <4>1
        <4>3. {i \in DOMAIN got : got[i].finish # "none"} = {Len(got)}
          BY <3>5, <4>1, <4>2
        <4> QED
          BY <1>1, <1>3, <3>2, <3>3, <3>5, <4>1, <4>3 DEF Finishing, OneFinishLast
      <3> QED
        BY <3>4, <3>5
    <2>7. CASE recovers /\ ~Spent(recovery) /\ rest.out = <<Content(recovery.buffer, "stop")>>
      <3>1. ended = "none" /\ \A i \in DOMAIN got : got[i].finish = "none"
        BY <1>1, <1>3, <2>7 DEF Finishing, Unfinished
      <3>2. PICK y : y = Content(recovery.buffer, "stop")
        OBVIOUS
      <3>3. y \in Fragment
        <4>1. recovery.buffer \in Seq(Piece) /\ "stop" \in Finish
          BY <2>4 DEF RecoveryStates, Finish
        <4>2. Plain(y)
          BY <3>2, <4>1, ContentChoice
        <4> QED
          BY <4>2 DEF Plain, Delta, Fragment
      <3>4. got' = Read(got, y)
        <4>1. <<>> \o <<y>> = <<y>> /\ Len(<<y>>) = 1 /\ <<y>>[1] = y
          BY <3>3
        <4> QED
          BY <2>1, <2>3, <2>7, <3>2, <4>1, ReadsIs
      <3>5. \A i \in DOMAIN got' : i # Len(got') => got'[i].finish = "none"
        BY <2>4, <3>1, <3>3, <3>4, ReadFinishes
      <3>6. {i \in DOMAIN got' : got'[i].finish # "none"} \subseteq {Len(got')}
        BY <3>5
      <3> QED
        BY <1>1, <1>3, <3>1, <3>6 DEF Finishing, OneFinishLast
    <2> QED
      BY <2>5, <2>6, <2>7
  <1> QED
    BY <1>1, <1>2, <1>3

LEMMA FinishingStep == ASSUME ProxyAssumption, Flows, Finishing, [Next]_vars PROVE Finishing'
  <1>1. CASE \/ \E chunks \in Retrievals, fails \in BOOLEAN : Forward(chunks, fails)
             \/ Accept \/ Open \/ UsageChunk \/ Break \/ ClientLeaves \/ UNCHANGED vars
    <2>1. /\ UNCHANGED <<splits, recovers, recovery, got, ended>>
          /\ pc' = pc \/ pc' \notin {"asked", "forwarded", "accepted", "stream", "done"}
               \/ (pc = "asked" /\ pc' = "forwarded") \/ (pc = "forwarded" /\ pc' = "accepted")
               \/ (pc = "accepted" /\ pc' = "stream")
      BY <1>1 DEF Forward, Accept, Open, UsageChunk, Cancel, Break, ClientLeaves, vars, deployment,
                  stages, answer
    <2> QED
      BY <2>1, FinishingQuiet
  <1>2. CASE \E message \in Messages, fails \in BOOLEAN : AnswerWhole(message, fails)
    BY <1>2 DEF AnswerWhole, Finishing, OneFinishLast
  <1>3. ASSUME NEW t \in Deltas, NEW f \in {"none", "length"}, ContentChunk(t, f) PROVE Finishing'
    <2>1. t \in Seq(Piece) /\ f \in Finish
      BY DeltaType DEF Flows, Finish
    <2>2. Plain(Content(t, f)) /\ Content(t, f).finish = f
      BY <2>1, ContentChoice
    <2>3. pc = "stream" /\ ended = "none" /\ Deliver(Content(t, f)) /\ ended' = f
      BY <1>3 DEF ContentChunk, Streaming
    <2> QED
      BY <2>2, <2>3, FinishingChunk
  <1>4. CASE ReasoningChunk
    <2>1. PICK c : c = Reasoning(<<"word">>, "none")
      OBVIOUS
    <2>2. <<"word">> \in Seq(Piece) /\ "none" \in Finish
      BY OneElement DEF Piece, Finish
    <2>3. Plain(c) /\ c.finish = "none"
      BY <2>1, <2>2, ReasoningChoice
    <2>4. pc = "stream" /\ ended = "none" /\ Deliver(c) /\ ended' = "none"
      BY <1>4, <2>1 DEF ReasoningChunk, Streaming
    <2> QED
      BY <2>3, <2>4, FinishingChunk
  <1>5. CASE ToolChunk
    <2>1. PICK c : c = [Empty("none") EXCEPT !.parsed = TRUE]
      OBVIOUS
    <2>2. PICK e \in Choice : /\ e = Empty("none") /\ e.reasoning = <<>> /\ e.content = None
                              /\ e.recovered = 0 /\ e.finish = "none"
      BY EmptyChoice DEF Plain, Delta, Finish
    <2>3. c \in Choice /\ c.reasoning = <<>> /\ c.content = None /\ c.recovered = 0 /\ c.finish = "none"
      BY <2>1, <2>2 DEF Choice
    <2>4. Plain(c)
      BY <2>3 DEF Plain, Delta
    <2>5. pc = "stream" /\ ended = "none" /\ Deliver(c) /\ ended' = "none"
      BY <1>5, <2>1 DEF ToolChunk, Streaming
    <2> QED
      BY <2>3, <2>4, <2>5, FinishingChunk
  <1>6. CASE FinishChunk("length")
    <2>1. Plain(Empty("length")) /\ Empty("length").finish = "length"
      BY EmptyChoice DEF Finish
    <2>2. pc = "stream" /\ ended = "none" /\ Deliver(Empty("length")) /\ ended' = "length"
      BY <1>6 DEF FinishChunk, Streaming
    <2> QED
      BY <2>1, <2>2, FinishingChunk
  <1>7. CASE Done
    BY <1>7, FinishingDone
  <1> QED
    BY <1>1, <1>2, <1>3, <1>4, <1>5, <1>6, <1>7 DEF Next

\* Without stream_rewriter a client gets one finish reason, after all else, and
\* it says whether a call was recovered.
THEOREM OneFinish == Spec => []OneFinishLast
  <1>1. ProxyAssumption /\ Flows /\ Finishing /\ [Next]_vars => Finishing'
    BY FinishingStep
  <1>2. Finishing => OneFinishLast
    BY DEF Finishing
  <1>3. Init => Finishing
    BY FinishingInit
  <1> QED
    BY <1>1, <1>2, <1>3, AlwaysFlows, ProxyAssumption, PTL DEF Spec

-----------------------------------------------------------------------------
(* Recovery from a stream and from the whole text                          *)

LEMMA NothingIsPrefix ==
    ASSUME NEW S, NEW s \in Seq(S), Len(s) \in 1 .. 2
    PROVE  IsPrefix(<<>>, s) /\ ~IsPrefix(s, <<>>)
  <1>1. PICK e \in Seq(S) : e = <<>> /\ Len(e) = 0
    <2>1. <<>> \in Seq(S) /\ Len(<<>>) = 0
      OBVIOUS
    <2> QED
      BY <2>1, Zenon
  <1>2. /\ IsPrefix(e, s) <=> Len(e) <= Len(s) /\ \A n \in 1 .. Len(e) : e[n] = s[n]
        /\ IsPrefix(s, e) <=> Len(s) <= Len(e) /\ \A n \in 1 .. Len(s) : s[n] = e[n]
    BY PrefixIs
  <1>3. Len(e) <= Len(s) /\ ~(Len(s) <= Len(e)) /\ \A n \in 1 .. Len(e) : e[n] = s[n]
    BY <1>1, SMTT(30)
  <1>4. IsPrefix(e, s) /\ ~IsPrefix(s, e)
    BY <1>2, <1>3
  <1> QED
    BY <1>1, <1>4

\* What comes later does not change where a text begins.
LEMMA LStripGrows ==
    ASSUME NEW s \in Seq(Piece), NEW t \in Seq(Piece), LStrip(s) # <<>>
    PROVE  /\ LStrip(s \o t) \in Seq(Piece) /\ Len(LStrip(s)) <= Len(LStrip(s \o t))
           /\ \A i \in 1 .. Len(LStrip(s)) : LStrip(s \o t)[i] = LStrip(s)[i]
  <1>1. PICK k \in 0 .. Len(s) :
           /\ LStrip(s) = SubSeq(s, k + 1, Len(s))
           /\ \A i \in 1 .. k : s[i] = "nl"
           /\ k < Len(s) => s[k + 1] # "nl"
    BY LStripCuts
  <1>2. PICK u \in Seq(Piece) : /\ u = s \o t /\ Len(u) = Len(s) + Len(t)
                                /\ \A i \in 1 .. Len(s) : u[i] = s[i]
    <2>1. /\ s \o t \in Seq(Piece) /\ Len(s \o t) = Len(s) + Len(t)
          /\ \A i \in 1 .. Len(s) : (s \o t)[i] = s[i]
      OBVIOUS
    <2> QED
      BY <2>1, Zenon
  <1>3. PICK j \in 0 .. Len(u) :
           /\ LStrip(u) = SubSeq(u, j + 1, Len(u))
           /\ \A i \in 1 .. j : u[i] = "nl"
           /\ j < Len(u) => u[j + 1] # "nl"
    BY LStripCuts
  <1>4. Len(s) \in Nat /\ Len(t) \in Nat
    OBVIOUS
  <1>5. k < Len(s)
    <2>1. ASSUME k = Len(s) PROVE FALSE
      <3>1. SubSeq(s, k + 1, Len(s)) = <<>>
        BY <1>4, <2>1
      <3> QED
        BY <1>1, <3>1
    <2> QED
      BY <1>4, <2>1
  <1>6. j = k
    <2>1. k + 1 \in 1 .. Len(s) /\ u[k + 1] # "nl"
      BY <1>1, <1>2, <1>4, <1>5
    <2>2. j <= k
      BY <1>3, <1>4, <2>1
    <2>3. ASSUME j < k PROVE FALSE
      <3>1. j + 1 \in 1 .. k /\ j + 1 \in 1 .. Len(s) /\ j < Len(u)
        BY <1>2, <1>4, <2>3
      <3> QED
        BY <1>1, <1>2, <1>3, <3>1
    <2> QED
      BY <2>2, <2>3
  <1>7. /\ SubSeq(u, k + 1, Len(u)) \in Seq(Piece)
        /\ Len(SubSeq(u, k + 1, Len(u))) = Len(u) - k
        /\ \A i \in 1 .. Len(u) - k : SubSeq(u, k + 1, Len(u))[i] = u[i + k]
    BY <1>2, <1>4, SMTT(30)
  <1>8. /\ Len(SubSeq(s, k + 1, Len(s))) = Len(s) - k
        /\ \A i \in 1 .. Len(s) - k : SubSeq(s, k + 1, Len(s))[i] = s[i + k]
    BY <1>4
  <1>9. LStrip(u) \in Seq(Piece) /\ Len(LStrip(s)) <= Len(LStrip(u))
    BY <1>1, <1>2, <1>3, <1>4, <1>6, <1>7, <1>8, SMTT(30)
  <1>10. ASSUME NEW i \in 1 .. Len(LStrip(s)) PROVE LStrip(u)[i] = LStrip(s)[i]
    <2>1. i \in 1 .. Len(s) - k /\ i \in 1 .. Len(u) - k /\ i + k \in 1 .. Len(s)
      BY <1>1, <1>2, <1>4, <1>8
    <2>2. LStrip(s)[i] = s[i + k] /\ LStrip(u)[i] = u[i + k]
      BY <1>1, <1>3, <1>6, <1>7, <1>8, <2>1
    <2> QED
      BY <1>2, <2>1, <2>2
  <1> QED
    BY <1>2, <1>9, <1>10

\* Once the beginning of a text is found to be a leaked call, or none, it stays so.
LEMMA ClassStays ==
    ASSUME NEW b \in Seq(Piece), NEW t \in Seq(Piece), ClassifyStreamingBuffer(b) # "undecided"
    PROVE  ClassifyStreamingBuffer(b \o t) = ClassifyStreamingBuffer(b)
  <1>1. DOMAIN Openers = 1 .. 4 /\ \A i \in 1 .. 4 : Openers[i] \in Seq(Piece) /\ Len(Openers[i]) \in 1 .. 2
    <2>1. ASSUME NEW i \in 1 .. 4 PROVE Openers[i] \in Seq(Piece)
      <3>1. Openers[i] \in Seq(Marker)
        BY OpenersAre
      <3> QED
        BY <3>1 DEF Marker, Piece
    <2> QED
      BY <2>1, OpenersAre
  <1>2. PICK x \in Seq(Piece) : x = LStrip(b)
    BY LStripLeaves
  <1>3. PICK u \in Seq(Piece) : u = b \o t /\ Len(u) >= Len(b)
    <2>1. b \o t \in Seq(Piece) /\ Len(b \o t) >= Len(b)
      OBVIOUS
    <2> QED
      BY <2>1, Zenon
  <1>4. PICK y \in Seq(Piece) : y = LStrip(u)
    BY LStripLeaves
  <1>5. x # <<>>
    <2>1. ASSUME x = <<>> PROVE FALSE
      <3>1. 1 \in DOMAIN Openers
        BY <1>1
      <3>2. ASSUME NEW i \in DOMAIN Openers PROVE IsPrefix(<<>>, Openers[i]) /\ ~IsPrefix(Openers[i], <<>>)
        <4>1. PICK o \in Seq(Piece) : o = Openers[i] /\ Len(o) \in 1 .. 2
          BY <1>1
        <4>2. IsPrefix(<<>>, o) /\ ~IsPrefix(o, <<>>)
          BY <4>1, NothingIsPrefix
        <4> QED
          BY <4>1, <4>2
      <3> QED
        BY <1>2, <2>1, <3>1, <3>2 DEF ClassifyStreamingBuffer
    <2> QED
      BY <2>1
  <1>6. Len(x) \in Nat /\ Len(y) \in Nat /\ Len(x) <= Len(y) /\ \A i \in 1 .. Len(x) : y[i] = x[i]
    BY <1>2, <1>3, <1>4, <1>5, LStripGrows
  <1>7. ASSUME NEW i \in 1 .. 4
        PROVE  /\ IsPrefix(Openers[i], x) => IsPrefix(Openers[i], y)
               /\ IsPrefix(Openers[i], y) => IsPrefix(Openers[i], x) \/ IsPrefix(x, Openers[i])
               /\ IsPrefix(y, Openers[i]) => IsPrefix(x, Openers[i])
    <2>1. PICK o \in Seq(Piece) : o = Openers[i] /\ Len(o) \in Nat
      BY <1>1
    <2>2. /\ IsPrefix(o, x) <=> Len(o) <= Len(x) /\ \A n \in 1 .. Len(o) : o[n] = x[n]
          /\ IsPrefix(o, y) <=> Len(o) <= Len(y) /\ \A n \in 1 .. Len(o) : o[n] = y[n]
          /\ IsPrefix(x, o) <=> Len(x) <= Len(o) /\ \A n \in 1 .. Len(x) : x[n] = o[n]
          /\ IsPrefix(y, o) <=> Len(y) <= Len(o) /\ \A n \in 1 .. Len(y) : y[n] = o[n]
      BY PrefixIs
    <2>3. IsPrefix(o, x) => IsPrefix(o, y)
      BY <1>6, <2>1, <2>2
    <2>4. IsPrefix(o, y) => IsPrefix(o, x) \/ IsPrefix(x, o)
      BY <1>6, <2>1, <2>2
    <2>5. IsPrefix(y, o) => IsPrefix(x, o)
      BY <1>6, <2>1, <2>2
    <2> QED
      BY <2>1, <2>3, <2>4, <2>5
  <1>8. CASE \E i \in 1 .. 4 : IsPrefix(Openers[i], x)
    <2>1. \E i \in 1 .. 4 : IsPrefix(Openers[i], y)
      BY <1>7, <1>8
    <2> QED
      BY <1>1, <1>2, <1>3, <1>4, <1>8, <2>1 DEF ClassifyStreamingBuffer
  <1>9. CASE ~\E i \in 1 .. 4 : IsPrefix(Openers[i], x)
    <2>1. /\ ~\E i \in 1 .. 4 : IsPrefix(x, Openers[i])
          /\ ~(Len(b) < Threshold)
          /\ ClassifyStreamingBuffer(b) = "no-leak"
      BY <1>1, <1>2, <1>9 DEF ClassifyStreamingBuffer
    <2>2. /\ ~\E i \in 1 .. 4 : IsPrefix(Openers[i], y)
          /\ ~\E i \in 1 .. 4 : IsPrefix(y, Openers[i])
      BY <1>7, <1>9, <2>1
    <2>3. ~(Len(u) < Threshold)
      <3>1. Len(u) \in Nat /\ Len(b) \in Nat /\ Threshold \in Nat
        BY RewriterAssumption DEF RewriterAssumption
      <3> QED
        BY <1>3, <2>1, <3>1
    <2> QED
      BY <1>1, <1>3, <1>4, <2>1, <2>2, <2>3 DEF ClassifyStreamingBuffer
  <1> QED
    BY <1>8, <1>9

\* The decision of stream_tool_recovery is about the whole answer b so far, which
\* it holds until it has decided against a leak.
Sees(q, b) ==
    /\ q.decision = CASE ClassifyStreamingBuffer(b) = "leak" -> "buffering"
                      [] ClassifyStreamingBuffer(b) = "undecided" -> "deciding"
                      [] OTHER -> "passthrough"
    /\ q.decision # "passthrough" => q.buffer = b

LEMMA ClassType == \A b : ClassifyStreamingBuffer(b) \in {"leak", "undecided", "no-leak"}
  BY DEF ClassifyStreamingBuffer

LEMMA SeesNothing == Sees(RecoveryStart, <<>>)
  <1>1. LStrip(<<>>) = <<>>
    <2>1. {i \in DOMAIN <<>> : <<>>[i] # "nl"} = {}
      OBVIOUS
    <2> QED
      BY <2>1 DEF LStrip
  <1>2. ASSUME NEW i \in DOMAIN Openers PROVE IsPrefix(<<>>, Openers[i]) /\ ~IsPrefix(Openers[i], <<>>)
    <2>1. PICK o \in Seq(Marker) : o = Openers[i] /\ Len(o) \in 1 .. 2
      BY OpenersAre
    <2>2. IsPrefix(<<>>, o) /\ ~IsPrefix(o, <<>>)
      BY <2>1, NothingIsPrefix
    <2> QED
      BY <2>1, <2>2
  <1>3. 1 \in DOMAIN Openers
    BY OpenersAre
  <1>4. ClassifyStreamingBuffer(<<>>) = "undecided"
    BY <1>1, <1>2, <1>3 DEF ClassifyStreamingBuffer
  <1> QED
    BY <1>4 DEF Sees, RecoveryStart

\* Of the answer b, a chunk with finish reason f included, the stage has made r.
Judges(r, f, b) ==
    /\ f = "none" => Sees(r.state, b)
    /\ f # "none" /\ ClassifyStreamingBuffer(b) = "leak" =>
          \E y : r.out = <<y>> /\ y.recovered = RecoverToolCalls(b).calls

\* Of a leaked call that ends with its finish reason as many calls are recovered as
\* from the whole text.
LEMMA RecoverSees ==
    ASSUME NEW q \in RecoveryStates, NEW d, Plain(d), ~d.parsed, NEW b \in Seq(Piece), Sees(q, b),
           NEW b2 \in Seq(Piece), b2 = IF d.content = None THEN b ELSE b \o d.content
    PROVE  Judges(RecoverChoice(q, d), d.finish, b2)
  <1> DEFINE r == RecoverChoice(q, d)
             t == d.content
             f == d.finish
             held == Holds(q, t)
             class == ClassifyStreamingBuffer(b2)
  <1>1. /\ d \in Choice /\ f \in Finish /\ q.buffer \in Seq(Piece)
        /\ q.decision \in {"deciding", "passthrough", "buffering"}
    BY DEF Plain, Delta, RecoveryStates, Choice
  <1>2. ASSUME ClassifyStreamingBuffer(b) # "undecided" PROVE class = ClassifyStreamingBuffer(b)
    <2>1. CASE t = None
      BY <2>1
    <2>2. CASE t # None
      <3>1. t \in Seq(Piece)
        BY <1>1, <2>2 DEF Choice
      <3> QED
        BY <1>2, <2>2, <3>1, ClassStays
    <2> QED
      BY <2>1, <2>2
  <1>3. f # "none" => Recovered(b2, f).recovered = RecoverToolCalls(b2).calls
    BY <1>1, RecoveredSound
  <1>4. class \in {"leak", "undecided", "no-leak"}
        /\ ClassifyStreamingBuffer(b) \in {"leak", "undecided", "no-leak"}
    BY ClassType
  <1> HIDE DEF r, f, class
  <1>5. CASE q.decision = "passthrough"
    <2>1. r.out = <<d>> /\ r.state = q
      BY <1>5 DEF RecoverChoice, Forwards, r
    <2>2. ClassifyStreamingBuffer(b) = "no-leak"
      BY <1>4, <1>5 DEF Sees
    <2>3. class = "no-leak"
      BY <1>2, <2>2
    <2> QED
      BY <1>5, <2>1, <2>3 DEF Sees, Judges, r, f, class
  <1>6. CASE q.decision # "passthrough" /\ t = None
    <2>1. r = RecoverNoContent(q, d) /\ b2 = b /\ q.buffer = b
      BY <1>6 DEF RecoverChoice, r, Sees
    <2>2. CASE f = "none"
      <3>1. r.state = q
        BY <2>1, <2>2 DEF RecoverNoContent, Forwards, f
      <3> QED
        BY <2>1, <2>2, <3>1 DEF Judges, r, f
    <2>3. ASSUME f # "none", class = "leak"
          PROVE  \E y : r.out = <<y>> /\ y.recovered = RecoverToolCalls(b2).calls
      <3>1. q.decision = "buffering"
        BY <2>1, <2>3 DEF Sees, class
      <3>2. b # <<>>
        <4>1. ASSUME b = <<>> PROVE FALSE
          <5>1. RecoveryStart.decision = "deciding" /\ Sees(RecoveryStart, b)
            BY <4>1, SeesNothing DEF RecoveryStart
          <5> QED
            BY <3>1, <5>1 DEF Sees
        <4> QED
          BY <4>1
      <3>3. r.out = <<Recovered(b, f)>>
        BY <2>1, <2>3, <3>1, <3>2 DEF RecoverNoContent, Forwards, FlushesAtFinish, f
      <3> QED
        BY <1>3, <2>1, <2>3, <3>3
    <2> QED
      BY <2>2, <2>3 DEF Judges, r, f, class
  <1>7. ASSUME q.decision # "passthrough", t # None
        PROVE  Judges(r, f, b2)
    <2>1. b2 = q.buffer \o t /\ held = [q EXCEPT !.buffer = b2]
      BY <1>7 DEF Sees, Holds
    <2>2. held \in RecoveryStates /\ held.buffer = b2 /\ held.decision = q.decision
      BY <2>1 DEF RecoveryStates
    <2> HIDE DEF held
    <2>3. CASE q.decision = "deciding"
      <3> DEFINE leaking == [held EXCEPT !.decision = "buffering"]
      <3>1. r = RecoverDeciding(held, f)
        BY <1>7, <2>3 DEF RecoverChoice, r, held, f
      <3>2. /\ leaking.buffer = b2 /\ leaking.decision = "buffering"
            /\ Passing(held).decision = "passthrough"
        BY <2>2 DEF RecoveryStates, Emptied, Passing
      <3>3. /\ class = "leak" /\ f # "none" => r = Forwards(Emptied(leaking), <<Recovered(b2, f)>>)
            /\ class = "leak" /\ f = "none" => r = Forwards(leaking, <<>>)
            /\ class = "no-leak" /\ f = "none" => r = Forwards(Passing(held), <<Content(b2, f)>>)
            /\ class = "undecided" /\ f = "none" => r = Forwards(held, <<>>)
        BY <2>2, <3>1 DEF RecoverDeciding, class
      <3> HIDE DEF leaking
      <3>4. /\ class = "leak" /\ f # "none" => r.out = <<Recovered(b2, f)>>
            /\ class = "leak" /\ f = "none" => r.state = leaking
            /\ class = "no-leak" /\ f = "none" => r.state = Passing(held)
            /\ class = "undecided" /\ f = "none" => r.state = held
        BY <3>3 DEF Forwards
      <3>5. f = "none" => Sees(r.state, b2)
        BY <1>4, <2>2, <2>3, <3>2, <3>4 DEF Sees, class
      <3> QED
        BY <1>3, <3>4, <3>5 DEF Judges, class
    <2>4. CASE q.decision = "buffering"
      <3>1. r = RecoverBuffering(held, f)
        BY <1>7, <2>4 DEF RecoverChoice, r, held, f
      <3>2. /\ f = "none" => r.state = held
            /\ f # "none" => r.out = <<Recovered(b2, f)>>
        BY <2>2, <3>1 DEF RecoverBuffering, Forwards
      <3>3. class = "leak"
        BY <1>2, <1>4, <2>4 DEF Sees
      <3>4. f = "none" => Sees(r.state, b2)
        BY <2>2, <2>4, <3>2, <3>3 DEF Sees, class
      <3> QED
        BY <1>3, <3>2, <3>4 DEF Judges, class
    <2> QED
      BY <1>1, <1>7, <2>3, <2>4
  <1>8. CASE q.decision # "passthrough" /\ t # None
    BY <1>7, <1>8 DEF r, f, class
  <1> QED
    BY <1>5, <1>6, <1>8

\* The stage sees the whole of a streamed answer in which vLLM's parser finds no
\* call, and at its finish has recovered what is in it.
Sighted ==
    /\ pc = "stream" /\ recovers /\ ~splits /\ ~tooled =>
          /\ ended = "none" => Sees(recovery, said)
          /\ ended # "none" /\ ClassifyStreamingBuffer(said) = "leak" =>
                CallsIn(got) = RecoverToolCalls(said).calls
    /\ StreamRecoversAsWhole

LEMMA SightedInit == Init => Sighted
  BY DEF Init, Sighted, StreamRecoversAsWhole

\* A step that is no chunk and does not end the stream.
LEMMA SightedQuiet ==
    ASSUME Flows, Finishing, Sighted, UNCHANGED <<splits, recovers, recovery, got, said, tooled, ended>>,
           pc' = pc \/ pc' \notin {"stream", "done"} \/ (pc = "accepted" /\ pc' = "stream")
    PROVE  Sighted'
  <1>1. Calls' = Calls
    BY DEF Calls
  <1>2. CASE pc = "accepted" /\ pc' = "stream"
    <2>1. recovery = RecoveryStart /\ said = <<>> /\ ended = "none"
      BY <1>2 DEF Flows, Untouched, Finishing
    <2>2. Sees(recovery, said)
      BY <2>1, SeesNothing
    <2> QED
      BY <1>2, <2>1, <2>2 DEF Sighted, StreamRecoversAsWhole, Sees
  <1>3. CASE pc' = pc
    BY <1>1, <1>3 DEF Sighted, StreamRecoversAsWhole, Sees
  <1>4. CASE pc' \notin {"stream", "done"}
    BY <1>4 DEF Sighted, StreamRecoversAsWhole
  <1> QED
    BY <1>2, <1>3, <1>4

\* A chunk of vLLM's.
LEMMA SightedChunk ==
    ASSUME Flows, Finishing, Sighted, pc = "stream", ended = "none", NEW c, Plain(c), Deliver(c),
           ended' = c.finish, tooled' = (tooled \/ c.parsed), said' \in Seq(Piece),
           said' = IF c.content = None THEN said ELSE said \o c.content
    PROVE  Sighted'
  <1>1. pc' \in {"stream", "cancelled"} /\ splits' = splits /\ recovers' = recovers
    BY DEF Deliver, deployment, Written, Cancel
  <1>2. CASE pc' = "cancelled" \/ ~recovers \/ splits \/ tooled'
    BY <1>1, <1>2 DEF Sighted, StreamRecoversAsWhole
  <1>3. CASE pc' = "stream" /\ recovers /\ ~splits /\ ~tooled'
    <2> DEFINE r == RecoverChoice(recovery, c)
    <2>1. /\ recovery' = r.state
          /\ \/ r.out = <<>> /\ got' = got
             \/ \E y : r.out = <<y>> /\ got' = Read(got, y)
      BY <1>3, DeliverUnsplit
    <2>2. /\ got \in Seq(Fragment) /\ recovery \in RecoveryStates /\ said \in Seq(Piece)
          /\ CallsIn(got) = 0 /\ ~tooled /\ ~c.parsed /\ Sees(recovery, said)
      BY <1>3 DEF Flows, StateOK, Finishing, Unfinished, Sighted
    <2>3. /\ c.finish = "none" => Sees(r.state, said')
          /\ c.finish # "none" /\ ClassifyStreamingBuffer(said') = "leak" =>
                \E y : r.out = <<y>> /\ y.recovered = RecoverToolCalls(said').calls
      <3>1. PICK b2 \in Seq(Piece) : b2 = said'
        OBVIOUS
      <3>2. b2 = IF c.content = None THEN said ELSE said \o c.content
        BY <3>1
      <3>3. recovery \in RecoveryStates /\ said \in Seq(Piece) /\ ~c.parsed /\ Sees(recovery, said)
        BY <2>2
      <3>4. Judges(r, c.finish, b2)
        BY <3>2, <3>3, RecoverSees
      <3> HIDE DEF r
      <3> QED
        BY <3>1, <3>4 DEF Judges
    <2>4. Single(r.out)
      BY <2>2, RecoverChoiceSound DEF Carries
    <2> HIDE DEF r
    <2>5. CASE c.finish = "none"
      BY <1>1, <1>3, <2>1, <2>3, <2>5 DEF Sighted, StreamRecoversAsWhole
    <2>6. ASSUME c.finish # "none", ClassifyStreamingBuffer(said') = "leak"
          PROVE  CallsIn(got') = RecoverToolCalls(said').calls
      <3>1. PICK y : r.out = <<y>> /\ y.recovered = RecoverToolCalls(said').calls
        BY <2>3, <2>6
      <3>2. got' = Read(got, y)
        BY <2>1, <3>1
      <3>3. y \in Fragment
        BY <2>4, <3>1 DEF Single, Fragment, Delta
      <3>4. CallsIn(got') = CallsIn(got) + y.recovered /\ y.recovered \in Nat
        BY <2>2, <3>2, <3>3, ReadSound DEF Fragment, Choice
      <3> QED
        BY <2>2, <3>1, <3>4
    <2>7. CASE c.finish # "none"
      BY <1>1, <1>3, <2>6, <2>7 DEF Sighted, StreamRecoversAsWhole
    <2> QED
      BY <2>5, <2>7
  <1> QED
    BY <1>1, <1>2, <1>3

\* What [DONE] flushes is no call.
LEMMA SightedDone ==
    ASSUME Flows, Finishing, Sighted, Done
    PROVE  Sighted'
  <1>1. /\ pc = "stream" /\ UNCHANGED <<splits, recovers, said, tooled, ended>>
        /\ pc' \in {"cancelled", "done"}
    BY DEF Done, Cancel, deployment, answer
  <1>2. CASE ~(pc' = "done" /\ recovers /\ ~splits /\ ended # "none")
    BY <1>1, <1>2 DEF Sighted, StreamRecoversAsWhole
  <1>3. CASE pc' = "done" /\ recovers /\ ~splits /\ ended # "none"
    <2> DEFINE shown == ThroughRecovery(<<>>)
    <2>1. got' = Reads(shown.out \o RecoveryDone(shown.state).out)
      BY <1>3 DEF Done, Cancel
    <2>2. shown = Forwards(recovery, <<>>)
      <3>1. Len(<<>>) = 0
        OBVIOUS
      <3> QED
        BY <1>3, <3>1, ThroughRecoveryIs
    <2>3. shown.out = <<>> /\ shown.state = recovery
      BY <2>2 DEF Forwards
    <2> HIDE DEF shown
    <2>4. Spent(recovery)
      BY <1>1, <1>3 DEF Finishing
    <2>5. RecoveryDone(recovery).out = <<>>
      BY <2>4 DEF RecoveryDone, Forwards, Spent
    <2>6. <<>> \o <<>> = <<>> /\ Len(<<>>) = 0
      OBVIOUS
    <2>7. got' = got
      BY <2>1, <2>3, <2>5, <2>6, ReadsIs
    <2>8. Calls' = CallsIn(got)
      BY <2>7, ReceivedIs, Fragments DEF Calls, Flows, StateOK
    <2> QED
      BY <1>1, <1>3, <2>8 DEF Sighted, StreamRecoversAsWhole
  <1> QED
    BY <1>2, <1>3

LEMMA SightedStep == ASSUME ProxyAssumption, Flows, Finishing, Sighted, [Next]_vars PROVE Sighted'
  <1>1. CASE \/ \E chunks \in Retrievals, fails \in BOOLEAN : Forward(chunks, fails)
             \/ Accept \/ Open \/ UsageChunk \/ Break \/ ClientLeaves \/ UNCHANGED vars
    <2>1. /\ UNCHANGED <<splits, recovers, recovery, got, said, tooled, ended>>
          /\ pc' = pc \/ pc' \notin {"stream", "done"} \/ (pc = "accepted" /\ pc' = "stream")
      BY <1>1 DEF Forward, Accept, Open, UsageChunk, Cancel, Break, ClientLeaves, vars, deployment,
                  stages, answer
    <2> QED
      BY <2>1, SightedQuiet
  <1>2. CASE \E message \in Messages, fails \in BOOLEAN : AnswerWhole(message, fails)
    BY <1>2 DEF AnswerWhole, Sighted, StreamRecoversAsWhole
  <1>3. ASSUME NEW t \in Deltas, NEW f \in {"none", "length"}, ContentChunk(t, f) PROVE Sighted'
    <2>1. PICK c : c = Content(t, f)
      OBVIOUS
    <2>2. t \in Seq(Piece) /\ f \in Finish /\ said \in Seq(Piece) /\ tooled \in BOOLEAN
      BY DeltaType DEF Flows, StateOK, Finish
    <2>3. Plain(c) /\ c.finish = f /\ c.content = t /\ t # None /\ ~c.parsed
      BY <2>1, <2>2, ContentChoice
    <2>4. /\ pc = "stream" /\ ended = "none" /\ Deliver(c) /\ ended' = c.finish
          /\ tooled' = (tooled \/ c.parsed) /\ said' = said \o t
      BY <1>3, <2>1, <2>2, <2>3 DEF ContentChunk, Streaming
    <2>5. said' \in Seq(Piece)
      BY <2>2, <2>4
    <2> QED
      BY <2>3, <2>4, <2>5, SightedChunk
  <1>4. CASE ReasoningChunk
    <2>1. PICK c : c = Reasoning(<<"word">>, "none")
      OBVIOUS
    <2>2. <<"word">> \in Seq(Piece) /\ "none" \in Finish /\ said \in Seq(Piece) /\ tooled \in BOOLEAN
      BY OneElement DEF Piece, Finish, Flows, StateOK
    <2>3. Plain(c) /\ c.finish = "none" /\ c.content = None /\ ~c.parsed
      BY <2>1, <2>2, ReasoningChoice
    <2>4. /\ pc = "stream" /\ ended = "none" /\ Deliver(c) /\ ended' = c.finish
          /\ tooled' = (tooled \/ c.parsed) /\ said' = said
      BY <1>4, <2>1, <2>2, <2>3 DEF ReasoningChunk, Streaming
    <2> QED
      BY <2>2, <2>3, <2>4, SightedChunk
  <1>5. CASE ToolChunk
    BY <1>5 DEF ToolChunk, Sighted, StreamRecoversAsWhole
  <1>6. CASE FinishChunk("length")
    <2>1. PICK c : c = Empty("length")
      OBVIOUS
    <2>2. said \in Seq(Piece) /\ tooled \in BOOLEAN
      BY DEF Flows, StateOK
    <2>3. Plain(c) /\ c.finish = "length" /\ c.content = None /\ ~c.parsed
      BY <2>1, EmptyChoice DEF Finish
    <2>4. /\ pc = "stream" /\ ended = "none" /\ Deliver(c) /\ ended' = c.finish
          /\ tooled' = (tooled \/ c.parsed) /\ said' = said
      BY <1>6, <2>1, <2>2, <2>3 DEF FinishChunk, Streaming
    <2> QED
      BY <2>2, <2>3, <2>4, SightedChunk
  <1>7. CASE Done
    BY <1>7, SightedDone
  <1> QED
    BY <1>1, <1>2, <1>3, <1>4, <1>5, <1>6, <1>7 DEF Next

\* However an answer that opens with a leaked call is cut into deltas, and
\* wherever its finish reason comes, the stream recovers as many calls from it as
\* are recovered from it as a whole.
THEOREM StreamRecovers == Spec => []StreamRecoversAsWhole
  <1>1. ProxyAssumption /\ Flows /\ Finishing /\ [Next]_vars => Finishing'
    BY FinishingStep
  <1>2. ProxyAssumption /\ Flows /\ Finishing /\ Sighted /\ [Next]_vars => Sighted'
    BY SightedStep
  <1>3. Init => Finishing /\ Sighted
    BY FinishingInit, SightedInit
  <1>4. Sighted => StreamRecoversAsWhole
    BY DEF Sighted
  <1> QED
    BY <1>1, <1>2, <1>3, <1>4, AlwaysFlows, ProxyAssumption, PTL DEF Spec

-----------------------------------------------------------------------------
(* The thinking block of a text that grows                                 *)

\* v is u without its first k pieces.
IsRest(v, u, k) == Len(v) = Len(u) - k /\ \A i \in 1 .. Len(v) : v[i] = u[i + k]

LEMMA Rest ==
    ASSUME NEW u \in Seq(Piece), NEW k \in 0 .. Len(u)
    PROVE  \E v \in Seq(Piece) : v = SubSeq(u, k + 1, Len(u)) /\ IsRest(v, u, k)
  <1>1. /\ SubSeq(u, k + 1, Len(u)) \in Seq(Piece) /\ Len(SubSeq(u, k + 1, Len(u))) = Len(u) - k
        /\ \A i \in 1 .. Len(u) - k : SubSeq(u, k + 1, Len(u))[i] = u[i + k]
    BY CutAt, ZenonT(40)
  <1> QED
    BY <1>1 DEF IsRest

\* v is the first k pieces of u.
IsFirst(v, u, k) == Len(v) = k /\ \A i \in 1 .. k : v[i] = u[i]

LEMMA First ==
    ASSUME NEW u \in Seq(Piece), NEW k \in 0 .. Len(u)
    PROVE  \E v \in Seq(Piece) : v = SubSeq(u, 1, k) /\ IsFirst(v, u, k)
  <1>1. /\ SubSeq(u, 1, k) \in Seq(Piece) /\ Len(SubSeq(u, 1, k)) = k
        /\ \A i \in 1 .. k : SubSeq(u, 1, k)[i] = u[i]
    BY CutAt, ZenonT(40)
  <1> QED
    BY <1>1 DEF IsFirst

LEMMA LStripSolid ==
    ASSUME NEW v \in Seq(Piece), v = <<>> \/ v[1] # "nl"
    PROVE  LStrip(v) = v
  <1>1. PICK k \in 0 .. Len(v) :
           /\ LStrip(v) = SubSeq(v, k + 1, Len(v)) /\ \A i \in 1 .. k : v[i] = "nl"
    BY LStripCuts
  <1>2. k = 0
    <2>1. ASSUME k > 0 PROVE FALSE
      <3>1. 1 \in 1 .. k /\ v # <<>>
        BY <2>1
      <3> QED
        BY <1>1, <3>1
    <2> QED
      BY <2>1
  <1>3. SubSeq(v, 1, Len(v)) = v
    BY SubSeqFull
  <1> QED
    BY <1>1, <1>2, <1>3

\* Newlines in front do not matter.
LEMMA LStripSkips ==
    ASSUME NEW u \in Seq(Piece), NEW k \in 0 .. Len(u), \A i \in 1 .. k : u[i] = "nl",
           NEW v \in Seq(Piece), IsRest(v, u, k)
    PROVE  LStrip(u) = LStrip(v)
  <1>1. Len(v) = Len(u) - k /\ \A i \in 1 .. Len(v) : v[i] = u[i + k]
    BY DEF IsRest
  <1>2. PICK j \in 0 .. Len(v) :
           /\ LStrip(v) = SubSeq(v, j + 1, Len(v))
           /\ \A i \in 1 .. j : v[i] = "nl"
           /\ j < Len(v) => v[j + 1] # "nl"
    BY LStripCuts
  <1>3. PICK n \in 0 .. Len(u) :
           /\ LStrip(u) = SubSeq(u, n + 1, Len(u))
           /\ \A i \in 1 .. n : u[i] = "nl"
           /\ n < Len(u) => u[n + 1] # "nl"
    BY LStripCuts
  <1>4. Len(u) \in Nat /\ Len(v) \in Nat
    OBVIOUS
  <1>5. n = j + k
    <2>1. ASSUME n < k PROVE FALSE
      <3>1. n + 1 \in 1 .. k /\ n < Len(u)
        BY <1>4, <2>1
      <3> QED
        BY <1>3, <3>1
    <2>2. PICK d \in 0 .. Len(v) : n = d + k
      <3>1. n - k \in 0 .. Len(v) /\ n = (n - k) + k
        BY <1>1, <1>4, <2>1
      <3> QED
        BY <3>1
    <2>3. ASSUME d < j PROVE FALSE
      <3>1. d + 1 \in 1 .. j /\ d + 1 \in 1 .. Len(v) /\ n < Len(u) /\ d + 1 + k = n + 1
        BY <1>1, <1>4, <2>2, <2>3
      <3>2. v[d + 1] = u[n + 1]
        BY <1>1, <3>1
      <3> QED
        BY <1>2, <1>3, <3>1, <3>2
    <2>4. ASSUME j < d PROVE FALSE
      <3>1. j + 1 \in 1 .. Len(v) /\ j < Len(v) /\ j + 1 + k \in 1 .. n
        BY <1>1, <1>4, <2>2, <2>4
      <3>2. v[j + 1] = u[j + 1 + k]
        BY <1>1, <3>1
      <3> QED
        BY <1>2, <1>3, <3>1, <3>2
    <2> QED
      BY <2>2, <2>3, <2>4
  <1>6. PICK a \in Seq(Piece) : a = SubSeq(v, j + 1, Len(v)) /\ IsRest(a, v, j)
    BY Rest
  <1>7. PICK b \in Seq(Piece) : b = SubSeq(u, n + 1, Len(u)) /\ IsRest(b, u, n)
    BY Rest
  <1>8. Len(a) = Len(b)
    BY <1>1, <1>4, <1>5, <1>6, <1>7 DEF IsRest
  <1>9. ASSUME NEW i \in 1 .. Len(a) PROVE a[i] = b[i]
    <2>1. /\ a[i] = v[i + j] /\ b[i] = u[i + n] /\ Len(a) = Len(v) - j
      BY <1>6, <1>7, <1>8 DEF IsRest
    <2>2. i + j \in 1 .. Len(v) /\ (i + j) + k = i + n
      BY <1>4, <1>5, <2>1
    <2> QED
      BY <1>1, <2>1, <2>2
  <1>10. a = b
    BY <1>8, <1>9, SeqEqual
  <1> QED
    BY <1>2, <1>3, <1>6, <1>7, <1>10

\* What LStrip leaves, LStrip does not change, whatever follows.
LEMMA LStripAbsorbs ==
    ASSUME NEW s \in Seq(Piece)
    PROVE  /\ LStrip(s) \in Seq(Piece) /\ LStrip(LStrip(s)) = LStrip(s)
           /\ LStrip(s) = <<>> \/ LStrip(s)[1] # "nl"
           /\ \A t \in Seq(Piece) : LStrip(s \o t) = LStrip(LStrip(s) \o t)
  <1>1. PICK k \in 0 .. Len(s) :
           /\ LStrip(s) = SubSeq(s, k + 1, Len(s))
           /\ \A i \in 1 .. k : s[i] = "nl"
           /\ k < Len(s) => s[k + 1] # "nl"
    BY LStripCuts
  <1>2. PICK v \in Seq(Piece) : v = SubSeq(s, k + 1, Len(s)) /\ IsRest(v, s, k)
    BY Rest
  <1>3. v = LStrip(s) /\ LStrip(v) = LStrip(s)
    BY <1>1, <1>2, LStripSkips
  <1>4. v = <<>> \/ v[1] # "nl"
    <2>1. ASSUME v # <<>> PROVE v[1] # "nl"
      <3>1. Len(v) \in Nat /\ Len(v) # 0 /\ Len(s) \in Nat
        BY <2>1, EmptySeq
      <3>2. 1 \in 1 .. Len(v) /\ k < Len(s) /\ 1 + k = k + 1
        BY <1>2, <3>1 DEF IsRest
      <3>3. v[1] = s[1 + k]
        BY <1>2, <3>2 DEF IsRest
      <3> QED
        BY <1>1, <3>2, <3>3
    <2> QED
      BY <2>1
  <1>5. ASSUME NEW t \in Seq(Piece) PROVE LStrip(s \o t) = LStrip(v \o t)
    <2>1. PICK u \in Seq(Piece) : IsJoint(u, s, t)
      BY Joint
    <2>2. PICK w \in Seq(Piece) : IsJoint(w, v, t)
      BY Joint
    <2>3. k \in 0 .. Len(u) /\ \A i \in 1 .. k : u[i] = "nl"
      <3>1. Len(u) = Len(s) + Len(t) /\ \A i \in 1 .. Len(s) : u[i] = s[i]
        BY <2>1 DEF IsJoint
      <3>2. Len(s) \in Nat /\ Len(t) \in Nat /\ k \in 0 .. Len(s)
        OBVIOUS
      <3>3. k \in 0 .. Len(u)
        BY ONLY <3>1, <3>2
      <3>4. ASSUME NEW i \in 1 .. k PROVE u[i] = "nl"
        <4>1. i \in 1 .. Len(s)
          BY <3>2
        <4> QED
          BY <1>1, <3>1, <4>1
      <3> QED
        BY <3>3, <3>4
    <2>4. IsRest(w, u, k)
      <3>1. /\ Len(u) = Len(s) + Len(t) /\ Len(w) = Len(v) + Len(t) /\ Len(v) = Len(s) - k
            /\ Len(s) \in Nat /\ Len(t) \in Nat
        BY <1>2, <2>1, <2>2 DEF IsJoint, IsRest
      <3>2. ASSUME NEW i \in 1 .. Len(w) PROVE w[i] = u[i + k]
        <4>1. CASE i <= Len(v)
          <5>1. i \in 1 .. Len(v) /\ i + k \in 1 .. Len(s)
            BY <3>1, <4>1
          <5> QED
            BY <1>2, <2>1, <2>2, <5>1 DEF IsJoint, IsRest
        <4>2. CASE ~(i <= Len(v))
          <5>1. PICK d \in 1 .. Len(t) : i = Len(v) + d
            <6>1. i - Len(v) \in 1 .. Len(t) /\ i = Len(v) + (i - Len(v))
              BY <3>1, <4>2
            <6> QED
              BY <6>1
          <5>2. i + k = Len(s) + d
            BY <3>1, <5>1
          <5>3. w[Len(v) + d] = t[d]
            BY <2>2, <5>1 DEF IsJoint
          <5>4. u[Len(s) + d] = t[d]
            BY <2>1, <5>1 DEF IsJoint
          <5> QED
            BY <5>1, <5>2, <5>3, <5>4
        <4> QED
          BY <4>1, <4>2
      <3> QED
        BY <3>1, <3>2 DEF IsRest
    <2>5. LStrip(u) = LStrip(w)
      BY <2>3, <2>4, LStripSkips
    <2> QED
      BY <2>1, <2>2, <2>5 DEF IsJoint
  <1> QED
    BY <1>3, <1>4, <1>5

\* Stripping twice, or on the left first, is stripping once.
LEMMA StripTwice ==
    ASSUME NEW t \in Seq(Piece)
    PROVE  Strip(t) \in Seq(Piece) /\ Strip(Strip(t)) = Strip(t) /\ Strip(LStrip(t)) = Strip(t)
  <1>1. PICK u \in Seq(Piece) : u = LStrip(t) /\ LStrip(u) = u /\ (u = <<>> \/ u[1] # "nl")
    BY LStripAbsorbs
  <1>2. PICK r \in Seq(Piece) : r = Reverse(u) /\ Len(r) = Len(u)
    BY ReverseProperties
  <1>3. PICK k \in 0 .. Len(r) :
           /\ LStrip(r) = SubSeq(r, k + 1, Len(r))
           /\ k < Len(r) => r[k + 1] # "nl"
    BY LStripCuts
  <1>4. k \in 0 .. Len(u) /\ Len(u) \in Nat
    BY <1>2
  <1>5. Strip(t) = SubSeq(u, 1, Len(u) - k)
    <2>1. Reverse(SubSeq(Reverse(u), k + 1, Len(u))) = SubSeq(u, 1, Len(u) - k)
      BY <1>4, ReverseCut
    <2> QED
      BY <1>1, <1>2, <1>3, <2>1 DEF Strip
  <1>6. PICK s \in Seq(Piece) : /\ s = SubSeq(u, 1, Len(u) - k) /\ Len(s) = Len(u) - k
                                /\ \A i \in 1 .. Len(u) - k : s[i] = u[i]
    <2>1. PICK n \in 0 .. Len(u) : n = Len(u) - k
      <3>1. Len(u) - k \in 0 .. Len(u)
        BY <1>4
      <3> QED
        BY <3>1
    <2>2. /\ SubSeq(u, 1, n) \in Seq(Piece) /\ Len(SubSeq(u, 1, n)) = n
          /\ \A i \in 1 .. n : SubSeq(u, 1, n)[i] = u[i]
      BY CutAt, ZenonT(40)
    <2> QED
      BY <2>1, <2>2
  <1>7. s = <<>> \/ s[1] # "nl"
    <2>1. ASSUME s # <<>> PROVE s[1] # "nl"
      <3>1. Len(s) \in Nat /\ Len(s) # 0
        BY <2>1, EmptySeq
      <3>2. 1 \in 1 .. Len(u) - k /\ Len(u) # 0
        BY <1>4, <1>6, <3>1
      <3>3. u # <<>>
        BY <3>2
      <3> QED
        BY <1>1, <1>6, <3>2, <3>3
    <2> QED
      BY <2>1
  <1>8. LStrip(s) = s
    BY <1>7, LStripSolid
  <1>9. PICK q \in Seq(Piece) : /\ q = Reverse(s) /\ Len(q) = Len(s)
                                /\ \A i \in 1 .. Len(s) : q[i] = s[Len(s) - i + 1]
    BY ReverseProperties
  <1>10. q = <<>> \/ q[1] # "nl"
    <2>1. ASSUME q # <<>> PROVE q[1] # "nl"
      <3>1. Len(s) \in Nat /\ Len(s) # 0
        BY <1>9, <2>1, EmptySeq
      <3>2. 1 \in 1 .. Len(s) /\ Len(s) - 1 + 1 = Len(s) /\ Len(s) \in 1 .. Len(u) - k
        BY <1>4, <1>6, <3>1
      <3>3. q[1] = s[Len(s)] /\ s[Len(s)] = u[Len(s)]
        BY <1>6, <1>9, <3>2
      <3>4. k + 1 \in 1 .. Len(u) /\ k < Len(r) /\ Len(u) - (k + 1) + 1 = Len(s)
        BY <1>2, <1>4, <1>6, <3>2
      <3>5. r[k + 1] = u[Len(u) - (k + 1) + 1]
        BY <1>2, <3>4, ReverseProperties
      <3> QED
        BY <1>3, <3>3, <3>4, <3>5
    <2> QED
      BY <2>1
  <1>11. LStrip(q) = q
    BY <1>10, LStripSolid
  <1>12. Reverse(q) = s
    <2>1. PICK z \in Seq(Piece) : /\ z = Reverse(q) /\ Len(z) = Len(q)
                                  /\ \A i \in 1 .. Len(q) : z[i] = q[Len(q) - i + 1]
      BY ReverseProperties
    <2>2. ASSUME NEW i \in 1 .. Len(z) PROVE z[i] = s[i]
      <3>1. /\ Len(q) - i + 1 \in 1 .. Len(s) /\ Len(s) - (Len(q) - i + 1) + 1 = i /\ i \in 1 .. Len(q)
        BY <1>9, <2>1
      <3> QED
        BY <1>9, <2>1, <3>1
    <2>3. z = s
      BY <1>9, <2>1, <2>2, SeqEqual
    <2> QED
      BY <2>1, <2>3
  <1>13. Strip(s) = s
    BY <1>8, <1>9, <1>11, <1>12 DEF Strip
  <1>14. Strip(u) = Strip(t)
    BY <1>1 DEF Strip
  <1> QED
    BY <1>1, <1>5, <1>6, <1>13, <1>14

\* A newline and what makes it the end of a thinking block.
Transition(p, q) == p = "nl" /\ q \in {"nl", "tag1", "hermes", "coder"}

LEMMA MarksAre == \A t : Marks(t) = {i \in 1 .. Len(t) - 1 : Transition(t[i], t[i + 1])}
  BY DEF Marks, Transition

\* Two texts cut a transition marker between them.
Crosses(s, t) == s # <<>> /\ t # <<>> /\ Transition(s[Len(s)], t[1])

LEMMA MarksJoint ==
    ASSUME NEW s \in Seq(Piece), NEW t \in Seq(Piece), NEW u \in Seq(Piece), IsJoint(u, s, t),
           ~Crosses(s, t)
    PROVE  \A i \in Nat : i \in Marks(u) <=> i \in Marks(s) \/ \E j \in Marks(t) : i = Len(s) + j
  <1>1. /\ Len(u) = Len(s) + Len(t) /\ Len(s) \in Nat /\ Len(t) \in Nat
        /\ \A i \in 1 .. Len(s) : u[i] = s[i]
        /\ \A i \in 1 .. Len(t) : u[Len(s) + i] = t[i]
    BY DEF IsJoint
  <1>2. ASSUME NEW i \in Marks(s) PROVE i \in Marks(u)
    <2>1. i \in 1 .. Len(s) - 1 /\ Transition(s[i], s[i + 1])
      BY MarksAre
    <2>2. i \in 1 .. Len(s) /\ i + 1 \in 1 .. Len(s) /\ i \in 1 .. Len(u) - 1
      BY <1>1, <2>1
    <2> QED
      BY <1>1, <2>1, <2>2, MarksAre
  <1>3. ASSUME NEW j \in Marks(t) PROVE Len(s) + j \in Marks(u)
    <2>1. j \in 1 .. Len(t) - 1 /\ Transition(t[j], t[j + 1])
      BY MarksAre
    <2>2. /\ j \in 1 .. Len(t) /\ j + 1 \in 1 .. Len(t) /\ Len(s) + j \in 1 .. Len(u) - 1
          /\ Len(s) + (j + 1) = Len(s) + j + 1
      BY <1>1, <2>1
    <2>3. PICK i \in 1 .. Len(u) - 1 : i = Len(s) + j
      BY <2>2
    <2>4. u[i] = t[j] /\ u[i + 1] = t[j + 1]
      BY <1>1, <2>2, <2>3
    <2>5. i \in Marks(u)
      BY <2>1, <2>4, MarksAre
    <2> QED
      BY <2>3, <2>5
  <1>4. ASSUME NEW i \in Nat, i \in Marks(u) PROVE i \in Marks(s) \/ \E j \in Marks(t) : i = Len(s) + j
    <2>1. i \in 1 .. Len(u) - 1 /\ Transition(u[i], u[i + 1])
      BY <1>4, MarksAre
    <2>2. CASE i < Len(s)
      <3>1. i \in 1 .. Len(s) /\ i + 1 \in 1 .. Len(s) /\ i \in 1 .. Len(s) - 1
        BY <1>1, <2>1, <2>2
      <3> QED
        BY <1>1, <2>1, <3>1, MarksAre
    <2>3. CASE i = Len(s)
      <3>1. i \in 1 .. Len(s) /\ 1 \in 1 .. Len(t) /\ i + 1 = Len(s) + 1
        BY <1>1, <2>1, <2>3
      <3>2. s # <<>> /\ t # <<>>
        BY <3>1
      <3>3. Transition(s[Len(s)], t[1])
        BY <1>1, <2>1, <2>3, <3>1
      <3> QED
        BY <3>2, <3>3 DEF Crosses
    <2>4. CASE i > Len(s)
      <3>1. PICK j \in 1 .. Len(t) - 1 : i = Len(s) + j
        <4>1. i - Len(s) \in 1 .. Len(t) - 1 /\ i = Len(s) + (i - Len(s))
          BY <1>1, <2>1, <2>4
        <4> QED
          BY <4>1
      <3>2. j \in 1 .. Len(t) /\ j + 1 \in 1 .. Len(t) /\ i + 1 = Len(s) + (j + 1)
        BY <1>1, <3>1
      <3>3. Transition(t[j], t[j + 1])
        BY <1>1, <2>1, <3>1, <3>2
      <3> QED
        BY <3>1, <3>3, MarksAre
    <2> QED
      BY <1>1, <2>1, <2>2, <2>3, <2>4
  <1> QED
    BY <1>2, <1>3, <1>4

LEMMA MarksInNat == ASSUME NEW t \in Seq(Piece) PROVE Marks(t) \in SUBSET Nat
  BY DEF Marks

\* The first marker is the first wherever it is looked for.
LEMMA FirstMark ==
    ASSUME NEW t \in Seq(Piece), NEW m \in Marks(t), \A i \in Marks(t) : m <= i
    PROVE  Min(Marks(t)) = m
  <1>1. Marks(t) \in SUBSET Nat /\ Marks(t) # {}
    BY MarksInNat
  <1>2. PICK n : n = Min(Marks(t))
    OBVIOUS
  <1>3. n \in Marks(t) /\ \A i \in Marks(t) : n <= i
    BY <1>1, <1>2, MinIsLeast
  <1>4. n \in Nat /\ m \in Nat /\ n <= m /\ m <= n
    BY <1>1, <1>3
  <1> QED
    BY <1>2, <1>4

LEMMA Moved ==
    ASSUME NEW x \in Nat, NEW y \in Nat, NEW n \in Nat, NEW d \in Nat, x + n = y
    PROVE  (x + d) + n = y + d
  OBVIOUS

\* A text with a marker goes on behind it.
LEMMA MarkStays ==
    ASSUME NEW s \in Seq(Piece), NEW t \in Seq(Piece), NEW u \in Seq(Piece), IsJoint(u, s, t),
           Marks(s) # {}
    PROVE  Marks(u) # {} /\ Before(u) = Before(s) /\ After(u) = LStrip(After(s) \o t)
  <1>1. /\ Len(u) = Len(s) + Len(t) /\ Len(s) \in Nat /\ Len(t) \in Nat
        /\ \A i \in 1 .. Len(s) : u[i] = s[i]
        /\ \A i \in 1 .. Len(t) : u[Len(s) + i] = t[i]
    BY DEF IsJoint
  <1>2. PICK m \in Marks(s) : m = Min(Marks(s)) /\ \A i \in Marks(s) : m <= i
    BY MarkCuts
  <1>3. m \in 1 .. Len(s) - 1 /\ Transition(s[m], s[m + 1])
    BY MarksAre
  <1>4. m \in Marks(u)
    <2>1. m \in 1 .. Len(s) /\ m + 1 \in 1 .. Len(s) /\ m \in 1 .. Len(u) - 1
      BY <1>1, <1>3
    <2> QED
      BY <1>1, <1>3, <2>1, MarksAre
  <1>5. ASSUME NEW i \in Marks(u) PROVE m <= i
    <2>1. i \in 1 .. Len(u) - 1 /\ Transition(u[i], u[i + 1])
      BY MarksAre
    <2>2. ASSUME i < m PROVE FALSE
      <3>1. i \in 1 .. Len(s) /\ i + 1 \in 1 .. Len(s) /\ i \in 1 .. Len(s) - 1
        BY <1>1, <1>3, <2>1, <2>2
      <3>2. i \in Marks(s)
        BY <1>1, <2>1, <3>1, MarksAre
      <3>3. m <= i
        BY <1>2, <3>2
      <3> QED
        BY <1>3, <2>1, <2>2, <3>3
    <2> QED
      BY <1>3, <2>1, <2>2
  <1>6. Min(Marks(u)) = m
    BY <1>4, <1>5, FirstMark
  <1>7. PICK n \in 0 .. Len(s) : n = m - 1
    <2>1. m - 1 \in 0 .. Len(s)
      BY <1>1, <1>3
    <2> QED
      BY <2>1
  <1>8. n \in 0 .. Len(u) /\ n + 1 = m
    BY <1>1, <1>3, <1>7
  <1>9. Before(u) = Before(s)
    <2>1. PICK a \in Seq(Piece) : a = SubSeq(u, 1, n) /\ IsFirst(a, u, n)
      BY <1>8, First
    <2>2. PICK b \in Seq(Piece) : b = SubSeq(s, 1, n) /\ IsFirst(b, s, n)
      BY First
    <2>3. \A i \in 1 .. n : i \in 1 .. Len(s)
      BY <1>1
    <2>4. \A i \in 1 .. Len(a) : a[i] = b[i]
      BY <1>1, <2>1, <2>2, <2>3 DEF IsFirst
    <2>5. a = b
      BY <2>1, <2>2, <2>4, SeqEqual DEF IsFirst
    <2> QED
      BY <1>2, <1>6, <1>7, <2>1, <2>2, <2>5 DEF Before
  <1>10. After(u) = LStrip(After(s) \o t)
    <2>1. PICK a \in Seq(Piece) : a = SubSeq(u, n + 1, Len(u)) /\ IsRest(a, u, n)
      BY <1>8, Rest
    <2>2. PICK b \in Seq(Piece) : b = SubSeq(s, n + 1, Len(s)) /\ IsRest(b, s, n)
      BY <1>7, Rest
    <2>3. PICK c \in Seq(Piece) : IsJoint(c, b, t)
      BY Joint
    <2>4. c = a
      <3>1. /\ Len(a) = Len(u) - n /\ Len(b) = Len(s) - n /\ Len(c) = Len(b) + Len(t)
            /\ \A i \in 1 .. Len(a) : a[i] = u[i + n]
            /\ \A i \in 1 .. Len(b) : b[i] = s[i + n]
            /\ \A i \in 1 .. Len(b) : c[i] = b[i]
            /\ \A i \in 1 .. Len(t) : c[Len(b) + i] = t[i]
        BY <2>1, <2>2, <2>3 DEF IsRest, IsJoint
      <3>2. Len(c) = Len(a) /\ Len(b) \in Nat
        <4>1. /\ Len(u) = Len(s) + Len(t) /\ Len(s) \in Nat /\ Len(t) \in Nat /\ Len(b) \in Nat
              /\ n \in 0 .. Len(s)
          BY <1>1
        <4>2. Len(a) = Len(u) - n /\ Len(b) = Len(s) - n /\ Len(c) = Len(b) + Len(t)
          BY <3>1
        <4> QED
          BY <4>1, <4>2, SMTT(30)
      <3>3. ASSUME NEW i \in 1 .. Len(c) PROVE c[i] = a[i]
        <4>1. CASE i <= Len(b)
          <5>1. i \in 1 .. Len(b) /\ i + n \in 1 .. Len(s) /\ i \in 1 .. Len(a)
            BY <1>1, <1>7, <3>1, <3>2, <4>1, SMTT(30)
          <5> QED
            BY <1>1, <3>1, <5>1
        <4>2. CASE ~(i <= Len(b))
          <5>1. PICK d \in 1 .. Len(t) : i = Len(b) + d
            <6>1. i - Len(b) \in 1 .. Len(t) /\ i = Len(b) + (i - Len(b))
              BY <1>1, <3>1, <3>2, <4>2
            <6> QED
              BY <6>1
          <5>2. i + n = Len(s) + d
            <6>1. Len(b) + n = Len(s)
              BY <1>1, <3>1
            <6>2. PICK x \in Nat, y \in Nat, j \in Nat : x = Len(b) /\ y = Len(s) /\ j = i
              BY <3>2
            <6>3. x + n = y /\ j = x + d /\ n \in Nat /\ d \in Nat
              BY <5>1, <6>1, <6>2
            <6>4. (x + d) + n = y + d
              BY <6>3, Moved
            <6>5. j + n = y + d
              BY <6>3, <6>4, Zenon
            <6> QED
              BY <6>2, <6>5
          <5>3. i \in 1 .. Len(a) /\ c[i] = t[d] /\ u[i + n] = t[d]
            BY <1>1, <3>1, <3>2, <5>1, <5>2
          <5> QED
            BY <3>1, <5>3
        <4> QED
          BY <4>1, <4>2
      <3> QED
        BY <3>2, <3>3, SeqEqual
    <2>5. After(u) = LStrip(a) /\ After(s) = LStrip(b)
      BY <1>2, <1>6, <1>8, <2>1, <2>2 DEF After
    <2>6. c = b \o t
      BY <2>3 DEF IsJoint
    <2>7. LStrip(b \o t) = LStrip(LStrip(b) \o t)
      BY LStripAbsorbs
    <2> QED
      BY <2>4, <2>5, <2>6, <2>7
  <1> QED
    BY <1>4, <1>9, <1>10

\* A text without a marker ends at the first marker of what follows, or not yet.
LEMMA MarkComes ==
    ASSUME NEW s \in Seq(Piece), NEW t \in Seq(Piece), NEW u \in Seq(Piece), IsJoint(u, s, t),
           Marks(s) = {}, ~Crosses(s, t)
    PROVE  /\ Marks(u) = {} <=> Marks(t) = {}
           /\ Marks(t) # {} => Before(u) = s \o Before(t) /\ After(u) = After(t)
  <1>1. /\ Len(u) = Len(s) + Len(t) /\ Len(s) \in Nat /\ Len(t) \in Nat
        /\ \A i \in 1 .. Len(s) : u[i] = s[i]
        /\ \A i \in 1 .. Len(t) : u[Len(s) + i] = t[i]
    BY DEF IsJoint
  <1>2. Marks(u) \in SUBSET Nat /\ Marks(t) \in SUBSET Nat
    BY MarksInNat
  <1>3. \A i \in Nat : i \in Marks(u) <=> \E j \in Marks(t) : i = Len(s) + j
    BY MarksJoint
  <1>4. Marks(u) = {} <=> Marks(t) = {}
    <2>1. ASSUME NEW j \in Marks(t) PROVE Len(s) + j \in Marks(u)
      <3>1. Len(s) + j \in Nat
        BY <1>1, <1>2
      <3> QED
        BY <1>3, <3>1
    <2>2. ASSUME NEW i \in Marks(u) PROVE Marks(t) # {}
      BY <1>2, <1>3
    <2> QED
      BY <2>1, <2>2
  <1>5. ASSUME Marks(t) # {} PROVE Before(u) = s \o Before(t) /\ After(u) = After(t)
    <2>1. PICK m \in Marks(t) : m = Min(Marks(t)) /\ \A i \in Marks(t) : m <= i
      BY <1>5, MarkCuts
    <2>2. m \in 1 .. Len(t) - 1
      BY MarksAre
    <2>3. PICK n \in 0 .. Len(t) : n = m - 1
      <3>1. m - 1 \in 0 .. Len(t)
        BY <1>1, <2>2
      <3> QED
        BY <3>1
    <2>4. PICK k \in 0 .. Len(u) : k = Len(s) + n
      <3>1. Len(s) + n \in 0 .. Len(u)
        BY <1>1
      <3> QED
        BY <3>1
    <2>5. k + 1 = Len(s) + m /\ n + 1 = m /\ Len(s) + m \in Nat
      BY <1>1, <2>2, <2>3, <2>4
    <2>6. Min(Marks(u)) = k + 1
      <3>1. k + 1 \in Marks(u)
        BY <1>3, <2>5
      <3>2. ASSUME NEW i \in Marks(u) PROVE k + 1 <= i
        <4>1. PICK j \in Marks(t) : i = Len(s) + j
          BY <1>2, <1>3
        <4>2. m <= j /\ j \in Nat /\ m \in Nat
          BY <1>2, <2>1
        <4> QED
          BY <1>1, <2>5, <4>1, <4>2
      <3> QED
        BY <3>1, <3>2, FirstMark
    <2>7. PICK a \in Seq(Piece) : a = SubSeq(u, 1, k) /\ IsFirst(a, u, k)
      BY First
    <2>8. PICK b \in Seq(Piece) : b = SubSeq(t, 1, n) /\ IsFirst(b, t, n)
      BY First
    <2>9. PICK c \in Seq(Piece) : IsJoint(c, s, b)
      BY Joint
    <2>10. c = a
      <3>1. /\ Len(c) = Len(s) + Len(b) /\ \A i \in 1 .. Len(s) : c[i] = s[i]
            /\ \A i \in 1 .. Len(b) : c[Len(s) + i] = b[i]
            /\ Len(a) = k /\ (\A i \in 1 .. k : a[i] = u[i])
            /\ Len(b) = n /\ (\A i \in 1 .. n : b[i] = t[i])
        BY <2>7, <2>8, <2>9 DEF IsJoint, IsFirst
      <3>2. ASSUME NEW i \in 1 .. Len(c) PROVE c[i] = a[i]
        <4>1. i \in 1 .. k
          BY <2>4, <3>1
        <4>2. CASE i <= Len(s)
          <5>1. i \in 1 .. Len(s)
            BY <1>1, <4>2
          <5> QED
            BY <1>1, <3>1, <4>1, <5>1
        <4>3. CASE ~(i <= Len(s))
          <5>1. PICK d \in 1 .. n : i = Len(s) + d
            <6>1. i - Len(s) \in 1 .. n /\ i = Len(s) + (i - Len(s))
              BY <1>1, <2>4, <4>1, <4>3
            <6> QED
              BY <6>1
          <5>2. d \in 1 .. Len(t) /\ d \in 1 .. Len(b)
            BY <1>1, <3>1
          <5>3. c[i] = b[d] /\ b[d] = t[d] /\ u[i] = t[d]
            BY <1>1, <3>1, <5>1, <5>2
          <5> QED
            BY <3>1, <4>1, <5>3
        <4> QED
          BY <4>2, <4>3
      <3>3. Len(c) = Len(a)
        BY <2>4, <3>1
      <3> QED
        BY <3>2, <3>3, SeqEqual
    <2>11. Before(u) = s \o Before(t)
      <3>1. Before(u) = a
        <4>1. k + 1 - 1 = k
          OBVIOUS
        <4> QED
          BY <2>6, <2>7, <4>1 DEF Before
      <3>2. Before(t) = b
        BY <2>1, <2>3, <2>8 DEF Before
      <3>3. c = s \o b
        BY <2>9 DEF IsJoint
      <3> QED
        BY <2>10, <3>1, <3>2, <3>3
    <2>12. PICK p \in Seq(Piece) : p = SubSeq(u, k + 1, Len(u)) /\ IsRest(p, u, k)
      BY Rest
    <2>13. PICK q \in Seq(Piece) : q = SubSeq(t, n + 1, Len(t)) /\ IsRest(q, t, n)
      BY Rest
    <2>14. p = q
      <3>1. /\ Len(p) = Len(u) - k /\ \A i \in 1 .. Len(p) : p[i] = u[i + k]
            /\ Len(q) = Len(t) - n /\ \A i \in 1 .. Len(q) : q[i] = t[i + n]
        BY <2>12, <2>13 DEF IsRest
      <3>2. Len(p) = Len(q)
        BY <1>1, <2>4, <3>1
      <3>3. ASSUME NEW i \in 1 .. Len(p) PROVE p[i] = q[i]
        <4>1. i + n \in 1 .. Len(t) /\ i + k = Len(s) + (i + n) /\ i \in 1 .. Len(q)
          BY <1>1, <2>4, <3>1, <3>2
        <4> QED
          BY <1>1, <3>1, <4>1
      <3> QED
        BY <3>2, <3>3, SeqEqual
    <2>15. After(u) = After(t)
      BY <2>1, <2>5, <2>6, <2>12, <2>13, <2>14 DEF After
    <2> QED
      BY <2>11, <2>15
  <1> QED
    BY <1>4, <1>5

-----------------------------------------------------------------------------
(* A streamed answer is split as the whole text is                         *)

reasoningOf == [c \in Choice |-> c.reasoning]

contentOf == [c \in Choice |-> IF c.content = None THEN <<>> ELSE c.content]

ReasonedOf(out) == FlatMap(reasoningOf, out)

AnsweredOf(out) == FlatMap(contentOf, out)

\* Two deltas that are joined say of it together what they said of it.
Additive(e) ==
    /\ e \in Each(Choice, Seq(Piece))
    /\ \A a, b \in Fragment : Joins(a, b) => e[Joined(a, b)] = e[a] \o e[b]

LEMMA BothAdditive == Additive(reasoningOf) /\ Additive(contentOf)
  <1>1. reasoningOf \in Each(Choice, Seq(Piece)) /\ contentOf \in Each(Choice, Seq(Piece))
    BY TextType DEF reasoningOf, contentOf, Each
  <1>2. ASSUME NEW a \in Fragment, NEW b \in Fragment, Joins(a, b)
        PROVE  /\ reasoningOf[Joined(a, b)] = reasoningOf[a] \o reasoningOf[b]
               /\ contentOf[Joined(a, b)] = contentOf[a] \o contentOf[b]
    <2>1. /\ a \in Choice /\ b \in Choice /\ Joined(a, b) \in Choice /\ Delta(a) /\ Delta(b)
      BY <1>2, JoinedSound DEF Fragment
    <2>2. PICK p \in Seq(Piece), q \in Seq(Piece) : p = a.reasoning /\ q = b.reasoning
      BY <2>1 DEF Choice
    <2>3. Joined(a, b).reasoning = p \o q
      BY <2>1, <2>2 DEF Joined, Choice
    <2>4. CASE a.content # None /\ b.content # None
      <3>1. PICK s \in Seq(Piece), t \in Seq(Piece) : s = a.content /\ t = b.content
        BY <2>1, <2>4 DEF Choice
      <3> DEFINE u == s \o t
      <3>2. Joined(a, b).content = u
        BY <2>1, <2>4, <3>1 DEF Joined, Choice
      <3>3. u \in Seq(Piece) /\ u # None
        <4>1. u \in Seq(Piece)
          OBVIOUS
        <4> QED
          BY <4>1, RewriterAssumption DEF RewriterAssumption
      <3> HIDE DEF u
      <3>4. contentOf[Joined(a, b)] = u
        BY <2>1, <3>2, <3>3 DEF contentOf
      <3>5. contentOf[a] = s /\ contentOf[b] = t
        BY <2>1, <2>4, <3>1 DEF contentOf
      <3> QED
        BY <2>1, <2>2, <2>3, <3>4, <3>5 DEF reasoningOf, u
    <2>5. CASE a.reasoning # <<>> /\ b.reasoning # <<>>
      <3>1. a.content = None /\ b.content = None
        BY <2>1, <2>5 DEF Delta
      <3>2. Joined(a, b).content = None
        BY <2>1, <3>1 DEF Joined, Choice
      <3>3. contentOf[Joined(a, b)] = <<>> /\ contentOf[a] = <<>> /\ contentOf[b] = <<>>
        BY <2>1, <3>1, <3>2 DEF contentOf
      <3>4. <<>> \o <<>> = <<>>
        OBVIOUS
      <3> QED
        BY <2>1, <2>2, <2>3, <3>3, <3>4 DEF reasoningOf
    <2> QED
      BY <1>2, <2>4, <2>5 DEF Joins
  <1> QED
    BY <1>1, <1>2 DEF Additive

LEMMA ReadAdds ==
    ASSUME NEW e, Additive(e), NEW g \in Seq(Fragment), NEW c \in Fragment
    PROVE  FlatMap(e, Read(g, c)) = FlatMap(e, g) \o e[c]
  <1>1. g \in Seq(Choice) /\ c \in Choice /\ e \in Each(Choice, Seq(Piece))
    BY Fragments DEF Fragment, Additive
  <1>2. CASE g # <<>> /\ Joins(Last(g), c)
    <2>1. PICK f \in Seq(Fragment), l \in Fragment :
             f = Front(g) /\ l = Last(g) /\ g = f \o <<l>>
      BY <1>2, FrontAndLast
    <2>2. f \in Seq(Choice) /\ l \in Choice
      BY Fragments DEF Fragment
    <2> DEFINE j == Joined(l, c)
    <2>3. j \in Fragment /\ j \in Choice /\ e[j] = e[l] \o e[c]
      BY <1>2, <2>1, JoinedSound DEF Fragment, Additive
    <2>4. Read(g, c) = Append(f, j)
      BY <1>2, <2>1 DEF Read
    <2> HIDE DEF j
    <2>5. Append(f, j) = f \o <<j>>
      BY <2>3
    <2>6. <<j>> \in Seq(Choice) /\ <<l>> \in Seq(Choice)
      BY <2>2, <2>3
    <2>7. FlatMap(e, f \o <<j>>) = FlatMap(e, f) \o e[j]
      <3>1. PICK s \in Seq(Choice) : s = <<j>>
        BY <2>6
      <3>2. FlatMap(e, f \o s) = FlatMap(e, f) \o FlatMap(e, s)
        BY <1>1, <2>2, FlatMapConcat
      <3>3. FlatMap(e, <<j>>) = e[j]
        BY <1>1, <2>3, FlatMapOne
      <3> QED
        BY <3>1, <3>2, <3>3
    <2>8. FlatMap(e, f \o <<l>>) = FlatMap(e, f) \o e[l]
      <3>1. PICK s \in Seq(Choice) : s = <<l>>
        BY <2>6
      <3>2. FlatMap(e, f \o s) = FlatMap(e, f) \o FlatMap(e, s)
        BY <1>1, <2>2, FlatMapConcat
      <3>3. FlatMap(e, <<l>>) = e[l]
        BY <1>1, <2>2, FlatMapOne
      <3> QED
        BY <3>1, <3>2, <3>3
    <2>9. FlatMap(e, f) \in Seq(Piece) /\ e[l] \in Seq(Piece) /\ e[c] \in Seq(Piece)
      <3>1. FlatMap(e, f) \in Seq(Piece)
        BY <1>1, <2>2, FlatMapType
      <3> QED
        BY <1>1, <2>2, <3>1 DEF Each
    <2>10. FlatMap(e, f) \o (e[l] \o e[c]) = (FlatMap(e, f) \o e[l]) \o e[c]
      <3>1. PICK x \in Seq(Piece), y \in Seq(Piece), z \in Seq(Piece) :
               x = FlatMap(e, f) /\ y = e[l] /\ z = e[c]
        BY <2>9, Zenon
      <3>2. (x \o y) \o z = x \o (y \o z)
        BY ConcatAssociative, SMTT(30)
      <3> QED
        BY <3>1, <3>2
    <2>11. FlatMap(e, Read(g, c)) = FlatMap(e, f) \o (e[l] \o e[c])
      BY ONLY <2>3, <2>4, <2>5, <2>7
    <2>12. FlatMap(e, g) = FlatMap(e, f) \o e[l]
      BY ONLY <2>1, <2>8
    <2> QED
      BY ONLY <2>10, <2>11, <2>12
  <1>3. CASE ~(g # <<>> /\ Joins(Last(g), c))
    <2>1. Read(g, c) = Append(g, c)
      BY <1>3 DEF Read
    <2>2. Append(g, c) = g \o <<c>> /\ <<c>> \in Seq(Choice)
      BY <1>1
    <2>3. PICK s \in Seq(Choice) : s = <<c>>
      BY <2>2
    <2>4. FlatMap(e, g \o s) = FlatMap(e, g) \o FlatMap(e, s)
      BY <1>1, FlatMapConcat
    <2>5. FlatMap(e, <<c>>) = e[c]
      BY <1>1, FlatMapOne
    <2> QED
      BY <2>1, <2>2, <2>3, <2>4, <2>5
  <1> QED
    BY <1>2, <1>3

\* What two choices say is said by one after the other, if there is another.
LEMMA ReadsAdd ==
    ASSUME NEW e, Additive(e), got \in Seq(Fragment), NEW out \in Seq(Fragment), Len(out) \in 0 .. 2
    PROVE  FlatMap(e, Reads(out)) = FlatMap(e, got) \o FlatMap(e, out)
  <1>1. got \in Seq(Choice) /\ e \in Each(Choice, Seq(Piece)) /\ FlatMap(e, got) \in Seq(Piece)
    BY Fragments, FlatMapType DEF Additive
  <1>2. CASE Len(out) = 0
    <2>1. out = <<>> /\ Reads(out) = got
      BY <1>2, ReadsIs, EmptySeq
    <2>2. FlatMap(e, got) \o <<>> = FlatMap(e, got)
      BY <1>1, ConcatEmptySeq
    <2> QED
      BY <2>1, <2>2, FlatMapEmpty
  <1>3. CASE Len(out) = 1
    <2>1. PICK x \in Fragment : x = out[1]
      <3>1. out[1] \in Fragment
        BY <1>3, ElementOfSeq
      <3> QED
        BY <3>1
    <2>2. out = <<x>> /\ Reads(out) = Read(got, x) /\ x \in Choice
      BY <1>3, <2>1, ReadsIs DEF Fragment
    <2>3. FlatMap(e, Read(got, x)) = FlatMap(e, got) \o e[x]
      BY ReadAdds
    <2>4. FlatMap(e, <<x>>) = e[x]
      BY <1>1, <2>2, FlatMapOne
    <2> QED
      BY <2>2, <2>3, <2>4
  <1>4. CASE Len(out) = 2
    <2>1. PICK x \in Fragment, y \in Fragment : x = out[1] /\ y = out[2]
      <3>1. out[1] \in Fragment
        BY <1>4, ElementOfSeq
      <3>2. out[2] \in Fragment
        <4>1. 2 \in 1 .. Len(out)
          BY <1>4
        <4> QED
          BY <4>1, ElementOfSeq
      <3> QED
        BY <3>1, <3>2
    <2>2. out = <<x, y>> /\ Reads(out) = Read(Read(got, x), y)
      BY <1>4, <2>1, ReadsIs
    <2>3. x \in Choice /\ y \in Choice
      BY DEF Fragment
    <2>4. PICK r \in Seq(Fragment) : r = Read(got, x)
      BY ReadSound
    <2>5. FlatMap(e, r) = FlatMap(e, got) \o e[x]
      BY <2>4, ReadAdds
    <2>6. FlatMap(e, Read(r, y)) = FlatMap(e, r) \o e[y]
      BY ReadAdds
    <2>7. FlatMap(e, <<x, y>>) = e[x] \o e[y]
      <3>1. PICK s \in Seq(Choice), t \in Seq(Choice) : s = <<x>> /\ t = <<y>>
        <4>1. <<x>> \in Seq(Choice) /\ <<y>> \in Seq(Choice)
          BY <2>3
        <4> QED
          BY <4>1
      <3>2. FlatMap(e, s \o t) = FlatMap(e, s) \o FlatMap(e, t)
        BY <1>1, FlatMapConcat
      <3>3. FlatMap(e, <<x>>) = e[x] /\ FlatMap(e, <<y>>) = e[y]
        BY <1>1, <2>3, FlatMapOne
      <3>4. <<x, y>> = <<x>> \o <<y>>
        BY Pair
      <3> QED
        BY <3>1, <3>2, <3>3, <3>4
    <2>8. (FlatMap(e, got) \o e[x]) \o e[y] = FlatMap(e, got) \o (e[x] \o e[y])
      <3>1. e[x] \in Seq(Piece) /\ e[y] \in Seq(Piece)
        BY <1>1, <2>3 DEF Each
      <3>2. PICK u \in Seq(Piece), v \in Seq(Piece), w \in Seq(Piece) :
               u = FlatMap(e, got) /\ v = e[x] /\ w = e[y]
        BY <1>1, <3>1, Zenon
      <3>3. (u \o v) \o w = u \o (v \o w)
        BY ConcatAssociative, SMTT(30)
      <3> QED
        BY <3>2, <3>3
    <2>9. FlatMap(e, Reads(out)) = (FlatMap(e, got) \o e[x]) \o e[y]
      BY ONLY <2>2, <2>4, <2>5, <2>6
    <2>10. FlatMap(e, out) = e[x] \o e[y]
      BY ONLY <2>2, <2>7
    <2> QED
      BY ONLY <2>8, <2>9, <2>10
  <1> QED
    BY <1>2, <1>3, <1>4

\* The reasoning and the answer the client has, as Reasoned and Answered have them.
LEMMA ReasonedIs ==
    ASSUME NEW g \in Seq(Choice)
    PROVE  /\ FlattenSeq([i \in DOMAIN g |-> g[i].reasoning]) = ReasonedOf(g)
           /\ FlattenSeq([i \in DOMAIN g |-> IF g[i].content = None THEN <<>> ELSE g[i].content])
                = AnsweredOf(g)
  <1>1. \A i \in DOMAIN g : g[i] \in Choice
    OBVIOUS
  <1>2. [i \in DOMAIN g |-> g[i].reasoning] = Map(reasoningOf, g)
    BY <1>1 DEF Map, reasoningOf
  <1>3. [i \in DOMAIN g |-> IF g[i].content = None THEN <<>> ELSE g[i].content] = Map(contentOf, g)
    BY <1>1 DEF Map, contentOf
  <1> QED
    BY <1>2, <1>3 DEF ReasonedOf, AnsweredOf, FlatMap

\* The prefix of a text stays what it is, and what is behind it grows with the text.
LEMMA PrefixStays ==
    ASSUME NEW b \in Seq(Piece), NEW t \in Seq(Piece), NEW u \in Seq(Piece), IsJoint(u, b, t),
           Len(b) >= 2
    PROVE  /\ HasPrefix(u) <=> HasPrefix(b)
           /\ HasPrefix(b) => AfterPrefix(u) = LStrip(AfterPrefix(b) \o t)
  <1>1. /\ Len(u) = Len(b) + Len(t) /\ Len(b) \in Nat /\ Len(t) \in Nat
        /\ \A i \in 1 .. Len(b) : u[i] = b[i]
        /\ \A i \in 1 .. Len(t) : u[Len(b) + i] = t[i]
    BY DEF IsJoint
  <1>2. ASSUME NEW v \in Seq(Piece), Len(v) >= 2 PROVE HasPrefix(v) <=> v[1] = "prefix"
    <2>1. PICK p \in Seq(Piece) : p = <<"prefix">> /\ Len(p) = 1 /\ p[1] = "prefix"
      <3>1. "prefix" \in Piece
        BY DEF Piece
      <3> QED
        BY <3>1, OneElement
    <2>2. IsPrefix(p, v) <=> Len(p) <= Len(v) /\ \A i \in 1 .. Len(p) : p[i] = v[i]
      BY PrefixIs
    <2>3. (\A i \in 1 .. Len(p) : p[i] = v[i]) <=> v[1] = "prefix"
      BY <2>1
    <2> QED
      BY <1>2, <2>1, <2>2, <2>3 DEF HasPrefix
  <1>3. Len(u) >= 2 /\ Len(u) \in Nat /\ u[1] = b[1]
    <2>1. 1 \in 1 .. Len(b) /\ Len(u) >= 2 /\ Len(u) \in Nat
      BY <1>1
    <2> QED
      BY <1>1, <2>1
  <1>4. HasPrefix(u) <=> HasPrefix(b)
    BY <1>2, <1>3
  <1>5. AfterPrefix(u) = LStrip(AfterPrefix(b) \o t)
    <2>1. PICK v \in Seq(Piece) : v = SubSeq(b, 1 + 1, Len(b)) /\ IsRest(v, b, 1)
      <3>1. 1 \in 0 .. Len(b)
        BY <1>1
      <3> QED
        BY <3>1, Rest
    <2>2. PICK w \in Seq(Piece) : w = SubSeq(u, 1 + 1, Len(u)) /\ IsRest(w, u, 1)
      <3>1. 1 \in 0 .. Len(u)
        BY <1>3
      <3> QED
        BY <3>1, Rest
    <2>3. Tail(b) = v /\ Tail(u) = w
      <3>1. Tail(b) = SubSeq(b, 2, Len(b)) /\ Tail(u) = SubSeq(u, 2, Len(u)) /\ 1 + 1 = 2
        <4>1. b # <<>> /\ u # <<>>
          BY <1>1, <1>3
        <4> QED
          BY <4>1
      <3> QED
        BY <2>1, <2>2, <3>1
    <2>4. PICK c \in Seq(Piece) : IsJoint(c, v, t)
      BY Joint
    <2>5. c = w
      <3>1. /\ Len(v) = Len(b) - 1 /\ Len(w) = Len(u) - 1 /\ Len(c) = Len(v) + Len(t)
            /\ \A i \in 1 .. Len(v) : v[i] = b[i + 1]
            /\ \A i \in 1 .. Len(w) : w[i] = u[i + 1]
            /\ \A i \in 1 .. Len(v) : c[i] = v[i]
            /\ \A i \in 1 .. Len(t) : c[Len(v) + i] = t[i]
        BY <2>1, <2>2, <2>4 DEF IsRest, IsJoint
      <3>2. Len(c) = Len(w) /\ Len(v) \in Nat
        BY <1>1, <3>1
      <3>3. ASSUME NEW i \in 1 .. Len(c) PROVE c[i] = w[i]
        <4>1. CASE i <= Len(v)
          <5>1. i \in 1 .. Len(v) /\ i + 1 \in 1 .. Len(b) /\ i \in 1 .. Len(w)
            BY <1>1, <3>1, <3>2, <4>1
          <5> QED
            BY <1>1, <3>1, <5>1
        <4>2. CASE ~(i <= Len(v))
          <5>1. PICK d \in 1 .. Len(t) : i = Len(v) + d
            <6>1. i - Len(v) \in 1 .. Len(t) /\ i = Len(v) + (i - Len(v))
              BY <1>1, <3>1, <3>2, <4>2
            <6> QED
              BY <6>1
          <5>2. i \in 1 .. Len(w) /\ c[i] = t[d]
            BY <3>1, <3>2, <5>1
          <5>3. PICK n \in Nat : n = i + 1
            OBVIOUS
          <5>4. n = Len(b) + d
            BY <1>1, <3>1, <3>2, <5>1, <5>3
          <5>5. u[n] = t[d] /\ w[i] = u[n]
            BY <1>1, <3>1, <5>2, <5>3, <5>4
          <5> QED
            BY <5>2, <5>5
        <4> QED
          BY <4>1, <4>2
      <3> QED
        BY <3>2, <3>3, SeqEqual
    <2>6. c = v \o t
      BY <2>4 DEF IsJoint
    <2>7. LStrip(v \o t) = LStrip(LStrip(v) \o t)
      BY LStripAbsorbs
    <2> QED
      BY <2>3, <2>5, <2>6, <2>7 DEF AfterPrefix
  <1> QED
    BY <1>4, <1>5

\* Where the text behind the prefix ends.
LEMMA BodyEnds ==
    ASSUME NEW b \in Seq(Piece), Len(b) >= 2
    PROVE  /\ AfterPrefix(b) \in Seq(Piece)
           /\ AfterPrefix(b) = <<>> \/ AfterPrefix(b)[1] # "nl"
           /\ AfterPrefix(b) = <<>> => b[Len(b)] = "nl"
           /\ AfterPrefix(b) # <<>> => AfterPrefix(b)[Len(AfterPrefix(b))] = b[Len(b)]
  <1>1. Len(b) \in Nat /\ b # <<>>
    OBVIOUS
  <1>2. PICK v \in Seq(Piece) : v = SubSeq(b, 1 + 1, Len(b)) /\ IsRest(v, b, 1)
    <2>1. 1 \in 0 .. Len(b)
      BY <1>1
    <2> QED
      BY <2>1, Rest
  <1>3. Tail(b) = v
    <2>1. Tail(b) = SubSeq(b, 2, Len(b)) /\ 1 + 1 = 2
      BY <1>1
    <2> QED
      BY <1>2, <2>1
  <1>4. Len(v) = Len(b) - 1 /\ \A i \in 1 .. Len(v) : v[i] = b[i + 1]
    BY <1>2 DEF IsRest
  <1>5. PICK k \in 0 .. Len(v) :
           /\ LStrip(v) = SubSeq(v, k + 1, Len(v))
           /\ \A i \in 1 .. k : v[i] = "nl"
    BY LStripCuts
  <1>6. PICK w \in Seq(Piece) : w = SubSeq(v, k + 1, Len(v)) /\ IsRest(w, v, k)
    BY Rest
  <1>7. AfterPrefix(b) = w
    BY <1>3, <1>5, <1>6 DEF AfterPrefix
  <1>8. Len(w) = Len(v) - k /\ \A i \in 1 .. Len(w) : w[i] = v[i + k]
    BY <1>6 DEF IsRest
  <1>9. w = <<>> \/ w[1] # "nl"
    BY <1>5, <1>6, LStripAbsorbs
  <1>10. v[Len(v)] = b[Len(b)]
    <2>1. Len(v) \in 1 .. Len(v) /\ Len(v) + 1 = Len(b)
      BY <1>1, <1>4
    <2> QED
      BY <1>4, <2>1
  <1>11. ASSUME w = <<>> PROVE b[Len(b)] = "nl"
    <2>1. Len(w) = 0
      BY <1>11
    <2>2. Len(v) \in 1 .. k
      BY <1>1, <1>4, <1>8, <2>1
    <2> QED
      BY <1>5, <1>10, <2>2
  <1>12. ASSUME w # <<>> PROVE w[Len(w)] = b[Len(b)]
    <2>1. Len(w) \in Nat /\ Len(w) # 0
      BY <1>12, EmptySeq
    <2>2. Len(w) \in 1 .. Len(w) /\ Len(w) + k = Len(v)
      BY <1>1, <1>4, <1>8, <2>1
    <2> QED
      BY <1>8, <1>10, <2>2
  <1> QED
    BY <1>7, <1>9, <1>11, <1>12

\* The text behind the prefix goes on with the text, unless a marker is cut.
LEMMA BodyGrows ==
    ASSUME NEW b \in Seq(Piece), NEW t \in Seq(Piece), NEW u \in Seq(Piece), IsJoint(u, b, t),
           Len(b) >= 2, HasPrefix(b), ~Crosses(b, t)
    PROVE  IsJoint(AfterPrefix(u), AfterPrefix(b), t) /\ ~Crosses(AfterPrefix(b), t)
  <1>1. PICK v \in Seq(Piece) : v = AfterPrefix(b)
    BY BodyEnds
  <1>2. PICK c \in Seq(Piece) : IsJoint(c, v, t)
    BY Joint
  <1>3. c = v \o t
    BY <1>2 DEF IsJoint
  <1>4. AfterPrefix(u) = LStrip(c)
    BY <1>1, <1>3, PrefixStays
  <1>5. CASE v = <<>>
    <2>1. b[Len(b)] = "nl" /\ b # <<>>
      <3>1. AfterPrefix(b) = <<>> => b[Len(b)] = "nl"
        BY BodyEnds
      <3>2. b # <<>>
        OBVIOUS
      <3> QED
        BY <1>1, <1>5, <3>1, <3>2
    <2>2. c = t
      BY <1>3, <1>5, ConcatEmptySeq
    <2>3. t = <<>> \/ t[1] # "nl"
      BY <2>1 DEF Crosses, Transition
    <2>4. LStrip(c) = c
      BY <2>2, <2>3, LStripSolid
    <2> QED
      BY <1>1, <1>2, <1>4, <1>5, <2>4 DEF Crosses
  <1>6. CASE v # <<>>
    <2>1. v[1] # "nl" /\ v[Len(v)] = b[Len(b)] /\ b # <<>>
      BY <1>1, <1>6, BodyEnds
    <2>2. c[1] = v[1]
      <3>1. Len(v) \in Nat /\ Len(v) # 0
        BY <1>6, EmptySeq
      <3>2. 1 \in 1 .. Len(v)
        BY <3>1
      <3> QED
        BY <1>2, <3>2 DEF IsJoint
    <2>3. LStrip(c) = c
      BY <2>1, <2>2, LStripSolid
    <2> QED
      BY <1>1, <1>2, <1>4, <2>1, <2>3 DEF Crosses
  <1> QED
    BY <1>5, <1>6

\* As split_thinking_prefix divides the text b: r of it is reasoning and a answer;
\* s is
\* still in the reasoning while no transition marker has come.
Divided(b, r, a, s) ==
    LET body == AfterPrefix(b)
    IN  \/ ~HasPrefix(b) /\ ~s.in_reasoning /\ r = <<>> /\ a = b
        \/ HasPrefix(b) /\ s.in_reasoning /\ Marks(body) = {} /\ r = body /\ a = <<>>
        \/ /\ HasPrefix(b) /\ ~s.in_reasoning /\ Marks(body) # {}
           /\ Strip(r) = Strip(Before(body)) /\ LStrip(a) = After(body)

LEMMA DividedAsWhole ==
    ASSUME NEW b \in Seq(Piece), NEW r \in Seq(Piece), NEW a \in Seq(Piece), NEW s,
           Divided(b, r, a, s)
    PROVE  /\ Strip(r) = SplitThinkingPrefix(b)[1]
           /\ Strip(a) = Strip(SplitThinkingPrefix(b)[2])
  <1> DEFINE body == AfterPrefix(b)
  <1>1. Strip(<<>>) = <<>>
    <2>1. LStrip(<<>>) = <<>>
      <3>1. {i \in DOMAIN <<>> : <<>>[i] # "nl"} = {}
        OBVIOUS
      <3> QED
        BY <3>1 DEF LStrip
    <2>2. Reverse(<<>>) = <<>>
      BY DEF Reverse
    <2> QED
      BY <2>1, <2>2 DEF Strip
  <1>2. CASE ~HasPrefix(b)
    <2>1. SplitThinkingPrefix(b) = <<<<>>, b>> /\ r = <<>> /\ a = b
      BY <1>2 DEF Divided, SplitThinkingPrefix
    <2> QED
      BY <1>1, <2>1
  <1>3. CASE HasPrefix(b) /\ Marks(body) = {}
    <2>1. SplitThinkingPrefix(b) = <<Strip(body), <<>>>> /\ r = body /\ a = <<>>
      BY <1>3 DEF Divided, SplitThinkingPrefix
    <2> QED
      BY <2>1
  <1>4. CASE HasPrefix(b) /\ Marks(body) # {}
    <2>1. /\ SplitThinkingPrefix(b) = <<Strip(Before(body)), After(body)>>
          /\ Strip(r) = Strip(Before(body)) /\ LStrip(a) = After(body)
      BY <1>4 DEF Divided, SplitThinkingPrefix
    <2>2. Strip(LStrip(a)) = Strip(a)
      BY StripTwice
    <2> QED
      BY <2>1, <2>2
  <1> QED
    BY <1>2, <1>3, <1>4

\* What of a delta t goes to the reasoning and what to the answer; s2 is s after it.
Shares(s, s2, t, x, y) ==
    /\ s2.in_reasoning <=> s.in_reasoning /\ Marks(t) = {}
    /\ \/ ~s.in_reasoning /\ x = <<>> /\ y = t
       \/ s.in_reasoning /\ Marks(t) = {} /\ x = t /\ y = <<>>
       \/ s.in_reasoning /\ Marks(t) # {} /\ x = Before(t) /\ y = After(t)

\* u is b and then t, which cut no marker between them.
Continues(u, b, t) == IsJoint(u, b, t) /\ Len(b) >= 2 /\ ~Crosses(b, t)

\* A text that goes on is divided delta by delta.
LEMMA DividedGrows ==
    ASSUME NEW b \in Seq(Piece), NEW t \in Seq(Piece), NEW u \in Seq(Piece), Continues(u, b, t),
           NEW r \in Seq(Piece), NEW a \in Seq(Piece), NEW s, NEW s2, Divided(b, r, a, s),
           NEW x \in Seq(Piece), NEW y \in Seq(Piece), Shares(s, s2, t, x, y),
           NEW r2 \in Seq(Piece), IsJoint(r2, r, x), NEW a2 \in Seq(Piece), IsJoint(a2, a, y)
    PROVE  Divided(u, r2, a2, s2)
  <1>1. r2 = r \o x /\ a2 = a \o y
    BY DEF IsJoint
  <1>2. IsJoint(u, b, t) /\ Len(b) >= 2 /\ ~Crosses(b, t)
    BY DEF Continues
  <1>3. s2.in_reasoning <=> s.in_reasoning /\ Marks(t) = {}
    BY DEF Shares
  <1>4. PICK body \in Seq(Piece) : body = AfterPrefix(b)
    BY <1>2, BodyEnds
  <1>5. u = b \o t /\ (HasPrefix(u) <=> HasPrefix(b))
    BY <1>2, PrefixStays DEF IsJoint
  <1>6. CASE ~HasPrefix(b)
    <2>1. ~s.in_reasoning /\ r = <<>> /\ a = b /\ x = <<>> /\ y = t
      BY <1>6 DEF Divided, Shares
    <2>2. r2 = <<>>
      BY <1>1, <2>1, ConcatEmptySeq
    <2> QED
      BY <1>1, <1>5, <1>6, <1>3, <2>1, <2>2 DEF Divided
  <1>7. ASSUME HasPrefix(b) PROVE Divided(u, r2, a2, s2)
    <2>1. IsJoint(AfterPrefix(u), body, t) /\ ~Crosses(body, t)
      BY <1>4, <1>7, <1>2, BodyGrows
    <2>2. PICK c \in Seq(Piece) : c = AfterPrefix(u) /\ IsJoint(c, body, t) /\ ~Crosses(body, t)
      <3>1. Len(u) \in Nat /\ Len(u) >= 2
        <4>1. Len(u) = Len(b) + Len(t) /\ Len(b) \in Nat /\ Len(t) \in Nat
          BY <1>2 DEF IsJoint
        <4> QED
          BY <1>2, <4>1
      <3>2. AfterPrefix(u) \in Seq(Piece)
        BY <3>1, BodyEnds
      <3> QED
        BY <2>1, <3>2
    <2>3. c = body \o t
      BY <2>2 DEF IsJoint
    <2>4. CASE s.in_reasoning /\ Marks(t) = {}
      <3>1. Marks(body) = {} /\ r = body /\ a = <<>> /\ x = t /\ y = <<>>
        BY <1>4, <1>7, <2>4 DEF Divided, Shares
      <3>2. Marks(c) = {}
        BY <2>2, <2>4, <3>1, MarkComes
      <3>3. r2 = c /\ a2 = <<>>
        BY <1>1, <2>3, <3>1, ConcatEmptySeq
      <3> QED
        BY <1>5, <1>7, <1>3, <2>2, <2>4, <3>2, <3>3 DEF Divided
    <2>5. CASE s.in_reasoning /\ Marks(t) # {}
      <3>1. Marks(body) = {} /\ r = body /\ a = <<>> /\ x = Before(t) /\ y = After(t)
        BY <1>4, <1>7, <2>5 DEF Divided, Shares
      <3>2. Marks(c) # {} /\ Before(c) = body \o Before(t) /\ After(c) = After(t)
        <4>1. body \in Seq(Piece) /\ t \in Seq(Piece) /\ c \in Seq(Piece)
          OBVIOUS
        <4> QED
          BY ONLY <2>2, <2>5, <3>1, <4>1, MarkComes
      <3>3. r2 = Before(c)
        BY <1>1, <3>1, <3>2
      <3>4. a2 = After(c)
        BY <1>1, <3>1, <3>2, ConcatEmptySeq
      <3>5. LStrip(After(c)) = After(c)
        <4>1. SubSeq(c, Min(Marks(c)), Len(c)) \in Seq(Piece)
          BY <3>2, MarkCuts
        <4> QED
          BY <4>1, LStripAbsorbs DEF After
      <3> QED
        BY <1>5, <1>7, <1>3, <2>2, <2>5, <3>2, <3>3, <3>4, <3>5 DEF Divided
    <2>6. CASE ~s.in_reasoning
      <3>1. /\ Marks(body) # {} /\ Strip(r) = Strip(Before(body)) /\ LStrip(a) = After(body)
            /\ x = <<>> /\ y = t
        BY <1>4, <1>7, <2>6 DEF Divided, Shares
      <3>2. Marks(c) # {} /\ Before(c) = Before(body) /\ After(c) = LStrip(After(body) \o t)
        BY <2>2, <3>1, MarkStays
      <3>3. r2 = r
        BY <1>1, <3>1, ConcatEmptySeq
      <3>4. LStrip(a2) = LStrip(LStrip(a) \o t)
        BY <1>1, <3>1, LStripAbsorbs
      <3> QED
        BY <1>5, <1>7, <1>3, <2>2, <2>6, <3>1, <3>2, <3>3, <3>4 DEF Divided
    <2> QED
      BY <2>4, <2>5, <2>6
  <1> QED
    BY <1>6, <1>7

\* The reasoning and the answer in what is forwarded.
Says(out, x, y) == ReasonedOf(out) = x /\ AnsweredOf(out) = y

LEMMA OneSays ==
    ASSUME NEW c \in Choice
    PROVE  Says(<<c>>, c.reasoning, IF c.content = None THEN <<>> ELSE c.content)
  <1>1. /\ reasoningOf \in Each(Choice, Seq(Piece)) /\ contentOf \in Each(Choice, Seq(Piece))
    BY BothAdditive DEF Additive
  <1>2. FlatMap(reasoningOf, <<c>>) = reasoningOf[c] /\ FlatMap(contentOf, <<c>>) = contentOf[c]
    BY <1>1, FlatMapOne
  <1> QED
    BY <1>2 DEF Says, ReasonedOf, AnsweredOf, reasoningOf, contentOf

LEMMA NothingSays == Says(<<>>, <<>>, <<>>)
  BY FlatMapEmpty DEF Says, ReasonedOf, AnsweredOf

LEMMA DeltaSays ==
    ASSUME NEW t \in Seq(Piece), NEW f \in Finish
    PROVE  Says(<<Content(t, f)>>, <<>>, t) /\ Says(<<Reasoning(t, f)>>, t, <<>>)
  <1>1. PICK c \in Choice : /\ c = Content(t, f) /\ c.reasoning = <<>> /\ c.content = t /\ t # None
    BY ContentChoice DEF Plain, Delta
  <1>2. PICK d \in Choice : /\ d = Reasoning(t, f) /\ d.reasoning = t /\ d.content = None
    BY ReasoningChoice DEF Plain, Delta
  <1>3. Says(<<c>>, <<>>, t)
    BY <1>1, OneSays
  <1>4. Says(<<d>>, t, <<>>)
    BY <1>2, OneSays
  <1> QED
    BY <1>1, <1>2, <1>3, <1>4

LEMMA UnlessSays ==
    ASSUME NEW c \in Choice, NEW x \in Seq(Piece), NEW y \in Seq(Piece), Says(<<c>>, x, y)
    PROVE  /\ y = <<>> => \E s \in Seq(Choice) : s = Unless(x = <<>>, c) /\ Says(s, x, y)
           /\ x = <<>> => \E s \in Seq(Choice) : s = Unless(y = <<>>, c) /\ Says(s, x, y)
  <1>1. PICK one \in Seq(Choice) : one = <<c>>
    <2>1. <<c>> \in Seq(Choice)
      BY OneElement
    <2> QED
      BY <2>1
  <1>2. PICK none \in Seq(Choice) : none = <<>>
    <2>1. <<>> \in Seq(Choice)
      OBVIOUS
    <2> QED
      BY <2>1
  <1>3. Says(one, x, y) /\ Unless(TRUE, c) = none /\ Unless(FALSE, c) = one
    BY <1>1, <1>2 DEF Unless
  <1>4. Says(none, <<>>, <<>>)
    BY <1>2, NothingSays
  <1>5. ASSUME NEW e \in BOOLEAN, e => x = <<>> /\ y = <<>>
        PROVE  \E s \in Seq(Choice) : s = Unless(e, c) /\ Says(s, x, y)
    <2>1. CASE e
      BY <1>2, <1>4, <1>5, <2>1 DEF Unless
    <2>2. CASE ~e
      BY <1>1, <1>3, <2>2 DEF Unless
    <2> QED
      BY <2>1, <2>2
  <1> QED
    BY <1>5

LEMMA BothSay ==
    ASSUME NEW x \in Seq(Piece), NEW y \in Seq(Piece), NEW f \in Finish
    PROVE  Says(Unless(x = <<>>, Reasoning(x, "none")) \o Unless(y = <<>>, Content(y, f)), x, y)
  <1>1. PICK c \in Choice, d \in Choice : c = Reasoning(x, "none") /\ d = Content(y, f)
    BY ReasoningChoice, ContentChoice DEF Plain, Delta, Finish
  <1>2. Says(<<c>>, x, <<>>) /\ Says(<<d>>, <<>>, y)
    BY <1>1, DeltaSays DEF Finish
  <1>3. PICK s \in Seq(Choice) : s = Unless(x = <<>>, c) /\ Says(s, x, <<>>)
    <2>1. <<>> \in Seq(Piece)
      OBVIOUS
    <2> QED
      BY <1>2, <2>1, UnlessSays, Zenon
  <1>4. PICK t \in Seq(Choice) : t = Unless(y = <<>>, d) /\ Says(t, <<>>, y)
    <2>1. <<>> \in Seq(Piece)
      OBVIOUS
    <2> QED
      BY <1>2, <2>1, UnlessSays, Zenon
  <1>5. /\ reasoningOf \in Each(Choice, Seq(Piece)) /\ contentOf \in Each(Choice, Seq(Piece))
    BY BothAdditive DEF Additive
  <1>6. /\ FlatMap(reasoningOf, s \o t) = FlatMap(reasoningOf, s) \o FlatMap(reasoningOf, t)
        /\ FlatMap(contentOf, s \o t) = FlatMap(contentOf, s) \o FlatMap(contentOf, t)
    BY <1>5, FlatMapConcat, SMTT(30)
  <1>7. x \o <<>> = x /\ <<>> \o y = y
    BY ConcatEmptySeq
  <1>8. Says(s \o t, x, y)
    <2>1. /\ FlatMap(reasoningOf, s) = x /\ FlatMap(reasoningOf, t) = <<>>
          /\ FlatMap(contentOf, s) = <<>> /\ FlatMap(contentOf, t) = y
      BY <1>3, <1>4 DEF Says, ReasonedOf, AnsweredOf
    <2>2. FlatMap(reasoningOf, s \o t) = x \o <<>> /\ FlatMap(contentOf, s \o t) = <<>> \o y
      BY ONLY <1>6, <2>1
    <2> QED
      BY <1>7, <2>2 DEF Says, ReasonedOf, AnsweredOf
  <1> QED
    BY <1>1, <1>3, <1>4, <1>8

\* The stage holds the text b while it has not decided, and has divided it after.
Divides(s, b, r, a) ==
    /\ ~s.decided => s.buffer = b /\ r = <<>> /\ a = <<>>
    /\ s.decided => Divided(b, r, a, s)

\* With what q forwards, the reasoning r and the answer a become a division of b.
Extends(q, b, r, a) ==
    \E x, y \in Seq(Piece) :
        /\ Says(q.out, x, y)
        /\ \A r2, a2 \in Seq(Piece) : r2 = r \o x /\ a2 = a \o y => Divides(q.state, b, r2, a2)

LEMMA DecideDivides ==
    ASSUME NEW s \in SplitStates, ~s.in_reasoning, NEW f \in Finish, NEW b \in Seq(Piece)
    PROVE  Decide(s, b, f).state.decided /\ Extends(Decide(s, b, f), b, <<>>, <<>>)
  <1> DEFINE q == Decide(s, b, f)
             body == AfterPrefix(b)
             decided == [Emptied(s) EXCEPT !.decided = TRUE]
             reasoning == [decided EXCEPT !.in_reasoning = TRUE]
  <1>1. /\ decided.decided /\ ~decided.in_reasoning
        /\ reasoning.decided /\ reasoning.in_reasoning
    BY DEF Emptied, SplitStates
  <1>2. ASSUME q.state.decided, NEW x \in Seq(Piece), NEW y \in Seq(Piece), Says(q.out, x, y),
               Divided(b, x, y, q.state)
        PROVE  Extends(q, b, <<>>, <<>>)
    <2>1. ASSUME NEW r2 \in Seq(Piece), NEW a2 \in Seq(Piece), r2 = <<>> \o x, a2 = <<>> \o y
          PROVE  Divides(q.state, b, r2, a2)
      <3>1. r2 = x /\ a2 = y
        BY <2>1, ConcatEmptySeq
      <3> QED
        BY <1>2, <3>1 DEF Divides
    <2> HIDE DEF q
    <2> QED
      BY <1>2, <2>1 DEF Extends
  <1> HIDE DEF q, body, decided, reasoning
  <1>3. CASE ~HasPrefix(b)
    <2>1. q.state = decided /\ q.out = <<Content(b, f)>>
      BY <1>3 DEF Decide, Forwards, q, decided
    <2>2. Says(q.out, <<>>, b)
      BY <2>1, DeltaSays
    <2>4. <<>> \in Seq(Piece)
      OBVIOUS
    <2>3. Divided(b, <<>>, b, q.state)
      BY <1>1, <1>3, <2>1 DEF Divided
    <2> QED
      BY <1>1, <1>2, <2>1, <2>2, <2>3, <2>4 DEF q
  <1>4. CASE HasPrefix(b) /\ Marks(body) = {}
    <2>1. q.state = reasoning /\ q.out = IF body = <<>> THEN <<>> ELSE <<Reasoning(body, "none")>>
      BY <1>4 DEF Decide, Forwards, Unless, q, body, decided, reasoning
    <2>2. body \in Seq(Piece) /\ <<>> \in Seq(Piece)
      BY <1>4, PrefixKeepsWords DEF body
    <2>3. Says(<<Reasoning(body, "none")>>, body, <<>>)
      BY <2>2, DeltaSays DEF Finish
    <2>4. Says(q.out, body, <<>>)
      BY <2>1, <2>3, NothingSays
    <2>5. Divided(b, body, <<>>, q.state)
      BY <1>1, <1>4, <2>1 DEF Divided, body
    <2> QED
      BY <1>1, <1>2, <2>1, <2>2, <2>4, <2>5 DEF q
  <1>5. CASE HasPrefix(b) /\ Marks(body) # {}
    <2>1. PICK x \in Seq(Piece), y \in Seq(Piece) :
             x = Strip(Before(body)) /\ y = After(body) /\ Strip(x) = x /\ LStrip(y) = y
      <3>1. body \in Seq(Piece)
        BY <1>5, PrefixKeepsWords DEF body
      <3>2. Before(body) \in Seq(Piece) /\ SubSeq(body, Min(Marks(body)), Len(body)) \in Seq(Piece)
        BY <1>5, <3>1, MarkCuts
      <3>3. Strip(Before(body)) \in Seq(Piece) /\ Strip(Strip(Before(body))) = Strip(Before(body))
        BY <3>2, StripTwice
      <3>4. After(body) \in Seq(Piece) /\ LStrip(After(body)) = After(body)
        BY <3>2, LStripAbsorbs DEF After
      <3> QED
        BY <3>3, <3>4
    <2>2. /\ q.state = decided
          /\ q.out = Unless(x = <<>>, Reasoning(x, "none")) \o Unless(y = <<>>, Content(y, f))
      BY <1>5, <2>1 DEF Decide, Forwards, q, body, decided
    <2>3. Says(q.out, x, y)
      BY <2>2, BothSay
    <2>4. Divided(b, x, y, q.state)
      BY <1>1, <1>5, <2>1, <2>2 DEF Divided, body
    <2> QED
      BY <1>1, <1>2, <2>2, <2>3, <2>4 DEF q
  <1> QED
    BY <1>3, <1>4, <1>5

LEMMA RouteDivides ==
    ASSUME NEW s \in SplitStates, s.decided, NEW t \in Seq(Piece), NEW f \in Finish,
           NEW b \in Seq(Piece), NEW u \in Seq(Piece), Continues(u, b, t),
           NEW r \in Seq(Piece), NEW a \in Seq(Piece), Divided(b, r, a, s)
    PROVE  Extends(Route(s, t, f), u, r, a)
  <1> DEFINE q == Route(s, t, f)
             after == [s EXCEPT !.in_reasoning = FALSE]
  <1>1. s.in_reasoning \in BOOLEAN /\ after.decided /\ after.in_reasoning = FALSE
    BY DEF SplitStates
  <1> HIDE DEF q, after
  <1>2. ASSUME q.state.decided, NEW x \in Seq(Piece), NEW y \in Seq(Piece), Says(q.out, x, y),
               Shares(s, q.state, t, x, y)
        PROVE  Extends(q, u, r, a)
    <2>1. ASSUME NEW r2 \in Seq(Piece), NEW a2 \in Seq(Piece), r2 = r \o x, a2 = a \o y
          PROVE  Divides(q.state, u, r2, a2)
      <3>1. PICK r3 \in Seq(Piece), a3 \in Seq(Piece) : IsJoint(r3, r, x) /\ IsJoint(a3, a, y)
        BY Joint
      <3>2. r3 = r2 /\ a3 = a2
        BY <2>1, <3>1 DEF IsJoint
      <3>3. PICK s2 : s2 = q.state
        OBVIOUS
      <3>4. Shares(s, s2, t, x, y)
        BY <1>2, <3>3
      <3>5. Divided(u, r3, a3, s2)
        BY <3>1, <3>4, DividedGrows
      <3> QED
        BY <1>2, <3>2, <3>3, <3>5 DEF Divides
    <2> QED
      BY <1>2, <2>1 DEF Extends
  <1>3. <<>> \in Seq(Piece)
    OBVIOUS
  <1>4. CASE ~s.in_reasoning
    <2>1. q.state = s /\ q.out = <<Content(t, f)>>
      BY <1>4 DEF Route, Forwards, q
    <2>2. Says(q.out, <<>>, t)
      BY <2>1, DeltaSays
    <2>3. Shares(s, q.state, t, <<>>, t)
      BY <1>4, <2>1 DEF Shares
    <2> QED
      BY <1>2, <1>3, <2>1, <2>2, <2>3 DEF q
  <1>5. CASE s.in_reasoning /\ Marks(t) = {}
    <2>1. q.state = s /\ q.out = <<Reasoning(t, f)>>
      BY <1>5 DEF Route, Forwards, q
    <2>2. Says(q.out, t, <<>>)
      BY <2>1, DeltaSays
    <2>3. Shares(s, q.state, t, t, <<>>)
      BY <1>5, <2>1 DEF Shares
    <2> QED
      BY <1>2, <1>3, <2>1, <2>2, <2>3 DEF q
  <1>6. CASE s.in_reasoning /\ Marks(t) # {}
    <2>1. PICK x \in Seq(Piece), y \in Seq(Piece) : x = Before(t) /\ y = After(t)
      BY <1>6, MarkKeepsWords
    <2>2. /\ q.state = after
          /\ q.out = Unless(x = <<>>, Reasoning(x, "none")) \o Unless(y = <<>>, Content(y, f))
      BY <1>6, <2>1 DEF Route, Forwards, q, after
    <2>3. Says(q.out, x, y)
      BY <2>2, BothSay
    <2>4. Shares(s, q.state, t, x, y)
      BY <1>1, <1>6, <2>1, <2>2 DEF Shares
    <2> QED
      BY <1>1, <1>2, <2>2, <2>3, <2>4 DEF q
  <1> QED
    BY <1>1, <1>4, <1>5, <1>6

\* One chunk of the text, unless it cuts a marker.
LEMMA SplitDivides ==
    ASSUME NEW s, SplitOK(s), NEW d, Plain(d), d.reasoning = <<>>,
           NEW b \in Seq(Piece), NEW r \in Seq(Piece), NEW a \in Seq(Piece), Divides(s, b, r, a),
           s.decided => Len(b) >= 2,
           NEW b2 \in Seq(Piece), d.content = None => b2 = b,
           d.content # None => IsJoint(b2, b, d.content) /\ ~Crosses(b, d.content)
    PROVE  /\ Extends(SplitChoice(s, d), b2, r, a)
           /\ d.finish = "none" /\ SplitChoice(s, d).state.decided => Len(b2) >= 2
  <1> DEFINE q == SplitChoice(s, d)
             t == d.content
             f == d.finish
             held == Holds(s, t)
  <1>1. /\ d \in Choice /\ f \in Finish /\ s \in SplitStates /\ s.buffer \in Seq(Piece)
        /\ s.decided \in BOOLEAN
    BY DEF Plain, Delta, SplitOK, SplitStates, Choice
  <1> HIDE DEF q, f
  <1>2. CASE t = None
    <2>1. q.state = s /\ q.out = <<d>>
      BY <1>2 DEF SplitChoice, Forwards, q
    <2>2. Says(q.out, <<>>, <<>>) /\ <<>> \in Seq(Piece)
      BY <1>1, <1>2, <2>1, OneSays
    <2>3. ASSUME NEW r2 \in Seq(Piece), NEW a2 \in Seq(Piece), r2 = r \o <<>>, a2 = a \o <<>>
          PROVE  Divides(q.state, b2, r2, a2)
      <3>1. r2 = r /\ a2 = a
        BY <2>3, ConcatEmptySeq
      <3> QED
        BY <1>2, <2>1, <3>1
    <2>4. Extends(q, b2, r, a)
      BY <2>2, <2>3 DEF Extends
    <2> QED
      BY <1>2, <2>1, <2>4 DEF q
  <1>3. CASE t # None
    <2>1. PICK w \in Seq(Piece) : w = t /\ IsJoint(b2, b, w) /\ ~Crosses(b, w)
      BY <1>1, <1>3 DEF Choice
    <2>2. Len(b2) = Len(b) + Len(w) /\ Len(b) \in Nat /\ Len(w) \in Nat /\ b2 = b \o w
      BY <2>1 DEF IsJoint
    <2>3. CASE s.decided
      <3>1. q = Route(s, w, f)
        BY <1>3, <2>1, <2>3 DEF SplitChoice, q, f
      <3>2. Len(b) >= 2 /\ Len(b2) >= 2 /\ Divided(b, r, a, s)
        BY <2>2, <2>3 DEF Divides
      <3>3. Extends(q, b2, r, a)
        <4>1. Continues(b2, b, w)
          BY <2>1, <3>2 DEF Continues
        <4> QED
          BY <1>1, <2>3, <3>1, <3>2, <4>1, RouteDivides
      <3> QED
        BY <3>2, <3>3 DEF q
    <2>4. CASE ~s.decided
      <3>1. s.buffer = b /\ r = <<>> /\ a = <<>> /\ ~s.in_reasoning
        BY <2>4 DEF Divides, SplitOK
      <3>2. held = [s EXCEPT !.buffer = b2]
        BY <2>1, <2>2, <3>1 DEF Holds
      <3>3. held \in SplitStates /\ held.buffer = b2 /\ ~held.in_reasoning /\ ~held.decided
        BY <1>1, <2>4, <3>1, <3>2 DEF SplitStates
      <3> HIDE DEF held
      <3>4. CASE Decides(held, f)
        <4>1. q = Decide(held, b2, f)
          BY <1>3, <2>4, <3>3, <3>4 DEF SplitChoice, q, f, held
        <4>2. Extends(q, b2, r, a)
          BY <1>1, <3>1, <3>3, <4>1, DecideDivides
        <4>3. ASSUME f = "none" PROVE Len(b2) >= 2
          <5>1. Len(b2) >= Threshold /\ Len(b2) \in Nat
            BY <3>3, <3>4, <4>3 DEF Decides
          <5>2. Threshold \in Nat /\ Threshold >= 2
            BY RewriterAssumption DEF RewriterAssumption
          <5> QED
            BY <5>1, <5>2
        <4> QED
          BY <4>2, <4>3 DEF q, f
      <3>5. CASE ~Decides(held, f)
        <4>1. q.state = held /\ q.out = <<>>
          BY <1>3, <2>4, <3>5 DEF SplitChoice, Forwards, q, f, held
        <4>2. Says(q.out, <<>>, <<>>) /\ <<>> \in Seq(Piece)
          BY <4>1, NothingSays
        <4>3. ASSUME NEW r2 \in Seq(Piece), NEW a2 \in Seq(Piece), r2 = r \o <<>>, a2 = a \o <<>>
              PROVE  Divides(q.state, b2, r2, a2)
          <5>1. r2 = r /\ a2 = a
            BY <4>3, ConcatEmptySeq
          <5> QED
            BY <3>1, <3>3, <4>1, <5>1 DEF Divides
        <4>4. Extends(q, b2, r, a)
          BY <4>2, <4>3 DEF Extends
        <4> QED
          BY <3>3, <4>1, <4>4 DEF q
      <3> QED
        BY <3>4, <3>5
    <2> QED
      BY <1>1, <2>3, <2>4
  <1> QED
    BY <1>2, <1>3

\* Without stream_tool_recovery a chunk reaches the client as stream_rewriter
\* forwards it.
LEMMA DeliverUnrecovered ==
    ASSUME Flows, pc = "stream", splits, ~recovers, NEW c, Plain(c), Deliver(c)
    PROVE  LET q == SplitChoice(split, c)
           IN  /\ split' = q.state /\ splits' = splits /\ recovers' = recovers
               /\ q.out \in Seq(Fragment) /\ Len(q.out) \in 0 .. 2
               /\ pc' = "cancelled" \/ (pc' = "stream" /\ got' = Reads(q.out))
  <1> DEFINE q == SplitChoice(split, c)
  <1>1. ThroughSplit(c) = q
    BY DEF ThroughSplit
  <1>2. ThroughRecovery(q.out).out = q.out
    BY DEF ThroughRecovery, Forwards
  <1>3. SplitOK(split)
    BY DEF Flows, ChainOK
  <1>4. Parts(q.out)
    BY <1>3, SplitSound
  <1>5. split' = q.state /\ Written(q.out) /\ UNCHANGED <<deployment, request, client>>
    BY <1>1, <1>2 DEF Deliver
  <1> HIDE DEF q
  <1>6. q.out \in Seq(Fragment) /\ Len(q.out) \in 0 .. 2
    <2>1. CASE q.out = <<>>
      BY <2>1
    <2>2. ASSUME NEW x, Plain(x), q.out = <<x>> PROVE q.out \in Seq(Fragment) /\ Len(q.out) \in 0 .. 2
      <3>1. x \in Fragment
        BY <2>2, Fragments DEF Plain
      <3>2. <<x>> \in Seq(Fragment) /\ Len(<<x>>) = 1
        BY <3>1, OneElement
      <3> QED
        BY <2>2, <3>2
    <2>3. ASSUME NEW x, NEW y, Plain(x), Plain(y), q.out = <<x, y>>
          PROVE  q.out \in Seq(Fragment) /\ Len(q.out) \in 0 .. 2
      <3>1. x \in Fragment /\ y \in Fragment
        BY <2>3, Fragments DEF Plain
      <3>2. <<x, y>> \in Seq(Fragment) /\ Len(<<x, y>>) = 2
        BY <3>1
      <3> QED
        BY <2>3, <3>2
    <2> QED
      BY <1>4, <2>1, <2>2, <2>3 DEF Parts
  <1>7. pc' = "cancelled" \/ (pc' = "stream" /\ got' = Reads(q.out))
    <2>1. CASE q.out = <<>>
      <3>1. Len(q.out) = 0
        BY <2>1
      <3>2. Reads(q.out) = got
        BY <3>1, ReadsIs
      <3> QED
        BY <1>5, <2>1, <3>2 DEF Written, Cancel
    <2>2. CASE q.out # <<>>
      BY <1>5, <2>2 DEF Written, Cancel
    <2> QED
      BY <2>1, <2>2
  <1> QED
    BY <1>5, <1>6, <1>7 DEF deployment, q

\* As long as no marker is cut and vLLM's parser finds no reasoning, what the client
\* of a stream has is a division of the text so far.
Divisible == pc = "stream" /\ splits /\ ~recovers /\ thought = <<>> /\ ~cut

Dividing ==
    /\ Divisible =>
          /\ Divides(split, said, ReasonedOf(got), AnsweredOf(got))
          /\ ended = "none" /\ split.decided => Len(said) >= 2
    /\ StreamSplitsAsWhole

LEMMA DividingInit == Init => Dividing
  BY DEF Init, Dividing, Divisible, StreamSplitsAsWhole

LEMMA DividingQuiet ==
    ASSUME Flows, Dividing, UNCHANGED <<splits, recovers, split, got, thought, said, ended, cut>>,
           pc' = pc \/ pc' \notin {"stream", "done"} \/ (pc = "accepted" /\ pc' = "stream")
    PROVE  Dividing'
  <1>1. Reasoned' = Reasoned /\ Answered' = Answered
    BY DEF Reasoned, Answered
  <1>2. CASE pc = "accepted" /\ pc' = "stream"
    <2>1. split = SplitStart /\ said = <<>> /\ got = <<>>
      BY <1>2 DEF Flows, Untouched
    <2>2. ReasonedOf(<<>>) = <<>> /\ AnsweredOf(<<>>) = <<>>
      BY NothingSays DEF Says
    <2>3. Divides(split, said, ReasonedOf(got), AnsweredOf(got)) /\ ~split.decided
      BY <2>1, <2>2 DEF Divides, SplitStart
    <2> QED
      BY <1>2, <2>3 DEF Dividing, StreamSplitsAsWhole
  <1>3. CASE pc' = pc
    BY <1>1, <1>3 DEF Dividing, Divisible, StreamSplitsAsWhole
  <1>4. CASE pc' \notin {"stream", "done"}
    BY <1>4 DEF Dividing, Divisible, StreamSplitsAsWhole
  <1> QED
    BY <1>2, <1>3, <1>4

\* A chunk of vLLM's that is no reasoning.
LEMMA DividingChunk ==
    ASSUME Flows, Dividing, pc = "stream", ended = "none", NEW c, Plain(c), c.reasoning = <<>>,
           Deliver(c), ended' = c.finish, thought' = thought, NEW b2 \in Seq(Piece), said' = b2,
           c.content = None => b2 = said /\ cut' = cut,
           c.content # None => IsJoint(b2, said, c.content),
           c.content # None /\ ~cut' => ~cut /\ ~Crosses(said, c.content)
    PROVE  Dividing'
  <1>1. pc' \in {"stream", "cancelled"} /\ splits' = splits /\ recovers' = recovers
    BY DEF Deliver, deployment, Written, Cancel
  <1>2. CASE ~Divisible'
    BY <1>1, <1>2 DEF Dividing, Divisible, StreamSplitsAsWhole
  <1>3. CASE Divisible'
    <2> DEFINE q == SplitChoice(split, c)
    <2>1. Divisible
      BY <1>1, <1>3 DEF Divisible
    <2>2. PICK r \in Seq(Piece), a \in Seq(Piece) : r = ReasonedOf(got) /\ a = AnsweredOf(got)
      <3>1. got \in Seq(Choice)
        BY DEF Flows, StateOK
      <3>2. ReasonedOf(got) \in Seq(Piece) /\ AnsweredOf(got) \in Seq(Piece)
        BY <3>1, BothAdditive, FlatMapType DEF Additive, ReasonedOf, AnsweredOf
      <3> QED
        BY <3>2
    <2>3. /\ split' = q.state /\ q.out \in Seq(Fragment) /\ Len(q.out) \in 0 .. 2
          /\ got' = Reads(q.out)
      BY <1>3, <2>1, DeliverUnrecovered DEF Divisible
    <2>4. /\ SplitOK(split) /\ said \in Seq(Piece) /\ got \in Seq(Fragment)
          /\ Divides(split, said, r, a) /\ (split.decided => Len(said) >= 2)
      BY <2>1, <2>2 DEF Flows, StateOK, ChainOK, Dividing, Divisible
    <2>5. c.content # None => IsJoint(b2, said, c.content) /\ ~Crosses(said, c.content)
      BY <1>3 DEF Divisible
    <2>6. Extends(q, b2, r, a) /\ (c.finish = "none" /\ q.state.decided => Len(b2) >= 2)
      BY <2>4, <2>5, SplitDivides
    <2> HIDE DEF q
    <2>7. PICK x \in Seq(Piece), y \in Seq(Piece) :
             /\ Says(q.out, x, y)
             /\ \A r2, a2 \in Seq(Piece) : r2 = r \o x /\ a2 = a \o y => Divides(q.state, b2, r2, a2)
      BY <2>6 DEF Extends
    <2>8. ReasonedOf(got') = r \o x /\ AnsweredOf(got') = a \o y
      <3>1. /\ FlatMap(reasoningOf, Reads(q.out)) = FlatMap(reasoningOf, got) \o FlatMap(reasoningOf, q.out)
            /\ FlatMap(contentOf, Reads(q.out)) = FlatMap(contentOf, got) \o FlatMap(contentOf, q.out)
        BY <2>3, <2>4, BothAdditive, ReadsAdd
      <3> QED
        BY <2>2, <2>3, <2>7, <3>1 DEF Says, ReasonedOf, AnsweredOf
    <2>9. r \o x \in Seq(Piece) /\ a \o y \in Seq(Piece)
      BY ConcatProperties
    <2>10. Divides(split', b2, ReasonedOf(got'), AnsweredOf(got'))
      BY <2>3, <2>7, <2>8, <2>9
    <2> QED
      BY <1>1, <1>3, <2>3, <2>6, <2>10 DEF Dividing, Divisible, StreamSplitsAsWhole
  <1> QED
    BY <1>2, <1>3

\* [DONE] flushes nothing of what was divided.
LEMMA DividingDone ==
    ASSUME Flows, Dividing, Done
    PROVE  Dividing'
  <1>1. /\ pc = "stream" /\ UNCHANGED <<splits, recovers, split, thought, said, ended, cut>>
        /\ pc' \in {"cancelled", "done"}
    BY DEF Done, Cancel, deployment, answer
  <1>2. CASE ~(pc' = "done" /\ Divisible /\ split.decided)
    BY <1>1, <1>2 DEF Dividing, Divisible, StreamSplitsAsWhole
  <1>3. CASE pc' = "done" /\ Divisible /\ split.decided
    <2> DEFINE shown == ThroughRecovery(SplitDone(split))
    <2>1. got' = Reads(shown.out \o <<>>)
      BY <1>1, <1>3 DEF Done, Cancel, Divisible, Forwards
    <2>2. shown.out = <<>>
      BY <1>3 DEF Divisible, ThroughRecovery, SplitDone, Unless, Forwards
    <2> HIDE DEF shown
    <2>3. <<>> \o <<>> = <<>> /\ Len(<<>>) = 0
      OBVIOUS
    <2>4. got' = got
      BY <2>1, <2>2, <2>3, ReadsIs
    <2>5. PICK r \in Seq(Piece), a \in Seq(Piece) :
             r = ReasonedOf(got) /\ a = AnsweredOf(got) /\ Reasoned' = r /\ Answered' = a
      <3>1. got \in Seq(Choice)
        BY DEF Flows, StateOK
      <3>2. ReasonedOf(got) \in Seq(Piece) /\ AnsweredOf(got) \in Seq(Piece)
        BY <3>1, BothAdditive, FlatMapType DEF Additive, ReasonedOf, AnsweredOf
      <3>3. Reasoned = ReasonedOf(got) /\ Answered = AnsweredOf(got)
        BY <3>1, ReasonedIs DEF Reasoned, Answered
      <3>4. Reasoned' = Reasoned /\ Answered' = Answered
        BY <2>4 DEF Reasoned, Answered
      <3> QED
        BY <3>2, <3>3, <3>4
    <2>6. Divided(said, r, a, split) /\ said \in Seq(Piece)
      BY <1>3, <2>5 DEF Dividing, Divides, Flows, StateOK
    <2>7. Strip(r) = SplitThinkingPrefix(said)[1] /\ Strip(a) = Strip(SplitThinkingPrefix(said)[2])
      BY <2>6, DividedAsWhole
    <2> QED
      BY <1>1, <1>3, <2>5, <2>7 DEF Dividing, Divisible, StreamSplitsAsWhole
  <1> QED
    BY <1>2, <1>3

LEMMA CutIsMark ==
    ASSUME NEW s \in Seq(Piece), NEW t \in Seq(Piece), Crosses(s, t)
    PROVE  s # <<>> /\ t # <<>> /\ Marks(<<Last(s), Head(t)>>) # {}
  <1>1. s # <<>> /\ t # <<>> /\ Transition(s[Len(s)], t[1])
    BY DEF Crosses
  <1>2. Last(s) = s[Len(s)] /\ Head(t) = t[1]
    BY <1>1 DEF Last
  <1> DEFINE p == Last(s)
             q == Head(t)
  <1>3. Transition(p, q)
    BY <1>1, <1>2
  <1> HIDE DEF p, q
  <1>4. 1 \in 1 .. Len(<<p, q>>) - 1 /\ <<p, q>>[1] = p /\ <<p, q>>[1 + 1] = q
    OBVIOUS
  <1>5. 1 \in Marks(<<p, q>>)
    BY <1>3, <1>4, MarksAre
  <1> QED
    BY <1>1, <1>5 DEF p, q

LEMMA DividingStep == ASSUME ProxyAssumption, Flows, Dividing, [Next]_vars PROVE Dividing'
  <1>1. CASE \/ \E chunks \in Retrievals, fails \in BOOLEAN : Forward(chunks, fails)
             \/ Accept \/ Open \/ UsageChunk \/ Break \/ ClientLeaves \/ UNCHANGED vars
    <2>1. /\ UNCHANGED <<splits, recovers, split, got, thought, said, ended, cut>>
          /\ pc' = pc \/ pc' \notin {"stream", "done"} \/ (pc = "accepted" /\ pc' = "stream")
      BY <1>1 DEF Forward, Accept, Open, UsageChunk, Cancel, Break, ClientLeaves, vars, deployment,
                  stages, answer
    <2> QED
      BY <2>1, DividingQuiet
  <1>2. CASE \E message \in Messages, fails \in BOOLEAN : AnswerWhole(message, fails)
    BY <1>2 DEF AnswerWhole, Dividing, Divisible, StreamSplitsAsWhole
  <1>3. ASSUME NEW t \in Deltas, NEW f \in {"none", "length"}, ContentChunk(t, f) PROVE Dividing'
    <2>1. PICK c : c = Content(t, f)
      OBVIOUS
    <2>2. t \in Seq(Piece) /\ f \in Finish /\ said \in Seq(Piece)
      BY DeltaType DEF Flows, StateOK, Finish
    <2>3. Plain(c) /\ c.finish = f /\ c.content = t /\ t # None /\ c.reasoning = <<>>
      BY <2>1, <2>2, ContentChoice
    <2>4. /\ pc = "stream" /\ ended = "none" /\ Deliver(c) /\ ended' = c.finish /\ thought' = thought
          /\ said' = said \o t
          /\ cut' = (cut \/ (said # <<>> /\ t # <<>> /\ Marks(<<Last(said), Head(t)>>) # {}))
      BY <1>3, <2>1, <2>3 DEF ContentChunk, Streaming
    <2>5. PICK b2 \in Seq(Piece) : IsJoint(b2, said, t)
      BY <2>2, Joint
    <2>6. said' = b2
      BY <2>4, <2>5 DEF IsJoint
    <2>7. ~cut' => ~cut /\ ~Crosses(said, t)
      BY <2>2, <2>4, CutIsMark
    <2> QED
      BY <2>3, <2>4, <2>5, <2>6, <2>7, DividingChunk
  <1>4. CASE ReasoningChunk
    <2>1. thought' = <<"word">> /\ pc' \in {"stream", "cancelled"}
      BY <1>4 DEF ReasoningChunk, Streaming, Deliver, Written, Cancel
    <2>2. thought' # <<>>
      BY <2>1
    <2> QED
      BY <2>1, <2>2 DEF Dividing, Divisible, StreamSplitsAsWhole
  <1>5. CASE ToolChunk
    <2>1. PICK c : c = [Empty("none") EXCEPT !.parsed = TRUE]
      OBVIOUS
    <2>2. Plain(c) /\ c.finish = "none" /\ c.content = None /\ c.reasoning = <<>>
      <3>1. <<>> \in Seq(Piece)
        OBVIOUS
      <3> QED
        BY <2>1, <3>1 DEF Empty, Plain, Delta, Choice, Finish
    <2>3. said \in Seq(Piece)
      BY DEF Flows, StateOK
    <2>4. /\ pc = "stream" /\ ended = "none" /\ Deliver(c) /\ ended' = c.finish /\ thought' = thought
          /\ said' = said /\ cut' = cut
      BY <1>5, <2>1, <2>2 DEF ToolChunk, Streaming
    <2> QED
      BY <2>2, <2>3, <2>4, DividingChunk
  <1>6. CASE FinishChunk("length")
    <2>1. PICK c : c = Empty("length")
      OBVIOUS
    <2>2. Plain(c) /\ c.finish = "length" /\ c.content = None /\ c.reasoning = <<>>
      BY <2>1, EmptyChoice DEF Finish
    <2>3. said \in Seq(Piece)
      BY DEF Flows, StateOK
    <2>4. /\ pc = "stream" /\ ended = "none" /\ Deliver(c) /\ ended' = c.finish /\ thought' = thought
          /\ said' = said /\ cut' = cut
      BY <1>6, <2>1, <2>2 DEF FinishChunk, Streaming
    <2> QED
      BY <2>2, <2>3, <2>4, DividingChunk
  <1>7. CASE Done
    BY <1>7, DividingDone
  <1> QED
    BY <1>1, <1>2, <1>3, <1>4, <1>5, <1>6, <1>7 DEF Next

\* However a streamed answer is cut into deltas, unless it is cut inside a
\* transition marker, stream_rewriter splits it as split_thinking_prefix splits
\* the whole.
THEOREM StreamSplits == Spec => []StreamSplitsAsWhole
  <1>1. ProxyAssumption /\ Flows /\ Dividing /\ [Next]_vars => Dividing'
    BY DividingStep
  <1>2. Init => Dividing
    BY DividingInit
  <1>3. Dividing => StreamSplitsAsWhole
    BY DEF Dividing
  <1> QED
    BY <1>1, <1>2, <1>3, AlwaysFlows, ProxyAssumption, PTL DEF Spec
=============================================================================
