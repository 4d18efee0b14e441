----------------------------- MODULE Enrichment -----------------------------
(* What the proxy of src/vllm_swift/response_rewriter.py splices into the    *)
(* messages of a request (_enrich_with_longctx): the chunks that a retrieval *)
(* service has found, as one block of bounded size in front of the system    *)
(* prompt.                                                                   *)
(*                                                                           *)
(* The content of a message is a list of texts, of which a plain string is   *)
(* one; parts other than text are left out.  A text is a sequence of pieces, *)
(* <<>> the empty one, and Block the one piece that the proxy adds.  Of a    *)
(* chunk only sizes are kept, in characters.                                 *)
EXTENDS Integers, SequencesExt

CONSTANT Block

\* No client says what the proxy adds.
EnrichmentAssumption == Block \notin STRING
ASSUME EnrichmentAssumption
\* max_chars: the cap on the block that is spliced in.
MaxChars == 16384

MessageOf(pieces) ==
    {m \in [role : {"system", "user", "assistant"}, listed : BOOLEAN, texts : Seq(Seq(pieces))] :
        m.listed \/ Len(m.texts) = 1}

Message == MessageOf(STRING \cup {Block})

\* header: the length of "// path:first-last"; scored: the score passes the floor.
Chunk == [header : Nat, size : Nat, scored : BOOLEAN]

-----------------------------------------------------------------------------
(* The block                                                               *)

\* What is left for a chunk's text when used characters are taken.
Room(used, chunk) == MaxChars - used - (chunk.header + 12)

\* Mutant: a text is not truncated.
KeptWhole(used, chunk) == chunk.size

\* The length of a chunk's text in the block, with its "... [truncated]".
Kept(used, chunk) ==
    IF chunk.size > Room(used, chunk) THEN Room(used, chunk) + 16 ELSE chunk.size

\* A chunk's fenced text under its header.
Fenced(used, chunk) == chunk.header + 11 + Kept(used, chunk)

\* Mutant: the loop skips a chunk that has no room, and goes on.
Skips(block, chunk) == block

Stops(block, chunk) == [block EXCEPT !.closed = TRUE]

\* One round of the loop.
AddChunk(block, chunk) ==
    IF block.closed THEN block
    ELSE IF Room(block.used, chunk) <= 200 THEN Stops(block, chunk)
    ELSE [used |-> block.used + Fenced(block.used, chunk),
          kept |-> Append(block.kept, chunk),
          closed |-> FALSE]

\* _format_longctx_block: its length so far, after the title, and its chunks.
FormatBlock(chunks) ==
    LET block[n \in 0 .. Len(chunks)] ==
            IF n = 0 THEN [used |-> 27, kept |-> <<>>, closed |-> FALSE]
            ELSE AddChunk(block[n - 1], chunks[n])
    IN  block[Len(chunks)]

-----------------------------------------------------------------------------
(* The messages                                                            *)

\* Mutant: a plain system prompt is replaced.
Replaced(message) == [message EXCEPT !.texts = <<<<Block>>>>]

\* The block in front of a message's texts, or of its one text.
InFront(message) ==
    IF message.listed THEN [message EXCEPT !.texts = <<<<Block>>>> \o @]
    ELSE [message EXCEPT !.texts = <<<<Block>> \o Head(@)>>]

\* _splice_longctx_into_messages: the first system message, or else a new one.
Splice(messages) ==
    LET systems == {i \in DOMAIN messages : messages[i].role = "system"}
    IN  IF systems = {}
        THEN <<[role |-> "system", listed |-> FALSE, texts |-> <<<<Block>>>>]>> \o messages
        ELSE [messages EXCEPT ![Min(systems)] = InFront(@)]

\* _last_user_text: of the last user message with a text.
LastUserText(messages) ==
    LET asking == {i \in DOMAIN messages : messages[i].role = "user" /\ messages[i].texts # <<>>}
    IN  IF asking = {} THEN <<>> ELSE Head(messages[Max(asking)].texts)

\* The relevance floor; the best chunk is dropped too if it is below.
Relevant(chunks) ==
    FlattenSeq([i \in DOMAIN chunks |-> IF chunks[i].scored THEN <<chunks[i]>> ELSE <<>>])

\* _enrich_with_longctx: retrieval is not asked without a question.  When it
\* is off, or fails, there are no chunks.
Enrich(messages, chunks) ==
    IF LastUserText(messages) = <<>> \/ Relevant(chunks) = <<>> THEN messages
    ELSE Splice(messages)
=============================================================================
