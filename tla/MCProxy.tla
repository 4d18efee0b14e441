------------------------------ MODULE MCProxy -------------------------------
(* Small instances of Proxy for TLC.                                       *)
EXTENDS Proxy

Says(role, text) == [role |-> role, listed |-> FALSE, texts |-> <<text>>]
Lists(role, texts) == [role |-> role, listed |-> TRUE, texts |-> texts]

Question == <<Says("user", <<"question">>)>>

\* A system prompt absent, plain, in parts, late, after the question or twice; a
\* question that is absent, empty, in parts, or followed by an image or an answer.
Conversations ==
    {<<>>, Question, <<Says("user", <<>>)>>,
     <<Says("system", <<"rules">>)>> \o Question,
     <<Lists("system", <<<<"rules">>, <<"more">>>>)>> \o Question,
     <<Lists("system", <<>>), Says("system", <<"rules">>)>> \o Question,
     <<Says("assistant", <<"hello">>), Says("system", <<"rules">>)>> \o Question,
     Question \o <<Says("system", <<"rules">>)>>,
     Question \o <<Says("assistant", <<"answer">>), Lists("user", <<<<"what">>, <<"more">>>>)>>,
     Question \o <<Lists("user", <<>>)>>}

\* Budgets around each limit, contexts unknown, small, useful and large; every
\* conversation.
EveryAsk ==
    [requested : {0, 64, 1023, 1024, 8192, 12000, 16383, 16384}, reasons : BOOLEAN,
     len : {0, 1000, 4096, 16383, 16384, 20001, 65535, 131072}, messages : {Question}]
    \cup [requested : {8192}, reasons : {TRUE}, len : {0}, messages : Conversations]

PlainAsk ==
    {[requested |-> 8192, reasons |-> TRUE, len |-> 0, messages |-> Question]}

\* Nothing, chunks below the floor, and two or three whose texts fill the block
\* up to a few characters, exactly, or beyond.
SomeChunks ==
    LET Sized(header, size) == [header |-> header, size |-> size, scored |-> TRUE]
        Noise == [header |-> 20, size |-> 50, scored |-> FALSE]
    IN  {<<>>, <<Noise>>}
        \cup {<<Sized(20, a), Noise, Sized(40, b), Sized(10, 1)>> :
                 a \in {0, 16072, 16094, 16095, 16325, 16326, 30000}, b \in {0, 200, 16000}}

NoChunks == {<<>>}

\* Answers with and without a thinking prefix, transition markers, leaked tool
\* calls whole, malformed, drowned in text or followed by some, in two shapes.
MixedAnswers ==
    {start \o middle \o end :
        start \in {<<>>, <<"word">>, <<"nl">>, <<"prefix", "word">>, <<"prefix", "nl">>},
        middle \in {<<"word">>, <<"nl">>, <<"nl", "nl">>, <<"nl", "tag1">>,
                    <<"tag1", "tag2">>, <<"tag1", "tag2", "call">>,
                    <<"nl", "tag1", "tag2", "call">>},
        end \in {<<"word">>, <<"nl", "nl", "word">>}}
    \cup
    {start \o <<"hermes", "call">> \o end :
        start \in {<<>>, <<"nl">>, <<"word">>},
        end \in {<<"hermes", "call">>, <<"word", "hermes", "void", "word">>,
                 <<"tag1", "tag2", "call">>}}
=============================================================================
