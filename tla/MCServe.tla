------------------------------ MODULE MCServe -------------------------------
(* A small instance of Launch and ServeLifecycle for TLC.                  *)
EXTENDS Launch, TLC

CONSTANTS server, core1, core2

Dir(arch, marks, template) ==
    [local |-> TRUE, arch |-> arch, marks |-> marks, template |-> template]

NoDir == [Dir(<<>>, {}, {}) EXCEPT !.local = FALSE]

Coder == Dir(<<"Qwen3", "Moe">>, {"qwen3"}, {"tools", "tool_call", "<tool_call>", "<think>"})
Dense == Dir(<<"Llama">>, {}, {"tools", "function"})
Leaky == Dir(<<"Phi4">>, {}, {"tools", "tool_call"})

-----------------------------------------------------------------------------
(* Up to three options                                                     *)

Flag(flag) == Option(flag, "", NoNumber)

\* B has no directory.
SomeOptions ==
    {Option("--model", "A", NoNumber), Option("--model", "B", NoNumber),
     Option("--port", "", 9000), Option("--port", "bad", NoNumber), Option("--port", "", 64600),
     Option("--port", "", 49152), Option("--port", "", 0),
     Option("--max-model-len", "", 4096), Option("--max-model-len", "", 8192),
     Option("--tool-call-parser", "hermes", NoNumber), Flag("--no-enable-auto-tool-choice"),
     Option("--reasoning-parser", "qwen3", NoNumber), Flag("--no-enable-reasoning"),
     Flag("--enable-longctx"), Flag("--no-enable-longctx"),
     Option("--retrieval-endpoint", "http", NoNumber), Option("--longctx-scope", "src", NoNumber),
     Flag("--dtype")}

Names == {Option(Positional, m, NoNumber) : m \in {"A", "B"}}

Commands ==
    {<<>>} \cup {<<m>> : m \in Names} \cup {<<o>> : o \in SomeOptions}
    \cup {<<m, o>> : m \in Names \cup SomeOptions, o \in SomeOptions}
    \cup {<<m, o, q>> : m \in Names \cup SomeOptions, o \in SomeOptions, q \in SomeOptions}

Dirs(dir) == [m \in {"A", "B"} |-> IF m = "A" THEN dir ELSE NoDir]

\* Parsers vLLM does not know; a machine that has nothing set; one with both
\* variables set, no longctx-svc and its ports in use.
Surroundings ==
    {Environment("", FALSE, {"mistral"}, {"mistral"}, TRUE, {}, Dirs(Coder)),
     Environment("", FALSE, {}, {"qwen3"}, TRUE, {10000, 50152, 65535}, Dirs(Coder)),
     Environment("", FALSE, {}, {}, TRUE, {9000, 49152}, Dirs(Dense)),
     Environment("", TRUE, {}, {}, FALSE, {}, Dirs(Leaky)),
     Environment("env", TRUE, {}, {}, TRUE, {10000}, Dirs(Dense))}

-----------------------------------------------------------------------------
(* Any model                                                               *)

Archs ==
    {<<>>, <<"Other">>, <<"Reka">>, <<"Bailing", "Moe">>, <<"Deepseek", "R1">>, <<"Glm4", "7">>}
    \cup UNION {row.prefixes : row \in Range(ToolArchs) \cup Range(ReasoningArchs)}

Marks == {{}, {"kimi"}, {"kimi", "distill"}, {"r1"}, {"xlam"}, {"coder", "qwen3"},
          {"coder", "-Coder-", "qwen3"}, {"no-think"}}

Templates ==
    {t \cup gate : t \in {{}} \cup {row.prefixes : row \in Range(ToolTemplates) \cup Range(ReasoningTemplates)},
                   gate \in {{"<think>"}, {"tools", "tool_call", "function", "<think>"},
                            {"tools", "tool_call", "function"}}}

Plain == {"tools", "tool_call", "<think>"}

Models ==
    {Dir(a, m, Plain) : a \in Archs, m \in Marks}
    \cup {Dir(a, m, t) : a \in {<<"Other">>, <<"Deepseek", "V3">>}, m \in {{}, {"kimi"}}, t \in Templates}

EveryLaunch ==
    {[args |-> as, env |-> e] : as \in Commands, e \in Surroundings}
    \cup {[args |-> <<Option(Positional, "A", NoNumber)>>,
            env |-> Environment("", FALSE, {}, {}, TRUE, {}, Dirs(d))] : d \in Models}
=============================================================================
