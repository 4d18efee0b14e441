----------------------------- MODULE Detection ------------------------------
(* Which parsers serve injects for a model: src/vllm_swift/                  *)
(* detect_tool_parser.py and detect_reasoning_parser.py.  Pure functions of  *)
(* the model directory, a record of                                          *)
(*   local     whether there is such a directory,                            *)
(*   arch      the first architecture of config.json, <<>> if there is none, *)
(*   marks     what the detectors look for in its base name, and             *)
(*   template  what they look for in its chat template.                      *)
(* An architecture is a sequence of name pieces as long as the tables can    *)
(* tell apart.  A row is a set of prefixes and their parser; rows that say   *)
(* what a shorter prefix further down says too are left out, and so are      *)
(* second spellings.                                                         *)
EXTENDS Integers, SequencesExt

Mark == {"coder", "-Coder-", "qwen3", "kimi", "xlam", "r1", "distill", "no-think"}

Row(parser, prefixes) == [parser |-> parser, prefixes |-> prefixes]

\* An architecture of which some prefix is listed.
StartsWith(arch, prefixes) == \E p \in prefixes : IsPrefix(p, arch)

\* The parser of the first of the rows that fit; "" if there is none.
FirstIn(rows, fitting) == IF fitting = {} THEN "" ELSE rows[Min(fitting)].parser

OfArch(arch, rows) ==
    FirstIn(rows, {i \in DOMAIN rows : StartsWith(arch, rows[i].prefixes)})

OfTemplate(template, rows) ==
    FirstIn(rows, {i \in DOMAIN rows : rows[i].prefixes \cap template # {}})

-----------------------------------------------------------------------------
(* detect_tool_parser                                                      *)

ToolArchs == <<
    Row("qwen3_coder", {<<"Qwen3", "Coder">>, <<"Qwen3", "_5">>, <<"Qwen3", "_6">>,
                        <<"Qwen3", "Next">>, <<"Qwen3", "Moe">>}),
    Row("hermes", {<<"Qwen3">>, <<"Qwen2">>}),
    Row("qwen3_coder", {<<"Nemotron">>}),
    Row("hermes", {<<"Hermes">>}),
    Row("llama4_json", {<<"Llama", "4">>}),
    Row("llama3_json", {<<"Llama">>}),
    Row("mistral", {<<"Magistral">>, <<"Mistral">>}),
    Row("gemma4", {<<"Gemma">>}),
    Row("phi4_mini_json", {<<"Phi4">>, <<"Phi3">>}),
    Row("granite4", {<<"Granite", "4">>}),
    Row("granite", {<<"Granite">>}),
    Row("deepseek_v3", {<<"Deepseek", "V4">>}),
    Row("deepseek_v32", {<<"Deepseek", "V3", "2">>}),
    Row("deepseek_v31", {<<"Deepseek", "V3", "1">>}),
    Row("deepseek_v3", {<<"Deepseek", "V3">>, <<"Deepseek", "V2">>}),
    Row("glm45", {<<"GlmMoeDsa">>, <<"Glm4", "5">>}),
    Row("glm47", {<<"Glm4", "7">>}),
    Row("glm45", {<<"Glm4">>}),
    Row("minimax_m2", {<<"MiniMax", "M2">>}),
    Row("minimax", {<<"MiniMax">>}),
    Row("kimi_k2", {<<"Kimi">>}),
    Row("hunyuan_a13b", {<<"HunyuanA13B">>, <<"HY">>}),
    Row("step3p5", {<<"Step3", "p5">>}),
    Row("step3", {<<"Step3">>}),
    Row("olmo3", {<<"Olmo3">>}),
    Row("openai", {<<"GptOss">>, <<"OpenaiMoe">>}),
    Row("hermes", {<<"Holo2">>}),
    Row("qwen3_xml", {<<"MiMo">>}),
    Row("seed_oss", {<<"SeedOss">>}),
    Row("longcat", {<<"Longcat">>}),
    Row("internlm", {<<"InternLM">>}),
    Row("jamba", {<<"Jamba">>}),
    Row("ernie45", {<<"Ernie45">>, <<"Ernie4_5">>}),
    Row("hermes", {<<"Bailing", "Moe">>}) >>

ToolTemplates == <<
    Row("phi4_mini_json", {"<|im_sep|>"}),
    Row("mistral", {"[AVAILABLE_TOOLS]"}),
    Row("deepseek_v3", {"<|tool_calls_begin|>"}),
    Row("minimax_m2", {"<minimax:tool_call>"}),
    Row("granite4", {"<|start_of_role|>"}),
    Row("llama4_json", {"<|header_start|>", "<|header_end|>"}),
    Row("seed_oss", {"<seed:bos>"}),
    Row("hermes", {"<role>ASSISTANT</role>", "<role>HUMAN</role>"}),
    Row("qwen3_coder", {"<function="}),
    Row("hermes", {"<tool_call>", "<function_call>"}),
    Row("llama3_json", {"<|begin_of_text|>"}),
    Row("gemma4", {"<start_of_turn>"}),
    Row("hermes", {"<|im_start|>"}) >>

HasToolTemplate(dir) ==
    "tools" \in dir.template /\ dir.template \cap {"tool_call", "function"} # {}

RefinedTool(parser, marks) ==
    IF parser = "hermes" /\ {"coder", "qwen3"} \subseteq marks THEN "qwen3_coder"
    ELSE IF parser = "deepseek_v3" /\ "kimi" \in marks THEN "kimi_k2"
    ELSE IF parser \in {"llama3_json", "llama4_json", "hermes"} /\ "xlam" \in marks THEN "xlam"
    ELSE parser

\* A name refines what the architecture says, never what the template says.
ToolParser(dir) ==
    LET parser == OfArch(dir.arch, ToolArchs)
    IN  IF ~dir.local \/ ~HasToolTemplate(dir) THEN ""
        ELSE IF parser # "" THEN RefinedTool(parser, dir.marks)
        ELSE OfTemplate(dir.template, ToolTemplates)

-----------------------------------------------------------------------------
(* detect_reasoning_parser                                                 *)

ReasoningArchs == <<
    Row("deepseek_r1", {<<"Deepseek", "R1">>}),
    Row("deepseek_v3", {<<"Deepseek", "V4">>, <<"Deepseek", "V3">>, <<"Deepseek", "V2">>}),
    Row("qwen3", {<<"Qwen3">>}),
    Row("nemotron_v3", {<<"Nemotron">>}),
    Row("gemma4", {<<"Gemma", "4">>}),
    Row("mistral", {<<"Magistral">>, <<"Mistral">>}),
    Row("glm45", {<<"GlmMoeDsa">>, <<"Glm4", "7">>, <<"Glm4", "5">>, <<"Glm4", "_5">>}),
    Row("granite", {<<"Granite">>}),
    Row("minimax_m2", {<<"MiniMax", "M2">>}),
    Row("kimi_k2", {<<"Kimi">>}),
    Row("hunyuan_a13b", {<<"HunyuanA13B">>, <<"HY">>}),
    Row("step3p5", {<<"Step3", "p5">>}),
    Row("step3", {<<"Step3">>}),
    Row("olmo3", {<<"Olmo3">>}),
    Row("seed_oss", {<<"SeedOss">>}),
    Row("ernie45", {<<"Ernie45">>, <<"Ernie4_5">>}),
    Row("openai_gptoss", {<<"GptOss">>, <<"OpenaiMoe">>}),
    Row("holo2", {<<"Holo2">>}),
    Row("qwen3", {<<"MiMo">>}) >>

ReasoningTemplates == <<
    Row("deepseek_v3", {"<|tool_calls_begin|>"}),
    Row("openai_gptoss", {"<|channel|>"}),
    Row("granite", {"<scratchpad>"}),
    Row("qwen3", {"<think>", "<thinking>"}) >>

ThinkingMarkers ==
    {"<think>", "</think>", "<thinking>", "</thinking>", "<|channel|>", "<|reasoning|>",
     "<reasoning>", "<scratchpad>"}

HasThinkingTemplate(dir) == dir.template \cap ThinkingMarkers # {}

\* "no-think" stands for the four parts of names that say so.
Suppressed(dir) ==
    \/ StartsWith(dir.arch, {<<"Reka">>, <<"Ring">>, <<"Bailing">>, <<"Ling">>})
    \/ dir.marks \cap {"no-think", "-Coder-"} # {}

\* Mutant: the name of a Kimi model is not looked at.
WithoutKimi(parser, marks) ==
    IF parser = "deepseek_v3" /\ marks \cap {"r1", "distill"} # {} THEN "deepseek_r1" ELSE parser

RefinedReasoning(parser, marks) ==
    IF parser # "deepseek_v3" THEN parser
    ELSE IF marks \cap {"r1", "distill"} # {} THEN "deepseek_r1"
    ELSE IF "kimi" \in marks THEN "kimi_k2"
    ELSE parser

ReasoningParser(dir) ==
    LET parser == OfArch(dir.arch, ReasoningArchs)
    IN  IF ~dir.local \/ ~HasThinkingTemplate(dir) \/ Suppressed(dir) THEN ""
        ELSE IF parser # "" THEN RefinedReasoning(parser, dir.marks)
        ELSE OfTemplate(dir.template, ReasoningTemplates)

-----------------------------------------------------------------------------
(* What the proxy makes of architecture and parsers: response_rewriter.py  *)

NeedsRewrite(arch) == StartsWith(arch, {<<"Nemotron">>})

NeedingBudget ==
    {"nemotron_v3", "qwen3", "deepseek_r1", "deepseek_v3", "openai_gptoss", "gemma4", "granite",
     "minimax_m2"}

LeakyToolParsers == {"phi4_mini_json"}
=============================================================================
