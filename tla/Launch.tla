------------------------------- MODULE Launch -------------------------------
(* `vllm-swift serve` from its arguments to the processes it starts: _serve  *)
(* and the head of _serve_with_rewriter in src/vllm_swift/cli.py.  Every     *)
(* step is a step of ServeLifecycle or changes none of its variables.        *)
(*                                                                           *)
(* Arguments are options in the order given: `--f v` and `--f=v` are         *)
(* [flag |-> "--f", text |-> "v"], and number is v as an int, NoNumber if it *)
(* is none.  The model may come first without a flag (Positional).           *)
EXTENDS ServeLifecycle, Detection

CONSTANTS
    Launches,   \* the arguments and surroundings a serve may find
    SidecarUrl, \* where the longctx-svc that serve starts answers
    NoNumber    \* of an option whose value is no int

Options == [flag : STRING, text : STRING, number : Int \cup {NoNumber}]

Positional == "<model>"

\* Every model that is named has a directory in dirs, if only one that is not there.
LaunchAssumption ==
    /\ SidecarUrl # "" /\ NoNumber \notin Int
    /\ \A launch \in Launches :
          /\ launch.args \in Seq(Options)
          /\ \A i \in DOMAIN launch.args :
                launch.args[i].flag \in {Positional, "--model"} /\ launch.args[i].text # ""
                    => launch.args[i].text \in DOMAIN launch.env.dirs
          /\ \A m \in DOMAIN launch.env.dirs : launch.env.dirs[m].arch \in Seq(STRING)
ASSUME LaunchAssumption

VARIABLES
    args,       \* what serve was called with
    env,        \* its surroundings
    phase,      \* how far _serve has got before there is a process
    job,        \* what it has made of the arguments
    sidecar     \* its longctx-svc: "none", "up" or "stopped"

launchOnly == <<args, env, phase, job, sidecar>>
launchVars == <<serveVars, launchOnly>>

Option(flag, text, number) == [flag |-> flag, text |-> text, number |-> number]
\* Of env: LONGCTX_ENDPOINT and LONGCTX_ENABLE, vLLM's parser registries ({} if
\* vLLM cannot be imported), whether longctx-svc is installed, the ports in
\* use, and the directory of each name of a model.
Environment(endpoint, enabled, tools, reasonings, installed, busy, dirs) ==
    [endpoint |-> endpoint, enabled |-> enabled, tools |-> tools, reasonings |-> reasonings,
     installed |-> installed, busy |-> busy, dirs |-> dirs]

NoEnvironment == Environment("", FALSE, {}, {}, FALSE, {}, <<>>)

\* The ports the OS hands out.
Ephemeral == {49152, 65535}

-----------------------------------------------------------------------------
(* Arguments                                                               *)

With(as, flags) ==
    FlattenSeq([i \in DOMAIN as |-> IF as[i].flag \in flags THEN <<as[i]>> ELSE <<>>])
Without(as, flags) ==
    FlattenSeq([i \in DOMAIN as |-> IF as[i].flag \in flags THEN <<>> ELSE <<as[i]>>])
HasFlag(as, flags) == With(as, flags) # <<>>

\* _extract_model, _extract_port and _extract_max_model_len take the first ...
FirstOf(as, flag, default) == IF HasFlag(as, {flag}) THEN Head(With(as, {flag})) ELSE default

\* ... the longctx options take the last, and so does vLLM's argparse.
LastOf(as, flag, default) == IF HasFlag(as, {flag}) THEN Last(With(as, {flag})) ELSE default

ExtractModel(as) == FirstOf(as, "--model", Option("--model", "", NoNumber)).text

ExtractPort(as) ==
    LET port == FirstOf(as, "--port", Option("--port", "", 8000)).number
    IN  IF port = NoNumber THEN 8000 ELSE port

\* NoNumber stands for None.
ExtractMaxModelLen(as) == FirstOf(as, "--max-model-len", Option("--max-model-len", "", NoNumber)).number

\* Mutant: the user's port stays, and comes after vLLM's.
KeepPort(as) == as

StripPort(as) == Without(as, {"--port"})

LongctxSwitches == {"--enable-longctx", "--no-enable-longctx"}

ExtractRetrievalEndpoint(as, default) ==
    LastOf(as, "--retrieval-endpoint", Option("--retrieval-endpoint", default, NoNumber)).text

ExtractEnableLongctx(as, default) ==
    IF HasFlag(as, LongctxSwitches)
    THEN Last(With(as, LongctxSwitches)).flag = "--enable-longctx"
    ELSE default

ExtractLongctxScope(as) == LastOf(as, "--longctx-scope", Option("--longctx-scope", "", NoNumber)).text

OwnFlags == {"--retrieval-endpoint", "--longctx-scope"} \cup LongctxSwitches

ToolFlags == {"--tool-call-parser", "--enable-auto-tool-choice", "--no-enable-auto-tool-choice"}
ReasoningFlags == {"--reasoning-parser", "--enable-reasoning", "--no-enable-reasoning"}

Injectable(parser, registered) == parser # "" /\ (registered = {} \/ parser \in registered)

-----------------------------------------------------------------------------
(* _serve                                                                  *)

NoJob ==
    [model |-> "", extra |-> <<>>, passthrough |-> <<>>, enabled |-> FALSE, endpoint |-> "",
     scope |-> "", tool |-> "", reasoning |-> "", command |-> <<>>, proxied |-> FALSE,
     upstream |-> 0]

LaunchInit ==
    /\ Init
    /\ \E launch \in Launches : args = launch.args /\ env = launch.env
    /\ phase = "called" /\ job = NoJob /\ sidecar = "none"

\* The launch is over, and nothing looks at its arguments any more.
Forget == phase' = "over" /\ args' = <<>> /\ env' = NoEnvironment /\ job' = NoJob

\* Every way to end a launch but the last statement's.  The exit handler stops
\* a sidecar.
GiveUp ==
    /\ Decline
    /\ sidecar' = IF sidecar = "up" THEN "stopped" ELSE sidecar
    /\ Forget

NoArguments == phase = "called" /\ args = <<>> /\ GiveUp

Parse ==
    /\ phase = "called" /\ pc = "launching" /\ args # <<>>
    /\ LET named == Head(args).flag = Positional
           given == IF named THEN Tail(args) ELSE args
           model == IF named THEN Head(args).text ELSE ExtractModel(args)
       IN  job' = [NoJob EXCEPT
                     !.model = model,
                     !.extra = IF named THEN <<Option("--model", model, NoNumber)>> ELSE <<>>,
                     !.passthrough = Without(given, OwnFlags),
                     !.endpoint = ExtractRetrievalEndpoint(given, env.endpoint),
                     !.enabled = ExtractEnableLongctx(given, env.enabled),
                     !.scope = ExtractLongctxScope(given)]
    /\ phase' = "parsed"
    /\ UNCHANGED <<serveVars, args, env, sidecar>>

WantsSidecar == job.enabled /\ job.endpoint = ""

SpawnSidecar ==
    /\ phase = "parsed" /\ pc = "launching" /\ WantsSidecar
    /\ env.installed
    /\ sidecar' = "up"
    /\ job' = [job EXCEPT !.endpoint = SidecarUrl]
    /\ phase' = "retrieval"
    /\ UNCHANGED <<serveVars, args, env>>

\* It is not installed, or does not come up within its 30 seconds.
SidecarFails == phase = "parsed" /\ WantsSidecar /\ GiveUp

NoSidecar ==
    /\ phase = "parsed" /\ pc = "launching" /\ ~WantsSidecar
    /\ phase' = "retrieval"
    /\ UNCHANGED <<serveVars, args, env, job, sidecar>>

\* The scope defaults to the working directory, and parsers are injected for
\* the user who has named none.
Detect ==
    /\ phase = "retrieval" /\ pc = "launching"
    /\ LET free(flags) == job.model # "" /\ ~HasFlag(job.passthrough, flags)
           tool == ToolParser(env.dirs[job.model])
           reasoning == ReasoningParser(env.dirs[job.model])
       IN  job' = [job EXCEPT
                     !.scope = IF job.endpoint # "" /\ @ = "" THEN "cwd" ELSE @,
                     !.tool = IF free(ToolFlags) /\ Injectable(tool, env.tools)
                              THEN tool ELSE "",
                     !.reasoning = IF free(ReasoningFlags) /\ Injectable(reasoning, env.reasonings)
                                   THEN reasoning ELSE ""]
    /\ phase' = "detected"
    /\ UNCHANGED <<serveVars, args, env, sidecar>>

AutoArgs ==
    (IF job.tool = "" THEN <<>>
     ELSE <<Option("--enable-auto-tool-choice", "", NoNumber), Option("--tool-call-parser", job.tool, NoNumber)>>)
    \o (IF job.reasoning = "" THEN <<>> ELSE <<Option("--reasoning-parser", job.reasoning, NoNumber)>>)

Arch == IF job.model = "" THEN <<>> ELSE env.dirs[job.model].arch

\* Mutant: retrieval alone does not call for the proxy.
NeedsProxyForModel ==
    job.reasoning \in NeedingBudget \/ NeedsRewrite(Arch) \/ job.tool \in LeakyToolParsers

NeedsProxy ==
    \/ job.reasoning \in NeedingBudget
    \/ NeedsRewrite(Arch)
    \/ job.tool \in LeakyToolParsers
    \/ job.endpoint # ""

\* Mutant: a preferred port is taken without a look.
PreferredPort(preferred) == {preferred}

FreePort(preferred) == IF preferred \in env.busy THEN Ephemeral \ env.busy ELSE {preferred}

\* What bind accepts; anything else is an OverflowError, which is no OSError.
ValidPort(port) == port \in 0 .. 65535

\* The port vLLM should get.
Preferred == ExtractPort(job.passthrough) + 1000

\* The command of subprocess.call.
CommandDirect ==
    /\ phase = "detected" /\ pc = "launching" /\ ~NeedsProxy
    /\ job' = [job EXCEPT !.command = job.extra \o AutoArgs \o job.passthrough]
    /\ phase' = "ready"
    /\ UNCHANGED <<serveVars, args, env, sidecar>>

\* The command of Popen, with a port of vLLM's own.
CommandBehindProxy ==
    /\ phase = "detected" /\ pc = "launching" /\ NeedsProxy
    /\ ValidPort(Preferred)
    /\ \E port \in FreePort(Preferred) :
          job' = [job EXCEPT
                    !.proxied = TRUE,
                    !.upstream = port,
                    !.command = job.extra \o AutoArgs \o StripPort(job.passthrough)
                                \o <<Option("--port", "", port)>>]
    /\ phase' = "ready"
    /\ UNCHANGED <<serveVars, args, env, sidecar>>

PortOverflows == phase = "detected" /\ NeedsProxy /\ ~ValidPort(Preferred) /\ GiveUp

\* What run_rewriter is called with once vLLM is ready.
ProxySettings ==
    [user |-> ExtractPort(job.passthrough), upstream |-> job.upstream, arch |-> Arch,
     reasoning |-> job.reasoning, tool |-> job.tool,
     maxLen |-> ExtractMaxModelLen(job.passthrough), endpoint |-> job.endpoint,
     scope |-> job.scope]

StartVllm ==
    /\ phase = "ready"
    /\ IF job.proxied THEN Spawn ELSE RunDirect
    /\ Forget
    /\ UNCHANGED sidecar

-----------------------------------------------------------------------------
(* The sidecar's end: atexit                                               *)

\* When serve returns, the exit handler stops the sidecar; SIGINT gets there
\* through KeyboardInterrupt, SIGTERM does not.
StopsSidecar(told) ==
    sidecar' \in IF sidecar # "up" \/ pc' \notin Over THEN {sidecar}
                 ELSE IF told THEN {"up", "stopped"} ELSE {"stopped"}

Afterwards ==
    /\ Vllm \/ Behind \/ ProxyFails \/ SignalHandled \/ SignalProxy
    /\ StopsSidecar(FALSE)
    /\ UNCHANGED <<args, env, phase, job>>

Killed ==
    /\ SignalDeadly
    /\ StopsSidecar(TRUE)
    /\ Forget

\* Only SIGINT makes subprocess.call kill what it has called.
Interrupted ==
    /\ InterruptDirect
    /\ StopsSidecar(FALSE)
    /\ UNCHANGED <<args, env, phase, job>>

\* What _serve does by itself.
LaunchStep ==
    \/ NoArguments
    \/ Parse
    \/ SpawnSidecar
    \/ SidecarFails
    \/ NoSidecar
    \/ Detect
    \/ CommandDirect
    \/ CommandBehindProxy
    \/ PortOverflows
    \/ StartVllm

LaunchNext == LaunchStep \/ Afterwards \/ Killed \/ Interrupted

LaunchSpec == LaunchInit /\ [][LaunchNext]_launchVars
FairLaunchSpec ==
    /\ LaunchSpec
    /\ WF_launchVars(LaunchStep)
    /\ WF_launchVars(Afterwards /\ Behind)

-----------------------------------------------------------------------------
(* Properties, of what is about to be started                              *)

\* The value vLLM's argparse ends up with.
Parsed(flag) == LastOf(job.command, flag, Option(flag, "", NoNumber))
Asked(flag) == LastOf(args, flag, Option(flag, "", NoNumber))

\* vLLM gets what the user asked for: none of serve's own options; of every
\* other flag the value the user gave last; parsers from serve only where the
\* user said nothing about parsers; and behind the proxy one port.
CommandFaithful ==
    phase = "ready" =>
        /\ ~HasFlag(job.command, OwnFlags)
        /\ \A o \in Range(args) :
              \/ o.flag \in OwnFlags \cup {Positional}
              \/ o.flag = "--port" /\ job.proxied
              \/ Parsed(o.flag) = Asked(o.flag)
        /\ Head(args).flag = Positional /\ ~HasFlag(args, {"--model"}) =>
              Parsed("--model").text = Head(args).text
        /\ \A flags \in {ToolFlags, ReasoningFlags} :
              HasFlag(args, flags) => With(job.command, flags) = With(args, flags)
        /\ job.proxied => Len(With(job.command, {"--port"})) = 1

Repeated(flag) == Len(With(job.extra \o job.passthrough, {flag})) > 1

\* The proxy listens where the user's clients connect, forwards to the port
\* vLLM listens on, which is free, and knows the context length, the parsers
\* and the architecture that vLLM runs with; unless a flag is given twice, of
\* which serve takes the first and vLLM the last (README, Divergences).
ProxyFrontsVllm ==
    phase = "ready" /\ job.proxied =>
        LET settings == ProxySettings IN
        /\ settings.upstream = Parsed("--port").number /\ settings.upstream \notin env.busy
        /\ settings.upstream # settings.user \/ settings.user \in Ephemeral
        /\ \/ Repeated("--port") \/ settings.user = Asked("--port").number
           \/ Asked("--port").number = NoNumber
        /\ Repeated("--max-model-len") \/ settings.maxLen = Parsed("--max-model-len").number
        /\ settings.tool \in {"", Parsed("--tool-call-parser").text}
        /\ settings.reasoning \in {"", Parsed("--reasoning-parser").text}
        /\ \/ Repeated("--model") \/ Parsed("--model").text = ""
           \/ settings.arch = env.dirs[Parsed("--model").text].arch

\* A sidecar is started only for a proxy that retrieves from it, no serve without
\* a proxy has one, and it does not outlive a serve that returns, or that SIGINT
\* ends; wherever there is something to retrieve from there is a proxy.
SidecarTied ==
    /\ sidecar = "up" => pc \notin {"direct", "exited"}
    /\ phase = "ready" =>
          /\ sidecar = "up" => job.proxied /\ ProxySettings.endpoint = SidecarUrl
          /\ job.endpoint # "" => job.proxied

\* Where both detectors inject a parser, of any architecture, what is a Kimi
\* model to one is a Kimi model to the other, but for two cases in which they
\* do disagree (README, Divergences): the reasoning detector alone takes a name
\* with r1 or distill for an R1 first, and the architectures V3.1 and V3.2 have
\* tool parsers of their own, whatever the name.  And no launch needs both a
\* split of leaked thinking and the recovery of a leaky parser's calls.
DetectorsInStep ==
    phase = "detected" =>
        /\ "" \notin {job.tool, job.reasoning} =>
              /\ job.tool = "kimi_k2" =>
                    \/ job.reasoning = "kimi_k2"
                    \/ /\ job.reasoning = "deepseek_r1"
                       /\ env.dirs[job.model].marks \cap {"r1", "distill"} # {}
              /\ job.reasoning = "kimi_k2" =>
                    \/ job.tool = "kimi_k2"
                    \/ StartsWith(Arch, {<<"Deepseek", "V3", "1">>, <<"Deepseek", "V3", "2">>})
        /\ ~(NeedsRewrite(Arch) /\ job.tool \in LeakyToolParsers)
=============================================================================
