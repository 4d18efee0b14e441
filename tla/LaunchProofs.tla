---------------------------- MODULE LaunchProofs -----------------------------
(***************************************************************************)
(* Whatever serve is called with and finds: its launch is a launch of      *)
(* ServeLifecycle, no sidecar is left behind by a serve that returns, vLLM *)
(* gets what the user asked for, the proxy what vLLM runs with, and the    *)
(* detectors do not contradict each other.                                 *)
(***************************************************************************)
EXTENDS Launch, ServeProofs, SequenceLemmas

\* Every step of Launch is a step of serve, or none of its own variables moves.
LEMMA LaunchStepServes == ASSUME LaunchNext PROVE Next \/ UNCHANGED serveVars
  <1>1. CASE LaunchStep
    <2>1. GiveUp => Next
      BY DEF GiveUp, Next, Launching
    <2>2. CASE NoArguments \/ SidecarFails \/ PortOverflows
      <3>1. GiveUp
        BY <2>2 DEF NoArguments, SidecarFails, PortOverflows
      <3> QED
        BY <2>1, <3>1
    <2>3. CASE StartVllm
      BY <2>3 DEF StartVllm, Next, Launching
    <2>4. CASE Parse
      BY <2>4 DEF Parse, serveVars
    <2>5. CASE SpawnSidecar \/ NoSidecar
      BY <2>5 DEF SpawnSidecar, NoSidecar, serveVars
    <2>6. CASE Detect
      BY <2>6 DEF Detect, serveVars
    <2>7. CASE CommandDirect \/ CommandBehindProxy
      BY <2>7 DEF CommandDirect, CommandBehindProxy, serveVars
    <2> QED
      BY <1>1, <2>2, <2>3, <2>4, <2>5, <2>6, <2>7 DEF LaunchStep
  <1>2. CASE Afterwards \/ Killed \/ Interrupted
    BY <1>2 DEF Afterwards, Killed, Interrupted, Next, Events
  <1> QED
    BY <1>1, <1>2 DEF LaunchNext

\* For any arguments, models and surroundings, what serve does is what
\* ServeLifecycle says of it.
THEOREM LaunchImplementsServe == LaunchSpec => ServeSpec
  <1>1. LaunchInit => Init
    BY DEF LaunchInit
  <1>2. [LaunchNext]_launchVars => [Next]_serveVars
    BY LaunchStepServes DEF launchVars
  <1> QED
    BY <1>1, <1>2, PTL DEF LaunchSpec, ServeSpec

\* Hence no engine core is left untold however serve was launched.
THEOREM NoCoreUntoldAfterLaunch == LaunchSpec => []CoresTold
  BY LaunchImplementsServe, NoCoreUntold, PTL

-----------------------------------------------------------------------------
(* The sidecar                                                             *)

Fields == DOMAIN NoJob

\* A launch goes on as long as serve has not started vLLM, given up or died.
PhaseOK ==
    /\ phase # "over" <=> pc = "launching"
    /\ phase \in {"called", "parsed", "retrieval", "detected", "ready", "over"}
    /\ job = [f \in Fields |-> job[f]]

\* A sidecar is the endpoint, once there is one, and it makes the proxy needed.
SidecarIsEndpoint ==
    /\ phase \in {"called", "parsed"} => sidecar = "none"
    /\ phase \in {"retrieval", "detected", "ready"} /\ sidecar = "up" => job.endpoint = SidecarUrl
    /\ phase = "ready" /\ job.endpoint # "" => job.proxied
    /\ sidecar = "up" => pc \notin {"direct", "exited"}
    /\ sidecar \in {"none", "up", "stopped"}

LaunchInv == PhaseOK /\ SidecarIsEndpoint

LEMMA LaunchInvInit == ASSUME LaunchInit PROVE LaunchInv
  BY DEF LaunchInit, Init, LaunchInv, PhaseOK, SidecarIsEndpoint, NoJob, Fields

\* Giving up stops the sidecar.
LEMMA GiveUpInv == ASSUME LaunchInv, GiveUp PROVE LaunchInv'
  BY DEF GiveUp, Forget, Decline, LaunchInv, PhaseOK, SidecarIsEndpoint, NoJob, Fields

LEMMA ParseInv == ASSUME LaunchInv, Parse PROVE LaunchInv'
  <1>1. job' = [f \in Fields |-> job'[f]]
    BY DEF Parse, NoJob, Fields
  <1> QED
    BY <1>1 DEF Parse, serveVars, LaunchInv, PhaseOK, SidecarIsEndpoint

LEMMA SidecarInv ==
    ASSUME LaunchInv, SpawnSidecar \/ NoSidecar PROVE LaunchInv'
  <1>1. CASE SpawnSidecar
    <2>1. job' = [f \in Fields |-> job'[f]] /\ job'.endpoint = SidecarUrl
      BY <1>1 DEF SpawnSidecar, LaunchInv, PhaseOK, Fields, NoJob
    <2> QED
      BY <1>1, <2>1 DEF SpawnSidecar, serveVars, LaunchInv, PhaseOK, SidecarIsEndpoint
  <1>2. CASE NoSidecar
    BY <1>2 DEF NoSidecar, serveVars, LaunchInv, PhaseOK, SidecarIsEndpoint
  <1> QED
    BY <1>1, <1>2

LEMMA DetectInv == ASSUME LaunchInv, Detect PROVE LaunchInv'
  <1>1. job' = [f \in Fields |-> job'[f]] /\ job'.endpoint = job.endpoint
    BY DEF Detect, LaunchInv, PhaseOK, Fields, NoJob
  <1> QED
    BY <1>1 DEF Detect, serveVars, LaunchInv, PhaseOK, SidecarIsEndpoint

\* A serve without the proxy has nothing to retrieve from.
LEMMA CommandInv ==
    ASSUME LaunchAssumption, LaunchInv, CommandDirect \/ CommandBehindProxy PROVE LaunchInv'
  <1>1. CASE CommandDirect
    <2>1. job' = [f \in Fields |-> job'[f]] /\ job'.endpoint = job.endpoint
      BY <1>1 DEF CommandDirect, LaunchInv, PhaseOK, Fields, NoJob
    <2>2. job.endpoint = "" /\ sidecar # "up"
      BY <1>1 DEF CommandDirect, NeedsProxy, LaunchInv, SidecarIsEndpoint, LaunchAssumption
    <2> QED
      BY <1>1, <2>1, <2>2 DEF CommandDirect, serveVars, LaunchInv, PhaseOK, SidecarIsEndpoint
  <1>2. CASE CommandBehindProxy
    <2> PICK port \in FreePort(Preferred) :
          job' = [job EXCEPT !.proxied = TRUE, !.upstream = port,
                             !.command = job.extra \o AutoArgs \o StripPort(job.passthrough)
                                         \o <<Option("--port", "", port)>>]
      BY <1>2 DEF CommandBehindProxy
    <2>1. /\ job' = [f \in Fields |-> job'[f]]
          /\ job'.endpoint = job.endpoint /\ job'.proxied = TRUE
      BY DEF LaunchInv, PhaseOK, Fields, NoJob
    <2> QED
      BY <1>2, <2>1 DEF CommandBehindProxy, serveVars, LaunchInv, PhaseOK, SidecarIsEndpoint
  <1> QED
    BY <1>1, <1>2

LEMMA StartVllmInv == ASSUME LaunchAssumption, LaunchInv, StartVllm PROVE LaunchInv'
  <1>1. pc' \in {"spawned", "direct"} /\ (pc' = "direct" => ~job.proxied)
    BY DEF StartVllm, Spawn, RunDirect, Start
  <1>2. pc' = "direct" => sidecar # "up"
    BY <1>1 DEF StartVllm, LaunchInv, SidecarIsEndpoint, LaunchAssumption
  <1> QED
    BY <1>1, <1>2 DEF StartVllm, Forget, LaunchInv, PhaseOK, SidecarIsEndpoint, NoJob, Fields

\* Once vLLM is started there is no way back into the launch, and the exit
\* handler stops the sidecar on every way out that reaches it.
LEMMA AfterwardsInv == ASSUME LaunchInv, Afterwards PROVE LaunchInv'
  <1>1. /\ pc' = "launching" <=> pc = "launching"
        /\ pc' = "direct" => pc = "direct"
    BY DEF Afterwards, Vllm, SpawnCore, BecomeReady, Die, Behind, InstallHandlers, Answered,
        NeverReady, Abort, Shutdown, Reap, KillGroup, Sweep, DirectEnds, ProxyFails,
        SignalHandled, SignalProxy
  <1>2. /\ sidecar' = sidecar \/ (sidecar = "up" /\ sidecar' = "stopped")
        /\ pc' = "exited" => sidecar' # "up"
    BY DEF Afterwards, StopsSidecar, Over
  <1> QED
    BY <1>1, <1>2 DEF Afterwards, LaunchInv, PhaseOK, SidecarIsEndpoint

LEMMA KilledInv == ASSUME LaunchInv, Killed PROVE LaunchInv'
  BY DEF Killed, SignalDeadly, StopsSidecar, Forget, LaunchInv, PhaseOK, SidecarIsEndpoint,
         NoJob, Fields, Over

LEMMA InterruptedInv == ASSUME LaunchInv, Interrupted PROVE LaunchInv'
  BY DEF Interrupted, InterruptDirect, StopsSidecar, LaunchInv, PhaseOK, SidecarIsEndpoint, Over

LEMMA LaunchInvStep ==
    ASSUME LaunchAssumption, LaunchInv, [LaunchNext]_launchVars PROVE LaunchInv'
  <1>1. CASE LaunchStep
    <2>1. CASE NoArguments \/ SidecarFails \/ PortOverflows
      <3>1. GiveUp
        BY <2>1 DEF NoArguments, SidecarFails, PortOverflows
      <3> QED
        BY <3>1, GiveUpInv
    <2>2. CASE Parse \/ SpawnSidecar \/ NoSidecar \/ Detect
      BY <2>2, ParseInv, SidecarInv, DetectInv
    <2>3. CASE CommandDirect \/ CommandBehindProxy \/ StartVllm
      BY <2>3, CommandInv, StartVllmInv
    <2> QED
      BY <1>1, <2>1, <2>2, <2>3 DEF LaunchStep
  <1>2. CASE Afterwards \/ Killed \/ Interrupted
    BY <1>2, AfterwardsInv, KilledInv, InterruptedInv
  <1>3. CASE UNCHANGED launchVars
    BY <1>3 DEF launchVars, launchOnly, serveVars, LaunchInv, PhaseOK, SidecarIsEndpoint
  <1> QED
    BY <1>1, <1>2, <1>3 DEF LaunchNext

\* For any arguments and surroundings, a sidecar serves a proxy, and a serve
\* that returns has stopped it.
THEOREM SidecarAlwaysTied == LaunchSpec => []SidecarTied
  <1>1. LaunchInv => SidecarTied
    BY LaunchAssumption DEF LaunchInv, SidecarIsEndpoint, SidecarTied, ProxySettings,
        LaunchAssumption
  <1> QED
    BY <1>1, LaunchInvInit, LaunchInvStep, LaunchAssumption, PTL DEF LaunchSpec

-----------------------------------------------------------------------------
(* What serve makes of its arguments: With and Without, option by option   *)

Keeps(S, flags) == [o \in S |-> IF o.flag \in flags THEN <<o>> ELSE <<>>]
Drops(S, flags) == [o \in S |-> IF o.flag \in flags THEN <<>> ELSE <<o>>]

LEMMA EachOption ==
    ASSUME NEW S, NEW flags
    PROVE  /\ Keeps(S, flags) \in Each(S, Seq(S))
           /\ Drops(S, flags) \in Each(S, Seq(S))
  <1>1. \A o \in S : <<o>> \in Seq(S) /\ <<>> \in Seq(S)
    OBVIOUS
  <1> QED
    BY <1>1 DEF Keeps, Drops, Each

LEMMA OptionByOption ==
    ASSUME NEW S, NEW s \in Seq(S), NEW flags
    PROVE  /\ With(s, flags) = FlatMap(Keeps(S, flags), s) /\ With(s, flags) \in Seq(S)
           /\ Without(s, flags) = FlatMap(Drops(S, flags), s) /\ Without(s, flags) \in Seq(S)
  <1>1. \A i \in DOMAIN s : s[i] \in S
    OBVIOUS
  <1>2. /\ [i \in DOMAIN s |-> IF s[i].flag \in flags THEN <<s[i]>> ELSE <<>>]
               = Map(Keeps(S, flags), s)
        /\ [i \in DOMAIN s |-> IF s[i].flag \in flags THEN <<>> ELSE <<s[i]>>]
               = Map(Drops(S, flags), s)
    BY <1>1 DEF Keeps, Drops, Map
  <1>3. /\ With(s, flags) = FlatMap(Keeps(S, flags), s)
        /\ Without(s, flags) = FlatMap(Drops(S, flags), s)
    BY <1>2 DEF With, Without, FlatMap
  <1> QED
    BY <1>3, EachOption, FlatMapType

LEMMA WithConcat ==
    ASSUME NEW S, NEW s \in Seq(S), NEW t \in Seq(S), NEW flags
    PROVE  With(s \o t, flags) = With(s, flags) \o With(t, flags)
  <1>1. PICK u \in Seq(S) : u = s \o t
    BY ConcatProperties, Zenon
  <1>2. PICK k \in Each(S, Seq(S)) : k = Keeps(S, flags)
    BY EachOption
  <1>3. FlatMap(k, s \o t) = FlatMap(k, s) \o FlatMap(k, t)
    BY FlatMapConcat
  <1> QED
    BY <1>1, <1>2, <1>3, OptionByOption, Zenon

LEMMA WithJoint ==
    ASSUME NEW S, NEW s \in Seq(S), NEW t \in Seq(S), NEW u, IsJoint(u, s, t), NEW flags
    PROVE  With(u, flags) = With(s, flags) \o With(t, flags)
  <1>1. u = s \o t
    BY DEF IsJoint
  <1>2. With(s \o t, flags) = With(s, flags) \o With(t, flags)
    BY WithConcat
  <1> QED
    BY <1>1, <1>2, Zenon

LEMMA WithNone == ASSUME NEW flags PROVE With(<<>>, flags) = <<>>
  <1>1. PICK e \in Seq({1}) : e = <<>>
    BY NoneYet
  <1> QED
    BY <1>1, OptionByOption, FlatMapEmpty, Zenon

LEMMA WithOne ==
    ASSUME NEW S, NEW o \in S, NEW flags
    PROVE  With(<<o>>, flags) = IF o.flag \in flags THEN <<o>> ELSE <<>>
  <1>1. PICK one \in Seq(S) : one = <<o>>
    BY OneElement
  <1>2. FlatMap(Keeps(S, flags), <<o>>) = Keeps(S, flags)[o]
    BY EachOption, FlatMapOne
  <1>3. With(<<o>>, flags) = Keeps(S, flags)[o]
    BY <1>1, <1>2, OptionByOption, Zenon
  <1> QED
    BY <1>3 DEF Keeps

\* What is taken out is not there any more, and the rest is there as before.
LEMMA WithWithout ==
    ASSUME NEW S, NEW s \in Seq(S), NEW flags, NEW others
    PROVE  /\ flags \cap others = {} => With(Without(s, others), flags) = With(s, flags)
           /\ flags \subseteq others => With(Without(s, others), flags) = <<>>
  <1> DEFINE k == Keeps(S, flags)
             d == Drops(S, others)
  <1>1. k \in Each(S, Seq(S)) /\ d \in Each(S, Seq(S))
    BY EachOption
  <1>2. \A o \in S : d[o] = IF o.flag \in others THEN <<>> ELSE <<o>>
    BY DEF Drops
  <1>3. \A o \in S : k[o] = IF o.flag \in flags THEN <<o>> ELSE <<>>
    BY DEF Keeps
  <1>4. With(Without(s, others), flags) = FlatMap(k, FlatMap(d, s))
    <2>1. PICK r \in Seq(S) : r = Without(s, others) /\ r = FlatMap(d, s)
      BY OptionByOption
    <2>2. With(r, flags) = FlatMap(k, r)
      BY OptionByOption
    <2> QED
      BY <2>1, <2>2
  <1>5. With(s, flags) = FlatMap(k, s)
    BY OptionByOption
  <1> HIDE DEF k, d
  <1>6. ASSUME NEW o \in S
        PROVE  FlatMap(k, d[o]) = IF o.flag \in others THEN <<>> ELSE k[o]
    <2>1. FlatMap(k, <<>>) = <<>>
      BY FlatMapEmpty
    <2>2. FlatMap(k, <<o>>) = k[o]
      BY <1>1, FlatMapOne
    <2> QED
      BY <1>2, <2>1, <2>2, Zenon
  <1>7. ASSUME flags \cap others = {} PROVE FlatMap(k, FlatMap(d, s)) = FlatMap(k, s)
    <2>1. \A o \in S : FlatMap(k, d[o]) = k[o]
      BY <1>3, <1>6, <1>7
    <2> QED
      BY <1>1, <2>1, FlatMapTwice, SMTT(30)
  <1>8. ASSUME flags \subseteq others PROVE FlatMap(k, FlatMap(d, s)) = <<>>
    <2> DEFINE n == [o \in S |-> <<>>]
    <2>1. n \in Each(S, Seq(S)) /\ \A o \in S : n[o] = <<>>
      <3>1. <<>> \in Seq(S)
        OBVIOUS
      <3> QED
        BY <3>1 DEF Each
    <2> HIDE DEF n
    <2>2. \A o \in S : FlatMap(k, d[o]) = n[o]
      BY <1>3, <1>6, <1>8, <2>1
    <2>3. FlatMap(k, FlatMap(d, s)) = FlatMap(n, s)
      BY <1>1, <2>1, <2>2, FlatMapTwice, SMTT(30)
    <2>4. FlatMap(n, s) = <<>>
      BY <2>1, FlatMapNone, SMTT(30)
    <2> QED
      BY <2>3, <2>4
  <1> QED
    BY <1>4, <1>5, <1>7, <1>8

\* An option that is given is found.
LEMMA WithHas ==
    ASSUME NEW S, NEW s \in Seq(S), NEW i \in DOMAIN s, NEW flags, s[i].flag \in flags
    PROVE  With(s, flags) # <<>>
  <1>1. i \in 1 .. Len(s) /\ s[i] \in S
    OBVIOUS
  <1>2. Keeps(S, flags)[s[i]] # <<>>
    BY <1>1 DEF Keeps
  <1>3. FlatMap(Keeps(S, flags), s) # <<>>
    BY <1>1, <1>2, EachOption, FlatMapSome
  <1> QED
    BY <1>3, OptionByOption

\* What is found was given.
LEMMA WithFrom ==
    ASSUME NEW S, NEW s \in Seq(S), NEW flags, NEW R,
           \A i \in DOMAIN s : s[i].flag \in flags => s[i] \in R
    PROVE  With(s, flags) \in Seq(R)
  <1>1. ASSUME NEW i \in 1 .. Len(s) PROVE Keeps(S, flags)[s[i]] \in Seq(R)
    <2>1. s[i] \in S /\ i \in DOMAIN s
      OBVIOUS
    <2>2. CASE s[i].flag \in flags
      <3>1. Keeps(S, flags)[s[i]] = <<s[i]>> /\ s[i] \in R
        BY <2>1, <2>2 DEF Keeps
      <3>2. PICK x \in R : x = s[i]
        BY <3>1
      <3>3. <<x>> \in Seq(R)
        OBVIOUS
      <3> QED
        BY <3>1, <3>2, <3>3
    <2>3. CASE s[i].flag \notin flags
      <3>1. Keeps(S, flags)[s[i]] = <<>>
        BY <2>1, <2>3 DEF Keeps
      <3> QED
        BY <3>1
    <2> QED
      BY <2>2, <2>3
  <1>2. FlatMap(Keeps(S, flags), s) \in Seq(R)
    BY <1>1, EachOption, FlatMapFrom
  <1> QED
    BY <1>2, OptionByOption

-----------------------------------------------------------------------------
(* The detectors' tables                                                   *)

\* A prefix as the tables have them.
IsName(p) == p = <<p[1]>> \/ p = <<p[1], p[2]>> \/ p = <<p[1], p[2], p[3]>>

LEMMA NameBegins ==
    ASSUME NEW T, NEW arch \in Seq(T), NEW p, IsName(p), IsPrefix(p, arch)
    PROVE  p[1] = arch[1] /\ (Len(p) = 2 => p[2] = arch[2])
  <1>1. PICK x, y, z, S : x = p[1] /\ y = p[2] /\ z = p[3] /\ S = T \cup {x, y, z}
    OBVIOUS
  <1>2. /\ <<x>> \in Seq(S) /\ <<x, y>> \in Seq(S) /\ <<x, y, z>> \in Seq(S)
        /\ Len(<<x>>) \in 1 .. 3 /\ Len(<<x, y>>) \in 1 .. 3 /\ Len(<<x, y, z>>) \in 1 .. 3
    BY <1>1
  <1>3. p \in Seq(S) /\ Len(p) \in 1 .. 3
    <2>1. p = <<x>> \/ p = <<x, y>> \/ p = <<x, y, z>>
      BY <1>1, Zenon DEF IsName
    <2>2. CASE p = <<x>>
      BY <1>2, <2>2, Zenon
    <2>3. CASE p = <<x, y>>
      BY <1>2, <2>3, Zenon
    <2>4. CASE p = <<x, y, z>>
      BY <1>2, <2>4, Zenon
    <2> QED
      BY <2>1, <2>2, <2>3, <2>4
  <1>4. arch \in Seq(S)
    <2>1. T \subseteq S
      BY <1>1
    <2> QED
      BY <2>1, SeqMonotonic
  <1>5. \A i \in 1 .. Len(p) : p[i] = arch[i]
    BY <1>3, <1>4, PrefixIs
  <1> QED
    BY <1>3, <1>5

\* The first rows that fit any architecture of DeepSeek ...
LEMMA EarlierToolRows ==
    \A i \in 1 .. 11 : \A p \in ToolArchs[i].prefixes : IsName(p) /\ p[1] # "Deepseek"
  <1>1. ASSUME NEW i \in 1 .. 11, NEW p \in ToolArchs[i].prefixes PROVE p[1] # "Deepseek"
    BY <1>1, SMTT(30) DEF ToolArchs, Row
  <1>2. ASSUME NEW i \in 1 .. 11, NEW p \in ToolArchs[i].prefixes PROVE IsName(p)
    BY <1>2, SMTT(30) DEF ToolArchs, Row, IsName
  <1> QED
    BY <1>1, <1>2

LEMMA DeepseekToolRows ==
    /\ DOMAIN ToolArchs = 1 .. 34
    /\ ToolArchs[12] = Row("deepseek_v3", {<<"Deepseek", "V4">>})
    /\ ToolArchs[13] = Row("deepseek_v32", {<<"Deepseek", "V3", "2">>})
    /\ ToolArchs[14] = Row("deepseek_v31", {<<"Deepseek", "V3", "1">>})
    /\ ToolArchs[15] = Row("deepseek_v3", {<<"Deepseek", "V3">>, <<"Deepseek", "V2">>})
  BY DEF ToolArchs

LEMMA DeepseekReasoningRows ==
    /\ DOMAIN ReasoningArchs = 1 .. 19
    /\ ReasoningArchs[1] = Row("deepseek_r1", {<<"Deepseek", "R1">>})
    /\ ReasoningArchs[2] = Row("deepseek_v3", {<<"Deepseek", "V4">>, <<"Deepseek", "V3">>, <<"Deepseek", "V2">>})
  BY DEF ReasoningArchs

LEMMA NemotronToolRows ==
    /\ \A i \in 1 .. 2 : \A p \in ToolArchs[i].prefixes : IsName(p) /\ p[1] # "Nemotron"
    /\ ToolArchs[3] = Row("qwen3_coder", {<<"Nemotron">>})
  <1>1. \A i \in 1 .. 2 : \A p \in ToolArchs[i].prefixes : IsName(p)
    BY EarlierToolRows
  <1>2. \A i \in 1 .. 2 : \A p \in ToolArchs[i].prefixes : p[1] # "Nemotron"
    BY SMTT(30) DEF ToolArchs, Row
  <1>3. ToolArchs[3] = Row("qwen3_coder", {<<"Nemotron">>})
    BY DEF ToolArchs
  <1> QED
    BY <1>1, <1>2, <1>3

\* Ahead of the rows of Kimi there is no other of its models.
LEMMA RowsBeforeKimi ==
    /\ \A i \in 1 .. 20 : \A p \in ToolArchs[i].prefixes : IsName(p) /\ p[1] # "Kimi"
    /\ \A i \in 1 .. 9 : \A p \in ReasoningArchs[i].prefixes : IsName(p) /\ p[1] # "Kimi"
    /\ ToolArchs[21] = Row("kimi_k2", {<<"Kimi">>})
    /\ ReasoningArchs[10] = Row("kimi_k2", {<<"Kimi">>})
  <1>1. ASSUME NEW i \in 1 .. 20, NEW p \in ToolArchs[i].prefixes PROVE p[1] # "Kimi"
    BY <1>1, SMTT(60) DEF ToolArchs, Row
  <1>2. ASSUME NEW i \in 1 .. 20, NEW p \in ToolArchs[i].prefixes PROVE IsName(p)
    BY <1>2, SMTT(60) DEF ToolArchs, Row, IsName
  <1>3. ASSUME NEW i \in 1 .. 9, NEW p \in ReasoningArchs[i].prefixes PROVE p[1] # "Kimi"
    BY <1>3, SMTT(60) DEF ReasoningArchs, Row
  <1>4. ASSUME NEW i \in 1 .. 9, NEW p \in ReasoningArchs[i].prefixes PROVE IsName(p)
    BY <1>4, SMTT(60) DEF ReasoningArchs, Row, IsName
  <1>5. ToolArchs[21] = Row("kimi_k2", {<<"Kimi">>})
    BY DEF ToolArchs
  <1>6. ReasoningArchs[10] = Row("kimi_k2", {<<"Kimi">>})
    BY DEF ReasoningArchs
  <1> QED
    BY <1>1, <1>2, <1>3, <1>4, <1>5, <1>6

\* The rows whose parser is Kimi's, or may be refined to it.
LEMMA KimiParsers ==
    /\ \A i \in 1 .. 34 : ToolArchs[i].parser = "kimi_k2" => i = 21
    /\ \A i \in 1 .. 34 : ToolArchs[i].parser = "deepseek_v3" => i = 12 \/ i = 15
    /\ \A i \in 1 .. 19 : ReasoningArchs[i].parser = "kimi_k2" => i = 10
    /\ \A i \in 1 .. 19 : ReasoningArchs[i].parser = "deepseek_v3" => i = 2
  <1>1. \A i \in 1 .. 34 : ToolArchs[i].parser = "kimi_k2" => i = 21
    BY SMTT(60) DEF ToolArchs, Row
  <1>2. \A i \in 1 .. 34 : ToolArchs[i].parser = "deepseek_v3" => i = 12 \/ i = 15
    BY SMTT(60) DEF ToolArchs, Row
  <1>3. \A i \in 1 .. 19 : ReasoningArchs[i].parser = "kimi_k2" => i = 10
    BY SMTT(60) DEF ReasoningArchs, Row
  <1>4. \A i \in 1 .. 19 : ReasoningArchs[i].parser = "deepseek_v3" => i = 2
    BY SMTT(60) DEF ReasoningArchs, Row
  <1> QED
    BY <1>1, <1>2, <1>3, <1>4

\* The first row that fits wins.
LEMMA FirstRow ==
    ASSUME NEW n \in Nat, NEW rows, DOMAIN rows = 1 .. n, NEW arch, NEW k \in 1 .. n,
           StartsWith(arch, rows[k].prefixes),
           \A i \in 1 .. n : i < k => ~StartsWith(arch, rows[i].prefixes)
    PROVE  OfArch(arch, rows) = rows[k].parser
  <1> DEFINE fits == {i \in DOMAIN rows : StartsWith(arch, rows[i].prefixes)}
  <1>1. fits \in SUBSET Nat /\ k \in fits
    OBVIOUS
  <1>2. \A i \in fits : k <= i
    <2>1. \A i \in fits : i \in 1 .. n /\ StartsWith(arch, rows[i].prefixes)
      OBVIOUS
    <2> HIDE DEF fits
    <2> QED
      BY <2>1
  <1>3. OfArch(arch, rows) = IF fits = {} THEN "" ELSE rows[Min(fits)].parser
    BY DEF OfArch, FirstIn
  <1> HIDE DEF fits
  <1>4. PICK m \in fits : m = Min(fits) /\ m <= k
    BY <1>1, MinIsLeast
  <1>5. m \in Nat /\ k \in Nat /\ k <= m
    BY <1>1, <1>2
  <1>6. m = k
    BY <1>4, <1>5
  <1> QED
    BY <1>1, <1>3, <1>4, <1>6

LEMMA FirstToolRow ==
    ASSUME NEW arch, NEW k \in 1 .. 34, StartsWith(arch, ToolArchs[k].prefixes),
           \A i \in 1 .. 34 : i < k => ~StartsWith(arch, ToolArchs[i].prefixes)
    PROVE  OfArch(arch, ToolArchs) = ToolArchs[k].parser
  <1>1. DOMAIN ToolArchs = 1 .. 34 /\ 34 \in Nat
    BY DeepseekToolRows
  <1> QED
    BY <1>1, FirstRow

LEMMA FirstReasoningRow ==
    ASSUME NEW arch, NEW k \in 1 .. 19, StartsWith(arch, ReasoningArchs[k].prefixes),
           \A i \in 1 .. 19 : i < k => ~StartsWith(arch, ReasoningArchs[i].prefixes)
    PROVE  OfArch(arch, ReasoningArchs) = ReasoningArchs[k].parser
  <1>1. DOMAIN ReasoningArchs = 1 .. 19 /\ 19 \in Nat
    BY DeepseekReasoningRows
  <1> QED
    BY <1>1, FirstRow

LEMMA DeepseekTools ==
    ASSUME NEW T, NEW arch \in Seq(T),
           StartsWith(arch, {<<"Deepseek", "V4">>, <<"Deepseek", "V3">>, <<"Deepseek", "V2">>}),
           ~StartsWith(arch, {<<"Deepseek", "V3", "1">>, <<"Deepseek", "V3", "2">>})
    PROVE  OfArch(arch, ToolArchs) = "deepseek_v3"
  <1>1. PICK p \in {<<"Deepseek", "V4">>, <<"Deepseek", "V3">>, <<"Deepseek", "V2">>} : IsPrefix(p, arch)
    BY DEF StartsWith
  <1>2. IsName(p) /\ p[1] = "Deepseek"
    BY DEF IsName
  <1>3. arch[1] = "Deepseek"
    BY <1>1, <1>2, NameBegins, Zenon
  <1>4. ASSUME NEW i \in 1 .. 11 PROVE ~StartsWith(arch, ToolArchs[i].prefixes)
    <2>1. \A q \in ToolArchs[i].prefixes : IsName(q) /\ q[1] # "Deepseek"
      BY EarlierToolRows
    <2>2. \A q \in ToolArchs[i].prefixes : ~IsPrefix(q, arch)
      BY <1>3, <2>1, NameBegins, Zenon
    <2> QED
      BY <2>2 DEF StartsWith
  <1>5. ~StartsWith(arch, ToolArchs[13].prefixes) /\ ~StartsWith(arch, ToolArchs[14].prefixes)
    <2>1. /\ ToolArchs[13].prefixes = {<<"Deepseek", "V3", "2">>}
          /\ ToolArchs[14].prefixes = {<<"Deepseek", "V3", "1">>}
      BY DeepseekToolRows DEF Row
    <2> QED
      BY <2>1 DEF StartsWith
  <1>6. OfArch(arch, ToolArchs) = "deepseek_v3"
    <2>0. 12 \in 1 .. 34 /\ 15 \in 1 .. 34
      OBVIOUS
    <2>1. CASE StartsWith(arch, ToolArchs[12].prefixes)
      <3>1. \A i \in 1 .. 34 : i < 12 => ~StartsWith(arch, ToolArchs[i].prefixes)
        BY <1>4
      <3>2. OfArch(arch, ToolArchs) = ToolArchs[12].parser
        BY <2>0, <2>1, <3>1, FirstToolRow
      <3> QED
        BY <3>2, DeepseekToolRows DEF Row
    <2>2. CASE ~StartsWith(arch, ToolArchs[12].prefixes)
      <3>1. \A i \in 1 .. 34 : i < 15 => ~StartsWith(arch, ToolArchs[i].prefixes)
        <4>1. \A i \in 1 .. 34 : i < 15 => i \in 1 .. 11 \/ i = 12 \/ i = 13 \/ i = 14
          OBVIOUS
        <4> QED
          BY <1>4, <1>5, <2>2, <4>1, Zenon
      <3>2. StartsWith(arch, ToolArchs[15].prefixes)
        BY <1>1, <2>2, DeepseekToolRows DEF StartsWith, Row
      <3>3. OfArch(arch, ToolArchs) = ToolArchs[15].parser
        BY <2>0, <3>1, <3>2, FirstToolRow
      <3> QED
        BY <3>3, DeepseekToolRows DEF Row
    <2> QED
      BY <2>1, <2>2
  <1> QED
    BY <1>6

LEMMA DeepseekReasonings ==
    ASSUME NEW T, NEW arch \in Seq(T),
           StartsWith(arch, {<<"Deepseek", "V4">>, <<"Deepseek", "V3">>, <<"Deepseek", "V2">>})
    PROVE  OfArch(arch, ReasoningArchs) = "deepseek_v3"
  <1>1. PICK p \in {<<"Deepseek", "V4">>, <<"Deepseek", "V3">>, <<"Deepseek", "V2">>} : IsPrefix(p, arch)
    BY DEF StartsWith
  <1>2. IsName(p) /\ p[1] = "Deepseek"
    BY DEF IsName
  <1>3. ~IsPrefix(<<"Deepseek", "R1">>, arch)
    <2>1. SUFFICES ASSUME IsPrefix(<<"Deepseek", "R1">>, arch) PROVE FALSE
      OBVIOUS
    <2>2. PICK r : r = <<"Deepseek", "R1">> /\ IsPrefix(r, arch)
      BY <2>1
    <2>3. IsName(r) /\ Len(r) = 2 /\ r[2] = "R1" /\ Len(p) = 2 /\ p[2] # "R1"
      BY <2>2 DEF IsName
    <2>4. r[2] = arch[2] /\ p[2] = arch[2]
      BY <1>1, <1>2, <2>2, <2>3, NameBegins, Zenon
    <2> QED
      BY <2>3, <2>4
  <1>0. 2 \in 1 .. 19
    OBVIOUS
  <1>4. \A i \in 1 .. 19 : i < 2 => ~StartsWith(arch, ReasoningArchs[i].prefixes)
    <2>1. \A i \in 1 .. 19 : i < 2 => i = 1
      OBVIOUS
    <2>2. ReasoningArchs[1].prefixes = {<<"Deepseek", "R1">>}
      BY DeepseekReasoningRows DEF Row
    <2> QED
      BY <1>3, <2>1, <2>2 DEF StartsWith
  <1>5. StartsWith(arch, ReasoningArchs[2].prefixes)
    BY DeepseekReasoningRows DEF Row
  <1>6. OfArch(arch, ReasoningArchs) = ReasoningArchs[2].parser
    BY <1>0, <1>4, <1>5, FirstReasoningRow
  <1> QED
    BY <1>6, DeepseekReasoningRows DEF Row

\* No model whose thinking leaks has a parser that leaks calls.
LEMMA NemotronRows ==
    ASSUME NEW T, NEW arch \in Seq(T), NeedsRewrite(arch)
    PROVE  OfArch(arch, ToolArchs) = "qwen3_coder"
  <1>1. IsPrefix(<<"Nemotron">>, arch)
    BY DEF NeedsRewrite, StartsWith
  <1>2. arch[1] = "Nemotron"
    <2>1. PICK p : p = <<"Nemotron">>
      OBVIOUS
    <2>2. IsName(p) /\ p[1] = "Nemotron"
      BY <2>1 DEF IsName
    <2> QED
      BY <1>1, <2>1, <2>2, NameBegins, Zenon
  <1>3. ASSUME NEW i \in 1 .. 2 PROVE ~StartsWith(arch, ToolArchs[i].prefixes)
    <2>1. \A q \in ToolArchs[i].prefixes : IsName(q) /\ q[1] # "Nemotron"
      BY NemotronToolRows
    <2>2. \A q \in ToolArchs[i].prefixes : ~IsPrefix(q, arch)
      BY <1>2, <2>1, NameBegins, Zenon
    <2> QED
      BY <2>2 DEF StartsWith
  <1>4. StartsWith(arch, ToolArchs[3].prefixes)
    BY <1>1, NemotronToolRows DEF StartsWith, Row
  <1>0. 3 \in 1 .. 34
    OBVIOUS
  <1>5. \A i \in 1 .. 34 : i < 3 => ~StartsWith(arch, ToolArchs[i].prefixes)
    BY <1>3
  <1>6. OfArch(arch, ToolArchs) = ToolArchs[3].parser
    BY <1>0, <1>4, <1>5, FirstToolRow
  <1> QED
    BY <1>6, NemotronToolRows DEF Row

\* A parser comes from a row that fits.
LEMMA FirstInIsOfARow ==
    ASSUME NEW rows, NEW fits \in SUBSET Nat, FirstIn(rows, fits) # ""
    PROVE  \E i \in fits : FirstIn(rows, fits) = rows[i].parser
  <1>1. FirstIn(rows, fits) = IF fits = {} THEN "" ELSE rows[Min(fits)].parser
    BY DEF FirstIn
  <1>2. fits # {}
    BY <1>1
  <1>3. PICK k \in fits : TRUE
    BY <1>2
  <1>4. Min(fits) \in fits
    BY <1>3, MinIsLeast
  <1> QED
    BY <1>1, <1>2, <1>4

LEMMA NoKimiTemplate ==
    ASSUME NEW template
    PROVE  OfTemplate(template, ToolTemplates) # "kimi_k2" /\ OfTemplate(template, ReasoningTemplates) # "kimi_k2"
  <1>1. /\ DOMAIN ToolTemplates = 1 .. 13 /\ DOMAIN ReasoningTemplates = 1 .. 4
    BY DEF ToolTemplates, ReasoningTemplates
  <1>2. \A i \in 1 .. 13 : ToolTemplates[i].parser # "kimi_k2"
    BY SMTT(60) DEF ToolTemplates, Row
  <1>3. \A i \in 1 .. 4 : ReasoningTemplates[i].parser # "kimi_k2"
    BY SMTT(60) DEF ReasoningTemplates, Row
  <1>4. OfTemplate(template, ToolTemplates) # "kimi_k2"
    <2> DEFINE fits == {i \in DOMAIN ToolTemplates : ToolTemplates[i].prefixes \cap template # {}}
    <2>1. OfTemplate(template, ToolTemplates) = FirstIn(ToolTemplates, fits)
      BY DEF OfTemplate
    <2>2. fits \in SUBSET Nat /\ \A i \in fits : i \in 1 .. 13
      BY <1>1
    <2>3. "kimi_k2" # ""
      OBVIOUS
    <2> HIDE DEF fits
    <2> QED
      BY <1>2, <2>1, <2>2, <2>3, FirstInIsOfARow
  <1>5. OfTemplate(template, ReasoningTemplates) # "kimi_k2"
    <2> DEFINE fits == {i \in DOMAIN ReasoningTemplates : ReasoningTemplates[i].prefixes \cap template # {}}
    <2>1. OfTemplate(template, ReasoningTemplates) = FirstIn(ReasoningTemplates, fits)
      BY DEF OfTemplate
    <2>2. fits \in SUBSET Nat /\ \A i \in fits : i \in 1 .. 4
      BY <1>1
    <2>3. "kimi_k2" # ""
      OBVIOUS
    <2> HIDE DEF fits
    <2> QED
      BY <1>3, <2>1, <2>2, <2>3, FirstInIsOfARow
  <1> QED
    BY <1>4, <1>5

LEMMA UpToIsNatural == \A n \in Nat : \A i \in 1 .. n : i \in Nat
  OBVIOUS

LEMMA ArchRow ==
    ASSUME NEW arch, NEW n \in Nat, NEW rows, DOMAIN rows = 1 .. n, OfArch(arch, rows) # ""
    PROVE  \E i \in 1 .. n : StartsWith(arch, rows[i].prefixes) /\ OfArch(arch, rows) = rows[i].parser
  <1> DEFINE fits == {i \in DOMAIN rows : StartsWith(arch, rows[i].prefixes)}
  <1>1. fits \in SUBSET Nat
    <2>1. fits \subseteq DOMAIN rows
      OBVIOUS
    <2> HIDE DEF fits
    <2> QED
      BY <2>1, UpToIsNatural
  <1>2. OfArch(arch, rows) = FirstIn(rows, fits)
    BY DEF OfArch
  <1>3. \A i \in fits : i \in 1 .. n /\ StartsWith(arch, rows[i].prefixes)
    OBVIOUS
  <1> HIDE DEF fits
  <1>4. PICK i \in fits : FirstIn(rows, fits) = rows[i].parser
    BY <1>1, <1>2, FirstInIsOfARow
  <1> QED
    BY <1>2, <1>3, <1>4

LEMMA KimiRows ==
    ASSUME NEW T, NEW arch \in Seq(T), StartsWith(arch, {<<"Kimi">>})
    PROVE  OfArch(arch, ToolArchs) = "kimi_k2" /\ OfArch(arch, ReasoningArchs) = "kimi_k2"
  <1>1. IsPrefix(<<"Kimi">>, arch)
    BY DEF StartsWith
  <1>2. arch[1] = "Kimi"
    <2>1. PICK p : p = <<"Kimi">>
      OBVIOUS
    <2>2. IsName(p) /\ p[1] = "Kimi"
      BY <2>1 DEF IsName
    <2> QED
      BY <1>1, <2>1, <2>2, NameBegins, Zenon
  <1>3. ASSUME NEW i \in 1 .. 20 PROVE ~StartsWith(arch, ToolArchs[i].prefixes)
    <2>1. \A q \in ToolArchs[i].prefixes : IsName(q) /\ q[1] # "Kimi"
      BY RowsBeforeKimi
    <2>2. \A q \in ToolArchs[i].prefixes : ~IsPrefix(q, arch)
      BY <1>2, <2>1, NameBegins, Zenon
    <2> QED
      BY <2>2 DEF StartsWith
  <1>4. ASSUME NEW i \in 1 .. 9 PROVE ~StartsWith(arch, ReasoningArchs[i].prefixes)
    <2>1. \A q \in ReasoningArchs[i].prefixes : IsName(q) /\ q[1] # "Kimi"
      BY RowsBeforeKimi
    <2>2. \A q \in ReasoningArchs[i].prefixes : ~IsPrefix(q, arch)
      BY <1>2, <2>1, NameBegins, Zenon
    <2> QED
      BY <2>2 DEF StartsWith
  <1>5. StartsWith(arch, ToolArchs[21].prefixes) /\ StartsWith(arch, ReasoningArchs[10].prefixes)
    BY RowsBeforeKimi DEF Row
  <1>6. OfArch(arch, ToolArchs) = ToolArchs[21].parser
    <2>1. 21 \in 1 .. 34 /\ \A i \in 1 .. 34 : i < 21 => ~StartsWith(arch, ToolArchs[i].prefixes)
      BY <1>3
    <2> QED
      BY <1>5, <2>1, FirstToolRow
  <1>7. OfArch(arch, ReasoningArchs) = ReasoningArchs[10].parser
    <2>1. /\ 10 \in 1 .. 19
          /\ \A i \in 1 .. 19 : i < 10 => ~StartsWith(arch, ReasoningArchs[i].prefixes)
      BY <1>4
    <2> QED
      BY <1>5, <2>1, FirstReasoningRow
  <1> QED
    BY <1>6, <1>7, RowsBeforeKimi DEF Row

\* The architectures of which either detector may make a Kimi model.
Deepseeks == {<<"Deepseek", "V4">>, <<"Deepseek", "V3">>, <<"Deepseek", "V2">>}

LEMMA KimiArchs ==
    ASSUME NEW arch
    PROVE  /\ OfArch(arch, ToolArchs) = "kimi_k2" => StartsWith(arch, {<<"Kimi">>})
           /\ OfArch(arch, ToolArchs) = "deepseek_v3" => StartsWith(arch, Deepseeks)
           /\ OfArch(arch, ReasoningArchs) = "kimi_k2" => StartsWith(arch, {<<"Kimi">>})
           /\ OfArch(arch, ReasoningArchs) = "deepseek_v3" => StartsWith(arch, Deepseeks)
  <1>1. /\ OfArch(arch, ToolArchs) # "" =>
              \E i \in 1 .. 34 : /\ StartsWith(arch, ToolArchs[i].prefixes)
                                 /\ OfArch(arch, ToolArchs) = ToolArchs[i].parser
        /\ OfArch(arch, ReasoningArchs) # "" =>
              \E i \in 1 .. 19 : /\ StartsWith(arch, ReasoningArchs[i].prefixes)
                                 /\ OfArch(arch, ReasoningArchs) = ReasoningArchs[i].parser
    <2>1. PICK n \in Nat, m \in Nat : n = 34 /\ m = 19
      OBVIOUS
    <2>2. DOMAIN ToolArchs = 1 .. n /\ DOMAIN ReasoningArchs = 1 .. m
      BY <2>1, DeepseekToolRows, DeepseekReasoningRows
    <2>3. OfArch(arch, ToolArchs) # "" =>
            \E i \in 1 .. n : /\ StartsWith(arch, ToolArchs[i].prefixes)
                              /\ OfArch(arch, ToolArchs) = ToolArchs[i].parser
      BY <2>2, ArchRow, Zenon
    <2>4. OfArch(arch, ReasoningArchs) # "" =>
            \E i \in 1 .. m : /\ StartsWith(arch, ReasoningArchs[i].prefixes)
                              /\ OfArch(arch, ReasoningArchs) = ReasoningArchs[i].parser
      BY <2>2, ArchRow, Zenon
    <2> QED
      BY <2>1, <2>3, <2>4
  <1>2. /\ ToolArchs[21].prefixes = {<<"Kimi">>} /\ ReasoningArchs[10].prefixes = {<<"Kimi">>}
        /\ ToolArchs[12].prefixes \subseteq Deepseeks /\ ToolArchs[15].prefixes \subseteq Deepseeks
        /\ ReasoningArchs[2].prefixes = Deepseeks
    BY RowsBeforeKimi, DeepseekToolRows, DeepseekReasoningRows DEF Row, Deepseeks
  <1>3. \A P : P \subseteq Deepseeks /\ StartsWith(arch, P) => StartsWith(arch, Deepseeks)
    BY DEF StartsWith
  <1> QED
    BY <1>1, <1>2, <1>3, KimiParsers

-----------------------------------------------------------------------------
(* The command and the settings                                            *)

Named == Head(args).flag = Positional
Given == IF Named THEN Tail(args) ELSE args

\* What serve was called with, until the launch is over.
ArgsFit ==
    phase # "over" =>
        /\ args \in Seq(Options)
        /\ \A i \in DOMAIN args :
              args[i].flag \in {Positional, "--model"} /\ args[i].text # ""
                  => args[i].text \in DOMAIN env.dirs
        /\ \A m \in DOMAIN env.dirs : env.dirs[m].arch \in Seq(STRING)

\* What Parse has made of the arguments stays as it is.
JobFits ==
    phase \in {"parsed", "retrieval", "detected", "ready"} =>
        /\ args # <<>>
        /\ job.passthrough = Without(Given, OwnFlags)
        /\ job.model = IF Named THEN Head(args).text ELSE ExtractModel(args)
        /\ job.extra = IF Named THEN <<Option("--model", job.model, NoNumber)>> ELSE <<>>
        /\ phase # "ready" => job.proxied = FALSE

\* A parser is the detectors', and the user has not named one.
ParsersFit ==
    phase \in {"detected", "ready"} =>
        /\ job.tool # "" =>
              /\ job.model # "" /\ ~HasFlag(job.passthrough, ToolFlags)
              /\ job.tool = ToolParser(env.dirs[job.model])
        /\ job.reasoning # "" =>
              /\ job.model # "" /\ ~HasFlag(job.passthrough, ReasoningFlags)
              /\ job.reasoning = ReasoningParser(env.dirs[job.model])

\* The command is put together from four parts, of which the last two are of
\* the proxy's making if there is one.
Rest == IF job.proxied THEN StripPort(job.passthrough) ELSE job.passthrough
OwnPort == IF job.proxied THEN <<Option("--port", "", job.upstream)>> ELSE <<>>

CommandFits ==
    phase = "ready" =>
        /\ job.proxied => job.upstream \in FreePort(Preferred)
        /\ job.command = IF job.proxied THEN job.extra \o AutoArgs \o Rest \o OwnPort
                         ELSE job.extra \o AutoArgs \o Rest

CommandInvariant == ArgsFit /\ JobFits /\ ParsersFit /\ CommandFits

LEMMA CommandInvariantInit ==
    ASSUME LaunchAssumption, LaunchInit PROVE CommandInvariant
  BY DEF LaunchAssumption, LaunchInit, CommandInvariant, ArgsFit, JobFits, ParsersFit, CommandFits

\* Nothing is left to say once the launch is over.
LEMMA LaunchOver == ASSUME phase' = "over" PROVE CommandInvariant'
  BY DEF CommandInvariant, ArgsFit, JobFits, ParsersFit, CommandFits

LEMMA ArgsFitStays == ASSUME ArgsFit, phase # "over", UNCHANGED <<args, env>> PROVE ArgsFit'
  BY DEF ArgsFit

LEMMA JobFitsStays ==
    ASSUME JobFits, phase \in {"parsed", "retrieval", "detected"}, UNCHANGED <<args, env>>,
           /\ job'.passthrough = job.passthrough /\ job'.model = job.model
           /\ job'.extra = job.extra,
           phase' # "ready" => job'.proxied = job.proxied
    PROVE  JobFits'
  <1>1. Given' = Given /\ Named' = Named
    BY DEF Given, Named
  <1>2. /\ args # <<>>
        /\ job.passthrough = Without(Given, OwnFlags)
        /\ job.model = IF Named THEN Head(args).text ELSE ExtractModel(args)
        /\ job.extra = IF Named THEN <<Option("--model", job.model, NoNumber)>> ELSE <<>>
        /\ job.proxied = FALSE
    BY DEF JobFits
  <1>3. args' = args
    OBVIOUS
  <1> QED
    BY <1>1, <1>2, <1>3 DEF JobFits

LEMMA ParsersFitStays ==
    ASSUME ParsersFit, phase = "detected", UNCHANGED <<args, env>>,
           /\ job'.passthrough = job.passthrough /\ job'.model = job.model
           /\ job'.tool = job.tool /\ job'.reasoning = job.reasoning
    PROVE  ParsersFit'
  BY DEF ParsersFit

LEMMA ParseFits == ASSUME CommandInvariant, Parse PROVE CommandInvariant'
  <1>1. PICK given, model :
           /\ given = Given /\ model = IF Named THEN Head(args).text ELSE ExtractModel(args)
           /\ job' = [NoJob EXCEPT
                        !.model = model,
                        !.extra = IF Named THEN <<Option("--model", model, NoNumber)>> ELSE <<>>,
                        !.passthrough = Without(given, OwnFlags),
                        !.endpoint = ExtractRetrievalEndpoint(given, env.endpoint),
                        !.enabled = ExtractEnableLongctx(given, env.enabled),
                        !.scope = ExtractLongctxScope(given)]
    BY DEF Parse, Given, Named
  <1>2. /\ job'.model = model /\ job'.passthrough = Without(given, OwnFlags)
        /\ job'.extra = IF Named THEN <<Option("--model", model, NoNumber)>> ELSE <<>>
        /\ job'.proxied = FALSE
    BY <1>1 DEF NoJob
  <1>3. Given' = Given /\ Named' = Named /\ args' = args /\ args # <<>> /\ phase' = "parsed"
    BY DEF Parse, Given, Named
  <1>4. ArgsFit'
    BY DEF Parse, CommandInvariant, ArgsFit
  <1>5. JobFits'
    BY <1>1, <1>2, <1>3 DEF JobFits
  <1> QED
    BY <1>3, <1>4, <1>5 DEF CommandInvariant, ParsersFit, CommandFits

LEMMA RetrievalFits ==
    ASSUME LaunchInv, CommandInvariant, SpawnSidecar \/ NoSidecar PROVE CommandInvariant'
  <1>1. /\ phase = "parsed" /\ phase' = "retrieval" /\ UNCHANGED <<args, env>>
        /\ job'.passthrough = job.passthrough /\ job'.model = job.model
        /\ job'.extra = job.extra /\ job'.proxied = job.proxied
    <2>1. job = [f \in Fields |-> job[f]]
      BY DEF LaunchInv, PhaseOK
    <2> QED
      BY <2>1 DEF SpawnSidecar, NoSidecar, Fields, NoJob
  <1>2. ArgsFit' /\ JobFits'
    BY <1>1, ArgsFitStays, JobFitsStays DEF CommandInvariant
  <1> QED
    BY <1>1, <1>2 DEF CommandInvariant, ParsersFit, CommandFits

LEMMA DetectFits == ASSUME LaunchInv, CommandInvariant, Detect PROVE CommandInvariant'
  <1>1. /\ phase = "retrieval" /\ phase' = "detected" /\ UNCHANGED <<args, env>>
        /\ job'.passthrough = job.passthrough /\ job'.model = job.model
        /\ job'.extra = job.extra /\ job'.proxied = job.proxied
        /\ job'.tool # "" =>
              /\ job.model # "" /\ ~HasFlag(job.passthrough, ToolFlags)
              /\ job'.tool = ToolParser(env.dirs[job.model])
        /\ job'.reasoning # "" =>
              /\ job.model # "" /\ ~HasFlag(job.passthrough, ReasoningFlags)
              /\ job'.reasoning = ReasoningParser(env.dirs[job.model])
    <2>1. job = [f \in Fields |-> job[f]]
      BY DEF LaunchInv, PhaseOK
    <2> QED
      BY <2>1 DEF Detect, Fields, NoJob
  <1>2. ArgsFit' /\ JobFits'
    BY <1>1, ArgsFitStays, JobFitsStays DEF CommandInvariant
  <1>3. ParsersFit'
    BY <1>1 DEF ParsersFit
  <1> QED
    BY <1>1, <1>2, <1>3 DEF CommandInvariant, CommandFits

LEMMA CommandIsFit ==
    ASSUME LaunchInv, CommandInvariant, CommandDirect \/ CommandBehindProxy
    PROVE  CommandInvariant'
  <1>1. job = [f \in Fields |-> job[f]]
    BY DEF LaunchInv, PhaseOK
  <1>2. /\ phase = "detected" /\ phase' = "ready" /\ UNCHANGED <<args, env>>
        /\ job'.passthrough = job.passthrough /\ job'.model = job.model
        /\ job'.extra = job.extra /\ job'.tool = job.tool /\ job'.reasoning = job.reasoning
    BY <1>1 DEF CommandDirect, CommandBehindProxy, Fields, NoJob
  <1>3. ArgsFit' /\ JobFits' /\ ParsersFit'
    BY <1>2, ArgsFitStays, JobFitsStays, ParsersFitStays DEF CommandInvariant
  <1>4. AutoArgs' = AutoArgs /\ Preferred' = Preferred /\ \A n : FreePort(n)' = FreePort(n)
    BY <1>2 DEF AutoArgs, Preferred, FreePort
  <1>5. CASE CommandDirect
    <2>1. job'.proxied = FALSE /\ job'.command = job.extra \o AutoArgs \o job.passthrough
      BY <1>1, <1>5 DEF CommandDirect, Fields, NoJob, CommandInvariant, JobFits
    <2>2. Rest' = job.passthrough
      BY <1>2, <2>1 DEF Rest
    <2> QED
      BY <1>2, <1>3, <1>4, <2>1, <2>2, Zenon DEF CommandInvariant, CommandFits
  <1>6. CASE CommandBehindProxy
    <2>1. PICK port \in FreePort(Preferred) :
            job' = [job EXCEPT !.proxied = TRUE, !.upstream = port,
                               !.command = job.extra \o AutoArgs \o StripPort(job.passthrough)
                                           \o <<Option("--port", "", port)>>]
      BY <1>6 DEF CommandBehindProxy
    <2>2. /\ job'.proxied = TRUE /\ job'.upstream = port
          /\ job'.command = job.extra \o AutoArgs \o StripPort(job.passthrough)
                            \o <<Option("--port", "", port)>>
      BY <1>1, <2>1 DEF Fields, NoJob
    <2>3. Rest' = StripPort(job.passthrough) /\ OwnPort' = <<Option("--port", "", port)>>
      BY <1>2, <2>2 DEF Rest, OwnPort
    <2> QED
      BY <1>2, <1>3, <1>4, <2>1, <2>2, <2>3, Zenon DEF CommandInvariant, CommandFits
  <1> QED
    BY <1>5, <1>6

LEMMA CommandInvariantStep ==
    ASSUME LaunchInv, CommandInvariant, [LaunchNext]_launchVars PROVE CommandInvariant'
  <1>1. CASE NoArguments \/ SidecarFails \/ PortOverflows \/ StartVllm \/ Killed
    <2>1. phase' = "over"
      BY <1>1 DEF NoArguments, SidecarFails, PortOverflows, GiveUp, StartVllm, Killed, Forget
    <2> QED
      BY <2>1, LaunchOver
  <1>2. CASE Parse \/ SpawnSidecar \/ NoSidecar \/ Detect \/ CommandDirect \/ CommandBehindProxy
    BY <1>2, ParseFits, RetrievalFits, DetectFits, CommandIsFit
  <1>3. CASE Afterwards \/ Interrupted \/ UNCHANGED launchVars
    <2>1. UNCHANGED <<args, env, phase, job>>
      BY <1>3 DEF Afterwards, Interrupted, launchVars, launchOnly
    <2>2. ArgsFit' /\ ParsersFit'
      BY <2>1 DEF CommandInvariant, ArgsFit, ParsersFit
    <2>3. JobFits'
      BY <2>1 DEF CommandInvariant, JobFits, Given, Named
    <2>4. CommandFits'
      <3>1. /\ AutoArgs' = AutoArgs /\ Rest' = Rest /\ OwnPort' = OwnPort
            /\ FreePort(Preferred)' = FreePort(Preferred)
        BY <2>1 DEF AutoArgs, Preferred, FreePort, Rest, OwnPort
      <3> QED
        BY <2>1, <3>1, Zenon DEF CommandInvariant, CommandFits
    <2> QED
      BY <2>2, <2>3, <2>4 DEF CommandInvariant
  <1> QED
    BY <1>1, <1>2, <1>3 DEF LaunchNext, LaunchStep

\* What a launch has made of its arguments, for any arguments and surroundings.
LEMMA AlwaysCommandInvariant == LaunchSpec => [](LaunchInv /\ CommandInvariant)
  BY LaunchInvInit, LaunchInvStep, CommandInvariantInit, CommandInvariantStep, LaunchAssumption,
     PTL DEF LaunchSpec

\* The last of two sequences has the last word.
LEMMA LastOfTwo ==
    ASSUME NEW S, NEW s \in Seq(S), NEW t \in Seq(S), t # <<>>
    PROVE  s \o t # <<>> /\ Last(s \o t) = Last(t)
  <1>1. PICK u \in Seq(S) : IsJoint(u, s, t)
    BY Joint
  <1>2. Len(s) \in Nat /\ Len(t) \in Nat /\ Len(t) # 0
    BY EmptySeq
  <1>3. Len(u) = Len(s) + Len(t) /\ u[Len(s) + Len(t)] = t[Len(t)] /\ u = s \o t
    <2>1. Len(t) \in 1 .. Len(t)
      BY <1>2
    <2> QED
      BY <1>1, <2>1 DEF IsJoint
  <1>4. u # <<>>
    BY <1>2, <1>3, Len(<<>>) = 0
  <1>5. Last(u) = u[Len(u)] /\ Last(t) = t[Len(t)]
    BY DEF Last
  <1> QED
    BY <1>3, <1>4, <1>5

\* One part of five that says something says all.
LEMMA OneSpeaks ==
    ASSUME NEW S, NEW v \in Seq(S), NEW w \in Seq(S), NEW x \in Seq(S), NEW y \in Seq(S), NEW z \in Seq(S)
    PROVE  /\ v = <<>> /\ w = <<>> /\ x = <<>> /\ y = <<>> => v \o (w \o x) \o y \o z = z
           /\ v = <<>> /\ w = <<>> /\ x = <<>> /\ z = <<>> => v \o (w \o x) \o y \o z = y
           /\ v = <<>> /\ w = <<>> /\ y = <<>> /\ z = <<>> => v \o (w \o x) \o y \o z = x
           /\ v = <<>> /\ x = <<>> /\ y = <<>> /\ z = <<>> => v \o (w \o x) \o y \o z = w
           /\ w = <<>> /\ x = <<>> /\ y = <<>> /\ z = <<>> => v \o (w \o x) \o y \o z = v
           /\ z = <<>> => v \o (w \o x) \o y \o z = v \o (w \o x) \o y
  <1>1. w \o x \in Seq(S) /\ v \o (w \o x) \in Seq(S) /\ v \o (w \o x) \o y \in Seq(S)
    BY ConcatProperties
  <1>2. \A s \in Seq(S) : s \o <<>> = s /\ <<>> \o s = s
    BY ConcatEmptySeq
  <1>3. <<>> \in Seq(S)
    OBVIOUS
  <1>4. ASSUME v = <<>>, w = <<>>, x = <<>>, y = <<>> PROVE v \o (w \o x) \o y \o z = z
    <2>1. <<>> \o <<>> = <<>> /\ <<>> \o z = z
      BY <1>2, <1>3, Zenon
    <2> QED
      BY <1>4, <2>1, Zenon
  <1>5. ASSUME v = <<>>, w = <<>>, x = <<>>, z = <<>> PROVE v \o (w \o x) \o y \o z = y
    <2>1. <<>> \o <<>> = <<>> /\ <<>> \o y = y /\ y \o <<>> = y
      BY <1>2, <1>3, Zenon
    <2> QED
      BY <1>5, <2>1, Zenon
  <1>6. ASSUME v = <<>>, w = <<>>, y = <<>>, z = <<>> PROVE v \o (w \o x) \o y \o z = x
    <2>1. <<>> \o x = x /\ x \o <<>> = x
      BY <1>2, <1>3, Zenon
    <2> QED
      BY <1>6, <2>1, Zenon
  <1>7. ASSUME v = <<>>, x = <<>>, y = <<>>, z = <<>> PROVE v \o (w \o x) \o y \o z = w
    <2>1. <<>> \o w = w /\ w \o <<>> = w
      BY <1>2, <1>3, Zenon
    <2> QED
      BY <1>7, <2>1, Zenon
  <1>8. ASSUME w = <<>>, x = <<>>, y = <<>>, z = <<>> PROVE v \o (w \o x) \o y \o z = v
    <2>1. <<>> \o <<>> = <<>> /\ v \o <<>> = v
      BY <1>2, <1>3, Zenon
    <2> QED
      BY <1>8, <2>1, Zenon
  <1>9. ASSUME z = <<>> PROVE v \o (w \o x) \o y \o z = v \o (w \o x) \o y
    BY <1>1, <1>2, <1>9, Zenon
  <1> QED
    BY <1>4, <1>5, <1>6, <1>7, <1>8, <1>9

-----------------------------------------------------------------------------
(* What each part of the command has of some flags                         *)

ToolArgs ==
    IF job.tool = "" THEN <<>>
    ELSE <<Option("--enable-auto-tool-choice", "", NoNumber), Option("--tool-call-parser", job.tool, NoNumber)>>

ReasoningArgs ==
    IF job.reasoning = "" THEN <<>> ELSE <<Option("--reasoning-parser", job.reasoning, NoNumber)>>

\* The user's options and serve's own.
AllOptions ==
    Options \cup {Option("--model", job.model, NoNumber), Option("--enable-auto-tool-choice", "", NoNumber),
                  Option("--tool-call-parser", job.tool, NoNumber),
                  Option("--reasoning-parser", job.reasoning, NoNumber),
                  Option("--port", "", job.upstream)}

LEMMA GivenWith ==
    ASSUME CommandInvariant, phase \in {"parsed", "retrieval", "detected", "ready"}
    PROVE  /\ args \in Seq(Options) /\ Given \in Seq(Options)
           /\ \A F : Positional \notin F => With(Given, F) = With(args, F)
  <1>1. args \in Seq(Options)
    BY DEF CommandInvariant, ArgsFit
  <1>2. CASE ~Named
    BY <1>1, <1>2 DEF Given
  <1>3. CASE Named
    <2>1. args # <<>>
      BY DEF CommandInvariant, JobFits
    <2>2. PICK h \in Options, t \in Seq(Options) : h = Head(args) /\ t = Tail(args) /\ args = <<h>> \o t
      BY <1>1, <2>1, HeadAndTail
    <2>3. PICK one \in Seq(Options) : one = <<h>>
      BY OneElement
    <2>4. ASSUME NEW F, Positional \notin F PROVE With(t, F) = With(args, F)
      <3>1. With(one \o t, F) = With(one, F) \o With(t, F)
        BY WithConcat
      <3>2. With(one, F) = <<>>
        BY <1>3, <2>2, <2>3, <2>4, WithOne DEF Named
      <3>3. With(t, F) \in Seq(Options)
        BY OptionByOption
      <3> QED
        BY <2>2, <2>3, <3>1, <3>2, <3>3, ConcatEmptySeq, Zenon
    <2> QED
      BY <1>1, <1>3, <2>2, <2>4 DEF Given
  <1> QED
    BY <1>2, <1>3

\* The command and its parts, of any flags.
LEMMA CommandWith ==
    ASSUME CommandInvariant, phase = "ready"
    PROVE  /\ job.extra \in Seq(AllOptions) /\ job.command \in Seq(AllOptions)
           /\ ToolArgs \in Seq(AllOptions) /\ ReasoningArgs \in Seq(AllOptions)
           /\ Rest \in Seq(AllOptions) /\ OwnPort \in Seq(AllOptions)
           /\ \A F : With(job.command, F) =
                       With(job.extra, F) \o (With(ToolArgs, F) \o With(ReasoningArgs, F))
                       \o With(Rest, F) \o With(OwnPort, F)
  <1> DEFINE S == AllOptions
  <1>1. /\ Option("--model", job.model, NoNumber) \in S /\ Option("--enable-auto-tool-choice", "", NoNumber) \in S
        /\ Option("--tool-call-parser", job.tool, NoNumber) \in S
        /\ Option("--reasoning-parser", job.reasoning, NoNumber) \in S
        /\ Option("--port", "", job.upstream) \in S /\ Options \subseteq S
    BY DEF AllOptions
  <1> HIDE DEF S
  <1>2. /\ job.extra \in Seq(S) /\ ToolArgs \in Seq(S) /\ ReasoningArgs \in Seq(S)
        /\ OwnPort \in Seq(S)
    <2>1. job.extra \in {<<>>, <<Option("--model", job.model, NoNumber)>>}
      BY DEF CommandInvariant, JobFits
    <2>2. ToolArgs \in {<<>>, <<Option("--enable-auto-tool-choice", "", NoNumber),
                                Option("--tool-call-parser", job.tool, NoNumber)>>}
      BY DEF ToolArgs
    <2>3. ReasoningArgs \in {<<>>, <<Option("--reasoning-parser", job.reasoning, NoNumber)>>}
      BY DEF ReasoningArgs
    <2>4. OwnPort \in {<<>>, <<Option("--port", "", job.upstream)>>}
      BY DEF OwnPort
    <2>5. PICK a \in S, b \in S, c \in S, d \in S, e \in S :
            /\ a = Option("--model", job.model, NoNumber) /\ b = Option("--enable-auto-tool-choice", "", NoNumber)
            /\ c = Option("--tool-call-parser", job.tool, NoNumber)
            /\ d = Option("--reasoning-parser", job.reasoning, NoNumber)
            /\ e = Option("--port", "", job.upstream)
      BY <1>1
    <2>6. /\ <<>> \in Seq(S) /\ <<a>> \in Seq(S) /\ <<b, c>> \in Seq(S) /\ <<d>> \in Seq(S)
          /\ <<e>> \in Seq(S)
      OBVIOUS
    <2> QED
      BY <2>1, <2>2, <2>3, <2>4, <2>5, <2>6, Zenon
  <1>3. job.passthrough \in Seq(Options) /\ Rest \in Seq(Options)
    <2>1. job.passthrough = Without(Given, OwnFlags)
      BY DEF CommandInvariant, JobFits
    <2>2. job.passthrough \in Seq(Options)
      BY <2>1, GivenWith, OptionByOption
    <2>3. StripPort(job.passthrough) \in Seq(Options)
      BY <2>2, OptionByOption DEF StripPort
    <2> QED
      BY <2>2, <2>3 DEF Rest
  <1>4. Rest \in Seq(S)
    BY <1>1, <1>3, SeqMonotonic
  <1>5. AutoArgs = ToolArgs \o ReasoningArgs
    BY DEF AutoArgs, ToolArgs, ReasoningArgs
  <1>6. /\ ToolArgs \o ReasoningArgs \in Seq(S)
        /\ job.extra \o (ToolArgs \o ReasoningArgs) \in Seq(S)
        /\ job.extra \o (ToolArgs \o ReasoningArgs) \o Rest \in Seq(S)
        /\ job.extra \o (ToolArgs \o ReasoningArgs) \o Rest \o OwnPort \in Seq(S)
    BY <1>2, <1>4, ConcatProperties
  <1>7. job.command = job.extra \o (ToolArgs \o ReasoningArgs) \o Rest \o OwnPort
    <2>1. job.command = IF job.proxied THEN job.extra \o AutoArgs \o Rest \o OwnPort
                        ELSE job.extra \o AutoArgs \o Rest
      BY DEF CommandInvariant, CommandFits
    <2>2. CASE job.proxied
      BY <1>5, <2>1, <2>2, Zenon
    <2>3. CASE ~job.proxied
      <3>1. OwnPort = <<>>
        BY <2>3 DEF OwnPort
      <3>2. job.command = job.extra \o (ToolArgs \o ReasoningArgs) \o Rest
        BY <1>5, <2>1, <2>3, Zenon
      <3>3. PICK y \in Seq(S) : y = job.extra \o (ToolArgs \o ReasoningArgs) \o Rest
        BY <1>6
      <3>4. y \o <<>> = y
        BY ConcatEmptySeq
      <3> QED
        BY <3>1, <3>2, <3>3, <3>4, Zenon
    <2> QED
      BY <2>2, <2>3
  <1>8. ASSUME NEW F
        PROVE  With(job.command, F) =
                 With(job.extra, F) \o (With(ToolArgs, F) \o With(ReasoningArgs, F))
                 \o With(Rest, F) \o With(OwnPort, F)
    <2>1. With(ToolArgs \o ReasoningArgs, F) = With(ToolArgs, F) \o With(ReasoningArgs, F)
      BY <1>2, WithConcat, SMTT(30)
    <2>2. PICK a \in Seq(S), x \in Seq(S), r \in Seq(S), p \in Seq(S) :
            a = ToolArgs \o ReasoningArgs /\ x = job.extra /\ r = Rest /\ p = OwnPort
      BY <1>2, <1>4, <1>6
    <2>3. PICK m \in Seq(S) : IsJoint(m, x, a)
      BY Joint
    <2>4. PICK n \in Seq(S) : IsJoint(n, m, r)
      BY Joint
    <2>5. PICK c \in Seq(S) : IsJoint(c, n, p)
      BY Joint
    <2>6. With(m, F) = With(x, F) \o With(a, F)
      BY <2>3, WithJoint
    <2>7. With(n, F) = With(m, F) \o With(r, F)
      BY <2>4, WithJoint
    <2>8. With(c, F) = With(n, F) \o With(p, F)
      BY <2>5, WithJoint
    <2>9. m = x \o a /\ n = m \o r /\ c = n \o p
      BY <2>3, <2>4, <2>5 DEF IsJoint
    <2> QED
      BY <1>7, <2>1, <2>2, <2>6, <2>7, <2>8, <2>9, Zenon
  <1> QED
    BY <1>2, <1>4, <1>6, <1>7, <1>8 DEF S

\* What each part has, by the flags asked for.
LEMMA ExtraWith ==
    ASSUME CommandInvariant, phase = "ready", NEW F
    PROVE  /\ ~Named \/ "--model" \notin F => With(job.extra, F) = <<>>
           /\ Named /\ "--model" \in F => With(job.extra, F) = <<Option("--model", job.model, NoNumber)>>
  <1>1. job.extra = IF Named THEN <<Option("--model", job.model, NoNumber)>> ELSE <<>>
    BY DEF CommandInvariant, JobFits
  <1>2. Option("--model", job.model, NoNumber) \in AllOptions /\ Option("--model", job.model, NoNumber).flag = "--model"
    BY DEF AllOptions, Option
  <1> QED
    BY <1>1, <1>2, WithNone, WithOne, Zenon

LEMMA ReasoningArgsWith ==
    ASSUME NEW F
    PROVE  /\ job.reasoning = "" \/ "--reasoning-parser" \notin F => With(ReasoningArgs, F) = <<>>
           /\ job.reasoning # "" /\ "--reasoning-parser" \in F =>
                 With(ReasoningArgs, F) = <<Option("--reasoning-parser", job.reasoning, NoNumber)>>
  <1>1. /\ Option("--reasoning-parser", job.reasoning, NoNumber) \in AllOptions
        /\ Option("--reasoning-parser", job.reasoning, NoNumber).flag = "--reasoning-parser"
    BY DEF AllOptions, Option
  <1> QED
    BY <1>1, WithNone, WithOne, Zenon DEF ReasoningArgs

LEMMA ToolArgsWith ==
    ASSUME NEW F
    PROVE  /\ job.tool = "" \/ F \cap {"--enable-auto-tool-choice", "--tool-call-parser"} = {}
                => With(ToolArgs, F) = <<>>
           /\ job.tool # "" /\ "--enable-auto-tool-choice" \notin F /\ "--tool-call-parser" \in F
                => With(ToolArgs, F) = <<Option("--tool-call-parser", job.tool, NoNumber)>>
  <1>1. PICK a \in AllOptions, b \in AllOptions :
          /\ a = Option("--enable-auto-tool-choice", "", NoNumber) /\ a.flag = "--enable-auto-tool-choice"
          /\ b = Option("--tool-call-parser", job.tool, NoNumber) /\ b.flag = "--tool-call-parser"
    <2>1. /\ Option("--enable-auto-tool-choice", "", NoNumber) \in AllOptions
          /\ Option("--tool-call-parser", job.tool, NoNumber) \in AllOptions
      BY DEF AllOptions
    <2>2. /\ Option("--enable-auto-tool-choice", "", NoNumber).flag = "--enable-auto-tool-choice"
          /\ Option("--tool-call-parser", job.tool, NoNumber).flag = "--tool-call-parser"
      BY DEF Option
    <2> QED
      BY <2>1, <2>2
  <1>2. PICK x \in Seq(AllOptions), y \in Seq(AllOptions) : x = <<a>> /\ y = <<b>>
    BY OneElement
  <1>3. x \o y = <<a, b>> /\ <<>> \o y = y
    BY <1>2, Pair, Zenon
  <1>4. With(x \o y, F) = With(x, F) \o With(y, F)
    BY WithConcat
  <1>5. /\ With(x, F) = IF a.flag \in F THEN <<a>> ELSE <<>>
        /\ With(y, F) = IF b.flag \in F THEN <<b>> ELSE <<>>
    BY <1>2, WithOne, Zenon
  <1>6. CASE job.tool = ""
    BY <1>6, WithNone, Zenon DEF ToolArgs
  <1>7. CASE job.tool # ""
    <2>1. ToolArgs = x \o y
      BY <1>1, <1>3, <1>7, Zenon DEF ToolArgs
    <2>2. <<>> \o <<>> = <<>>
      BY ConcatEmptySeq, EmptySeq
    <2>3. F \cap {"--enable-auto-tool-choice", "--tool-call-parser"} = {} => a.flag \notin F /\ b.flag \notin F
      BY <1>1
    <2> QED
      BY <1>1, <1>2, <1>3, <1>4, <1>5, <1>7, <2>1, <2>2, <2>3, Zenon
  <1> QED
    BY <1>6, <1>7

LEMMA PassthroughWith ==
    ASSUME CommandInvariant, phase \in {"parsed", "retrieval", "detected", "ready"}, NEW F
    PROVE  /\ job.passthrough \in Seq(Options)
           /\ F \cap (OwnFlags \cup {Positional}) = {} => With(job.passthrough, F) = With(args, F)
           /\ F \subseteq OwnFlags => With(job.passthrough, F) = <<>>
  <1>1. job.passthrough = Without(Given, OwnFlags)
    BY DEF CommandInvariant, JobFits
  <1>2. PICK g \in Seq(Options) : g = Given
    BY GivenWith
  <1>3. /\ F \cap OwnFlags = {} => With(Without(g, OwnFlags), F) = With(g, F)
        /\ F \subseteq OwnFlags => With(Without(g, OwnFlags), F) = <<>>
        /\ Without(g, OwnFlags) \in Seq(Options)
    BY WithWithout, OptionByOption
  <1>4. Positional \notin F => With(g, F) = With(args, F)
    BY <1>2, GivenWith
  <1>5. F \cap (OwnFlags \cup {Positional}) = {} => F \cap OwnFlags = {} /\ Positional \notin F
    OBVIOUS
  <1> QED
    BY <1>1, <1>2, <1>3, <1>4, <1>5, Zenon

LEMMA RestWith ==
    ASSUME CommandInvariant, phase = "ready", NEW F
    PROVE  /\ F \cap (OwnFlags \cup {Positional}) = {} /\ (job.proxied => "--port" \notin F)
                => With(Rest, F) = With(args, F)
           /\ F \subseteq OwnFlags => With(Rest, F) = <<>>
           /\ job.proxied /\ F = {"--port"} => With(Rest, F) = <<>>
  <1>1. PICK p \in Seq(Options) :
          /\ p = job.passthrough
          /\ F \cap (OwnFlags \cup {Positional}) = {} => With(p, F) = With(args, F)
          /\ F \subseteq OwnFlags => With(p, F) = <<>>
    BY PassthroughWith
  <1>2. /\ F \cap {"--port"} = {} => With(Without(p, {"--port"}), F) = With(p, F)
        /\ F \subseteq {"--port"} => With(Without(p, {"--port"}), F) = <<>>
    BY WithWithout
  <1>3. Rest = IF job.proxied THEN Without(p, {"--port"}) ELSE p
    BY <1>1 DEF Rest, StripPort
  <1>4. /\ F \subseteq OwnFlags => F \cap {"--port"} = {}
        /\ "--port" \notin F => F \cap {"--port"} = {}
        /\ F = {"--port"} => F \subseteq {"--port"}
    BY DEF OwnFlags, LongctxSwitches
  <1> QED
    BY <1>1, <1>2, <1>3, <1>4, Zenon

LEMMA OwnPortWith ==
    ASSUME NEW F
    PROVE  /\ ~job.proxied \/ "--port" \notin F => With(OwnPort, F) = <<>>
           /\ job.proxied /\ "--port" \in F => With(OwnPort, F) = <<Option("--port", "", job.upstream)>>
  <1>1. /\ Option("--port", "", job.upstream) \in AllOptions
        /\ Option("--port", "", job.upstream).flag = "--port"
    BY DEF AllOptions, Option
  <1> QED
    BY <1>1, WithNone, WithOne, Zenon DEF OwnPort

\* What the command has of some flags, part by part.
LEMMA CommandHas ==
    ASSUME CommandInvariant, phase = "ready", NEW F
    PROVE  \E v \in Seq(AllOptions), w \in Seq(AllOptions), x \in Seq(AllOptions),
              y \in Seq(AllOptions), z \in Seq(AllOptions) :
              /\ v = With(job.extra, F) /\ w = With(ToolArgs, F) /\ x = With(ReasoningArgs, F)
              /\ y = With(Rest, F) /\ z = With(OwnPort, F)
              /\ With(job.command, F) = v \o (w \o x) \o y \o z
  <1>1. /\ With(job.extra, F) \in Seq(AllOptions) /\ With(ToolArgs, F) \in Seq(AllOptions)
        /\ With(ReasoningArgs, F) \in Seq(AllOptions) /\ With(Rest, F) \in Seq(AllOptions)
        /\ With(OwnPort, F) \in Seq(AllOptions)
    BY CommandWith, OptionByOption
  <1>2. With(job.command, F) =
          With(job.extra, F) \o (With(ToolArgs, F) \o With(ReasoningArgs, F))
          \o With(Rest, F) \o With(OwnPort, F)
    BY CommandWith
  <1> QED
    BY <1>1, <1>2, Zenon

\* A parser of serve's own is one the user has said nothing about.
LEMMA ParsersWith ==
    ASSUME CommandInvariant, phase = "ready"
    PROVE  /\ With(args, ToolFlags) # <<>> => job.tool = ""
           /\ With(args, ReasoningFlags) # <<>> => job.reasoning = ""
           /\ job.tool # "" => \A F : F \subseteq ToolFlags => With(Rest, F) = <<>>
           /\ job.reasoning # "" => \A F : F \subseteq ReasoningFlags => With(Rest, F) = <<>>
  <1>1. /\ ToolFlags \cap (OwnFlags \cup {Positional}) = {}
        /\ ReasoningFlags \cap (OwnFlags \cup {Positional}) = {}
        /\ "--port" \notin ToolFlags /\ "--port" \notin ReasoningFlags
    BY DEF ToolFlags, ReasoningFlags, OwnFlags, LongctxSwitches, Positional
  <1>2. /\ With(job.passthrough, ToolFlags) = With(args, ToolFlags)
        /\ With(job.passthrough, ReasoningFlags) = With(args, ReasoningFlags)
    BY <1>1, PassthroughWith
  <1>3. /\ job.tool # "" => With(job.passthrough, ToolFlags) = <<>>
        /\ job.reasoning # "" => With(job.passthrough, ReasoningFlags) = <<>>
    BY DEF CommandInvariant, ParsersFit, HasFlag
  <1>4. ASSUME NEW G, G \in {ToolFlags, ReasoningFlags}, With(args, G) = <<>>, NEW F, F \subseteq G
        PROVE  With(Rest, F) = <<>>
    <2>1. F \cap (OwnFlags \cup {Positional}) = {} /\ "--port" \notin F
      BY <1>1, <1>4
    <2>2. With(Rest, F) = With(args, F)
      BY <2>1, RestWith
    <2>3. args \in Seq(Options)
      BY GivenWith
    <2>4. ASSUME With(args, F) # <<>> PROVE FALSE
      <3>1. PICK i \in DOMAIN args : args[i].flag \in F
        <4>1. ASSUME \A i \in DOMAIN args : args[i].flag \notin F PROVE FALSE
          <5>1. With(args, F) \in Seq({})
            BY <2>3, <4>1, WithFrom
          <5> QED
            BY <2>4, <5>1
        <4> QED
          BY <4>1
      <3>2. With(args, G) # <<>>
        BY <1>4, <2>3, <3>1, WithHas
      <3> QED
        BY <1>4, <3>2
    <2> QED
      BY <2>2, <2>4
  <1> QED
    BY <1>2, <1>3, <1>4

-----------------------------------------------------------------------------
(* CommandFaithful                                                         *)

LEMMA NoneOfItsOwn == ASSUME CommandInvariant, phase = "ready" PROVE ~HasFlag(job.command, OwnFlags)
  <1>1. PICK v \in Seq(AllOptions), w \in Seq(AllOptions), x \in Seq(AllOptions),
             y \in Seq(AllOptions), z \in Seq(AllOptions) :
          /\ v = With(job.extra, OwnFlags) /\ w = With(ToolArgs, OwnFlags)
          /\ x = With(ReasoningArgs, OwnFlags) /\ y = With(Rest, OwnFlags) /\ z = With(OwnPort, OwnFlags)
          /\ With(job.command, OwnFlags) = v \o (w \o x) \o y \o z
    BY CommandHas, SMTT(30)
  <1>2. /\ OwnFlags \cap {"--enable-auto-tool-choice", "--tool-call-parser"} = {}
        /\ "--model" \notin OwnFlags /\ "--reasoning-parser" \notin OwnFlags /\ "--port" \notin OwnFlags
    BY DEF OwnFlags, LongctxSwitches
  <1>3. v = <<>> /\ w = <<>> /\ x = <<>> /\ y = <<>> /\ z = <<>>
    BY <1>1, <1>2, ExtraWith, ToolArgsWith, ReasoningArgsWith, RestWith, OwnPortWith
  <1>4. With(job.command, OwnFlags) = <<>>
    BY <1>1, <1>3, OneSpeaks
  <1> QED
    BY <1>4 DEF HasFlag

\* The user's options come last, but for the proxy's port.
LEMMA UserWins ==
    ASSUME CommandInvariant, phase = "ready", NEW o \in Range(args),
           o.flag \notin OwnFlags \cup {Positional}, ~(o.flag = "--port" /\ job.proxied)
    PROVE  Parsed(o.flag) = Asked(o.flag)
  <1> DEFINE F == {o.flag}
  <1>1. F \cap (OwnFlags \cup {Positional}) = {} /\ (job.proxied => "--port" \notin F)
    OBVIOUS
  <1>2. With(args, F) # <<>>
    <2>1. args \in Seq(Options)
      BY GivenWith
    <2>2. PICK i \in DOMAIN args : args[i] = o
      BY DEF Range
    <2> QED
      BY <2>1, <2>2, WithHas
  <1>3. Asked(o.flag) = Last(With(args, F))
    BY <1>2 DEF Asked, LastOf, HasFlag
  <1>4. Parsed(o.flag) = LastOf(job.command, o.flag, Option(o.flag, "", NoNumber))
    BY DEF Parsed
  <1> HIDE DEF F
  <1>5. PICK v \in Seq(AllOptions), w \in Seq(AllOptions), x \in Seq(AllOptions),
             y \in Seq(AllOptions), z \in Seq(AllOptions) :
          /\ v = With(job.extra, F) /\ w = With(ToolArgs, F) /\ x = With(ReasoningArgs, F)
          /\ y = With(Rest, F) /\ z = With(OwnPort, F)
          /\ With(job.command, F) = v \o (w \o x) \o y \o z
    BY CommandHas
  <1>6. y = With(args, F) /\ z = <<>>
    BY <1>1, <1>5, RestWith, OwnPortWith
  <1>7. With(job.command, F) = v \o (w \o x) \o y
    BY <1>5, <1>6, OneSpeaks
  <1>8. PICK a \in Seq(AllOptions) : a = v \o (w \o x)
    <2>1. w \o x \in Seq(AllOptions)
      BY ConcatProperties
    <2>2. v \o (w \o x) \in Seq(AllOptions)
      BY <2>1, ConcatProperties
    <2> QED
      BY <2>2
  <1>9. a \o y # <<>> /\ Last(a \o y) = Last(y)
    BY <1>2, <1>6, LastOfTwo
  <1>10. With(job.command, F) # <<>> /\ Last(With(job.command, F)) = Last(With(args, F))
    BY <1>6, <1>7, <1>8, <1>9, Zenon
  <1> QED
    BY <1>3, <1>4, <1>10 DEF LastOf, HasFlag, F

LEMMA ModelWins ==
    ASSUME CommandInvariant, phase = "ready", Head(args).flag = Positional, ~HasFlag(args, {"--model"})
    PROVE  Parsed("--model").text = Head(args).text
  <1> DEFINE F == {"--model"}
  <1>1. /\ F \cap {"--enable-auto-tool-choice", "--tool-call-parser"} = {}
        /\ "--reasoning-parser" \notin F /\ "--port" \notin F /\ "--model" \in F
        /\ F \cap (OwnFlags \cup {Positional}) = {}
    BY DEF OwnFlags, LongctxSwitches, Positional
  <1>2. With(args, F) = <<>>
    BY DEF HasFlag
  <1>3. Parsed("--model") = LastOf(job.command, "--model", Option("--model", "", NoNumber))
    BY DEF Parsed
  <1>4. job.model = Head(args).text
    BY DEF CommandInvariant, JobFits, Named
  <1> HIDE DEF F
  <1>5. PICK v \in Seq(AllOptions), w \in Seq(AllOptions), x \in Seq(AllOptions),
             y \in Seq(AllOptions), z \in Seq(AllOptions) :
          /\ v = With(job.extra, F) /\ w = With(ToolArgs, F) /\ x = With(ReasoningArgs, F)
          /\ y = With(Rest, F) /\ z = With(OwnPort, F)
          /\ With(job.command, F) = v \o (w \o x) \o y \o z
    BY CommandHas
  <1>6. /\ v = <<Option("--model", job.model, NoNumber)>> /\ w = <<>> /\ x = <<>> /\ y = <<>> /\ z = <<>>
    BY <1>1, <1>2, <1>5, ExtraWith, ToolArgsWith, ReasoningArgsWith, RestWith, OwnPortWith DEF Named
  <1>7. With(job.command, F) = <<Option("--model", job.model, NoNumber)>>
    BY <1>5, <1>6, OneSpeaks
  <1>8. Parsed("--model") = Option("--model", job.model, NoNumber)
    <2>1. PICK e : e = Option("--model", job.model, NoNumber)
      OBVIOUS
    <2>2. <<e>> # <<>> /\ Last(<<e>>) = e
      BY DEF Last
    <2>3. HasFlag(job.command, F) /\ Last(With(job.command, F)) = e
      BY <1>7, <2>1, <2>2 DEF HasFlag
    <2> QED
      BY <1>3, <2>1, <2>3 DEF LastOf, F
  <1> QED
    BY <1>4, <1>8 DEF Option

LEMMA UsersParsers ==
    ASSUME CommandInvariant, phase = "ready", NEW F \in {ToolFlags, ReasoningFlags}, HasFlag(args, F)
    PROVE  With(job.command, F) = With(args, F)
  <1>1. /\ F \cap (OwnFlags \cup {Positional}) = {} /\ "--port" \notin F /\ "--model" \notin F
        /\ F = ToolFlags => "--reasoning-parser" \notin F
        /\ F = ReasoningFlags => F \cap {"--enable-auto-tool-choice", "--tool-call-parser"} = {}
    BY DEF ToolFlags, ReasoningFlags, OwnFlags, LongctxSwitches, Positional
  <1>2. /\ F = ToolFlags => job.tool = ""
        /\ F = ReasoningFlags => job.reasoning = ""
    BY ParsersWith DEF HasFlag
  <1>3. PICK v \in Seq(AllOptions), w \in Seq(AllOptions), x \in Seq(AllOptions),
             y \in Seq(AllOptions), z \in Seq(AllOptions) :
          /\ v = With(job.extra, F) /\ w = With(ToolArgs, F) /\ x = With(ReasoningArgs, F)
          /\ y = With(Rest, F) /\ z = With(OwnPort, F)
          /\ With(job.command, F) = v \o (w \o x) \o y \o z
    BY CommandHas
  <1>4. /\ v = <<>> /\ y = With(args, F) /\ z = <<>>
    BY <1>1, <1>3, ExtraWith, RestWith, OwnPortWith
  <1>5. w = <<>> /\ x = <<>>
    BY <1>1, <1>2, <1>3, ToolArgsWith, ReasoningArgsWith
  <1>6. With(job.command, F) = y
    BY <1>3, <1>4, <1>5, OneSpeaks
  <1> QED
    BY <1>4, <1>6

LEMMA OnePort ==
    ASSUME CommandInvariant, phase = "ready", job.proxied
    PROVE  With(job.command, {"--port"}) = <<Option("--port", "", job.upstream)>>
  <1> DEFINE F == {"--port"}
  <1>1. /\ F \cap {"--enable-auto-tool-choice", "--tool-call-parser"} = {}
        /\ "--reasoning-parser" \notin F /\ "--model" \notin F /\ "--port" \in F
    OBVIOUS
  <1>2. With(Rest, F) = <<>>
    BY RestWith
  <1> HIDE DEF F
  <1>3. PICK v \in Seq(AllOptions), w \in Seq(AllOptions), x \in Seq(AllOptions),
             y \in Seq(AllOptions), z \in Seq(AllOptions) :
          /\ v = With(job.extra, F) /\ w = With(ToolArgs, F) /\ x = With(ReasoningArgs, F)
          /\ y = With(Rest, F) /\ z = With(OwnPort, F)
          /\ With(job.command, F) = v \o (w \o x) \o y \o z
    BY CommandHas
  <1>4. v = <<>> /\ w = <<>> /\ x = <<>> /\ y = <<>>
    BY <1>1, <1>2, <1>3, ExtraWith, ToolArgsWith, ReasoningArgsWith
  <1>5. z = <<Option("--port", "", job.upstream)>>
    BY <1>1, <1>3, OwnPortWith
  <1>6. v \o (w \o x) \o y \o z = z
    BY <1>4, OneSpeaks
  <1> QED
    BY <1>3, <1>5, <1>6, Zenon DEF F

\* Whatever serve is called with and finds, vLLM is called with what the user
\* asked for.
THEOREM CommandAlwaysFaithful == LaunchSpec => []CommandFaithful
  <1>1. ASSUME CommandInvariant PROVE CommandFaithful
    <2>1. SUFFICES ASSUME phase = "ready" PROVE CommandFaithful
      BY DEF CommandFaithful
    <2>2. job.proxied => Len(With(job.command, {"--port"})) = 1
      <3>1. \A e : Len(<<e>>) = 1
        OBVIOUS
      <3> QED
        BY <1>1, <2>1, <3>1, OnePort, Zenon
    <2>3. \A o \in Range(args) :
             \/ o.flag \in OwnFlags \cup {Positional}
             \/ o.flag = "--port" /\ job.proxied
             \/ Parsed(o.flag) = Asked(o.flag)
      BY <1>1, <2>1, UserWins
    <2>4. ~HasFlag(job.command, OwnFlags)
      BY <1>1, <2>1, NoneOfItsOwn
    <2>5. Head(args).flag = Positional /\ ~HasFlag(args, {"--model"}) =>
             Parsed("--model").text = Head(args).text
      BY <1>1, <2>1, ModelWins
    <2>6. \A flags \in {ToolFlags, ReasoningFlags} :
             HasFlag(args, flags) => With(job.command, flags) = With(args, flags)
      BY <1>1, <2>1, UsersParsers
    <2> QED
      BY <2>2, <2>3, <2>4, <2>5, <2>6 DEF CommandFaithful
  <1> QED
    BY <1>1, AlwaysCommandInvariant, PTL

-----------------------------------------------------------------------------
(* ProxyFrontsVllm                                                         *)

LEMMA FirstIsLast ==
    ASSUME NEW S, NEW a \in Seq(S), ~(Len(a) > 1), a # <<>>
    PROVE  Head(a) = Last(a) /\ Head(a) \in S
  <1>1. Len(a) \in Nat /\ Len(a) # 0
    BY EmptySeq
  <1>2. Len(a) = 1
    BY <1>1
  <1>3. a[1] \in S
    BY <1>2
  <1> QED
    BY <1>2, <1>3 DEF Last

\* A flag that is not given twice is in one place: serve's model, or the
\* user's options.
LEMMA NotRepeated ==
    ASSUME CommandInvariant, phase = "ready", NEW f, ~Repeated(f),
           f \notin OwnFlags \cup {Positional}
    PROVE  \E a \in Seq(Options) :
              /\ a = With(args, {f}) /\ a = With(job.passthrough, {f}) /\ ~(Len(a) > 1)
              /\ f = "--model" /\ Named => a = <<>>
  <1> DEFINE F == {f}
  <1>1. F \cap (OwnFlags \cup {Positional}) = {}
    OBVIOUS
  <1>2. Repeated(f) <=> Len(With(job.extra \o job.passthrough, F)) > 1
    BY DEF Repeated
  <1>3. "--model" \in F <=> f = "--model"
    OBVIOUS
  <1> HIDE DEF F
  <1>4. job.extra \in Seq(AllOptions)
    BY CommandWith
  <1>5. job.passthrough \in Seq(Options) /\ With(job.passthrough, F) = With(args, F)
    BY <1>1, PassthroughWith
  <1>6. Seq(Options) \subseteq Seq(AllOptions)
    <2>1. Options \subseteq AllOptions
      BY DEF AllOptions
    <2> QED
      BY <2>1, SeqMonotonic
  <1>7. PICK x \in Seq(AllOptions), p \in Seq(AllOptions) : x = job.extra /\ p = job.passthrough
    BY <1>4, <1>5, <1>6
  <1>8. PICK u \in Seq(AllOptions) : IsJoint(u, x, p)
    BY Joint
  <1>9. PICK v \in Seq(AllOptions), a \in Seq(AllOptions) : v = With(x, F) /\ a = With(p, F)
    BY OptionByOption
  <1>10. With(u, F) = v \o a
    <2>1. With(u, F) = With(x, F) \o With(p, F)
      BY <1>8, WithJoint
    <2> QED
      BY <1>9, <2>1, Zenon
  <1>11. u = job.extra \o job.passthrough
    BY <1>7, <1>8 DEF IsJoint
  <1>12. PICK r \in Seq(AllOptions) : IsJoint(r, v, a)
    BY Joint
  <1>13. ~(Len(r) > 1) /\ Len(r) = Len(v) + Len(a)
    BY <1>2, <1>10, <1>11, <1>12 DEF IsJoint
  <1>14. Len(v) \in Nat /\ Len(a) \in Nat
    OBVIOUS
  <1>15. ~(Len(a) > 1)
    BY <1>13, <1>14
  <1>16. ASSUME f = "--model", Named PROVE a = <<>>
    <2>1. v = <<Option("--model", job.model, NoNumber)>>
      BY <1>3, <1>7, <1>9, <1>16, ExtraWith
    <2>2. \A e : Len(<<e>>) = 1
      OBVIOUS
    <2>3. Len(v) = 1
      BY <2>1, <2>2, Zenon
    <2>4. Len(a) = 0
      BY <1>13, <1>14, <2>3
    <2> QED
      BY <2>4, EmptySeq
  <1>17. a \in Seq(Options)
    BY <1>5, <1>7, <1>9, OptionByOption
  <1> QED
    BY <1>5, <1>7, <1>9, <1>15, <1>16, <1>17 DEF F

\* Of the flags serve adds nothing to, the command has what the user gave.
LEMMA CommandOfModel ==
    ASSUME CommandInvariant, phase = "ready", ~Repeated("--model")
    PROVE  Parsed("--model").text = job.model
  <1> DEFINE F == {"--model"}
  <1>1. /\ F \cap {"--enable-auto-tool-choice", "--tool-call-parser"} = {}
        /\ "--reasoning-parser" \notin F /\ "--port" \notin F /\ "--model" \in F
        /\ F \cap (OwnFlags \cup {Positional}) = {} /\ "--model" \notin OwnFlags \cup {Positional}
    BY DEF OwnFlags, LongctxSwitches, Positional
  <1>2. PICK a \in Seq(Options) : a = With(args, F) /\ ~(Len(a) > 1) /\ (Named => a = <<>>)
    BY <1>1, NotRepeated
  <1>3. Parsed("--model") = IF With(job.command, F) # <<>> THEN Last(With(job.command, F))
                            ELSE Option("--model", "", NoNumber)
    BY DEF Parsed, LastOf, HasFlag
  <1>4. ExtractModel(args) = (IF With(args, F) # <<>> THEN Head(With(args, F))
                              ELSE Option("--model", "", NoNumber)).text
    BY DEF ExtractModel, FirstOf, HasFlag
  <1>5. job.model = IF Named THEN Head(args).text ELSE ExtractModel(args)
    BY DEF CommandInvariant, JobFits
  <1>6. \A t : Option("--model", t, NoNumber).text = t
    BY DEF Option
  <1> HIDE DEF F
  <1>7. PICK v \in Seq(AllOptions), w \in Seq(AllOptions), x \in Seq(AllOptions),
             y \in Seq(AllOptions), z \in Seq(AllOptions) :
          /\ v = With(job.extra, F) /\ w = With(ToolArgs, F) /\ x = With(ReasoningArgs, F)
          /\ y = With(Rest, F) /\ z = With(OwnPort, F)
          /\ With(job.command, F) = v \o (w \o x) \o y \o z
    BY CommandHas
  <1>8. w = <<>> /\ x = <<>> /\ y = a /\ z = <<>>
    BY <1>1, <1>2, <1>7, ToolArgsWith, ReasoningArgsWith, RestWith, OwnPortWith
  <1>9. CASE Named
    <2>1. y = <<>>
      BY <1>2, <1>8, <1>9
    <2>2. v = <<Option("--model", job.model, NoNumber)>>
      BY <1>1, <1>7, <1>9, ExtraWith
    <2>3. v \o (w \o x) \o y \o z = v
      BY <1>8, <2>1, OneSpeaks
    <2>4. \A e : <<e>> # <<>> /\ Last(<<e>>) = e
      BY DEF Last
    <2>5. Parsed("--model") = Option("--model", job.model, NoNumber)
      BY <1>3, <1>7, <2>2, <2>3, <2>4, Zenon
    <2> QED
      BY <1>6, <2>5
  <1>10. CASE ~Named
    <2>1. v = <<>>
      BY <1>7, <1>10, ExtraWith
    <2>2. v \o (w \o x) \o y \o z = y
      BY <1>8, <2>1, OneSpeaks
    <2>3. With(job.command, F) = a
      BY <1>7, <1>8, <2>2
    <2>4. a # <<>> => Head(a) = Last(a)
      BY <1>2, FirstIsLast
    <2> QED
      BY <1>2, <1>3, <1>4, <1>5, <1>10, <2>3, <2>4, Zenon
  <1> QED
    BY <1>9, <1>10

LEMMA CommandOfMaxModelLen ==
    ASSUME CommandInvariant, phase = "ready", ~Repeated("--max-model-len")
    PROVE  ExtractMaxModelLen(job.passthrough) = Parsed("--max-model-len").number
  <1> DEFINE F == {"--max-model-len"}
  <1>1. /\ F \cap {"--enable-auto-tool-choice", "--tool-call-parser"} = {}
        /\ "--reasoning-parser" \notin F /\ "--port" \notin F /\ "--model" \notin F
        /\ F \cap (OwnFlags \cup {Positional}) = {}
        /\ "--max-model-len" \notin OwnFlags \cup {Positional}
    BY DEF OwnFlags, LongctxSwitches, Positional
  <1>2. PICK a \in Seq(Options) : a = With(args, F) /\ a = With(job.passthrough, F) /\ ~(Len(a) > 1)
    BY <1>1, NotRepeated
  <1>3. Parsed("--max-model-len") = IF With(job.command, F) # <<>> THEN Last(With(job.command, F))
                                    ELSE Option("--max-model-len", "", NoNumber)
    BY DEF Parsed, LastOf, HasFlag
  <1>4. ExtractMaxModelLen(job.passthrough) =
          (IF With(job.passthrough, F) # <<>> THEN Head(With(job.passthrough, F))
           ELSE Option("--max-model-len", "", NoNumber)).number
    BY DEF ExtractMaxModelLen, FirstOf, HasFlag
  <1> HIDE DEF F
  <1>5. PICK v \in Seq(AllOptions), w \in Seq(AllOptions), x \in Seq(AllOptions),
             y \in Seq(AllOptions), z \in Seq(AllOptions) :
          /\ v = With(job.extra, F) /\ w = With(ToolArgs, F) /\ x = With(ReasoningArgs, F)
          /\ y = With(Rest, F) /\ z = With(OwnPort, F)
          /\ With(job.command, F) = v \o (w \o x) \o y \o z
    BY CommandHas
  <1>6. v = <<>> /\ w = <<>> /\ x = <<>> /\ y = a /\ z = <<>>
    BY <1>1, <1>2, <1>5, ExtraWith, ToolArgsWith, ReasoningArgsWith, RestWith, OwnPortWith
  <1>7. v \o (w \o x) \o y \o z = y
    BY <1>6, OneSpeaks
  <1>8. With(job.command, F) = a
    BY <1>5, <1>6, <1>7
  <1>9. a # <<>> => Head(a) = Last(a)
    BY <1>2, FirstIsLast
  <1> QED
    BY <1>2, <1>3, <1>4, <1>8, <1>9, Zenon

LEMMA CommandOfParsers ==
    ASSUME CommandInvariant, phase = "ready"
    PROVE  /\ job.tool \in {"", Parsed("--tool-call-parser").text}
           /\ job.reasoning \in {"", Parsed("--reasoning-parser").text}
  <1>1. \A e : <<e>> # <<>> /\ Last(<<e>>) = e
    BY DEF Last
  <1>2. \A f, t : Option(f, t, NoNumber).text = t
    BY DEF Option
  <1>3. ASSUME job.tool # "" PROVE job.tool = Parsed("--tool-call-parser").text
    <2> DEFINE F == {"--tool-call-parser"}
    <2>1. /\ "--enable-auto-tool-choice" \notin F /\ "--tool-call-parser" \in F
          /\ "--reasoning-parser" \notin F /\ "--port" \notin F /\ "--model" \notin F
          /\ F \subseteq ToolFlags
      BY DEF ToolFlags
    <2>2. Parsed("--tool-call-parser") =
            IF With(job.command, F) # <<>> THEN Last(With(job.command, F))
            ELSE Option("--tool-call-parser", "", NoNumber)
      BY DEF Parsed, LastOf, HasFlag
    <2> HIDE DEF F
    <2>3. PICK v \in Seq(AllOptions), w \in Seq(AllOptions), x \in Seq(AllOptions),
               y \in Seq(AllOptions), z \in Seq(AllOptions) :
            /\ v = With(job.extra, F) /\ w = With(ToolArgs, F) /\ x = With(ReasoningArgs, F)
            /\ y = With(Rest, F) /\ z = With(OwnPort, F)
            /\ With(job.command, F) = v \o (w \o x) \o y \o z
      BY CommandHas
    <2>4. v = <<>> /\ x = <<>> /\ z = <<>>
      BY <2>1, <2>3, ExtraWith, ReasoningArgsWith, OwnPortWith
    <2>5. y = <<>>
      BY <1>3, <2>1, <2>3, ParsersWith
    <2>6. w = <<Option("--tool-call-parser", job.tool, NoNumber)>>
      BY <1>3, <2>1, <2>3, ToolArgsWith
    <2>7. v \o (w \o x) \o y \o z = w
      BY <2>4, <2>5, OneSpeaks
    <2>8. Parsed("--tool-call-parser") = Option("--tool-call-parser", job.tool, NoNumber)
      BY <1>1, <2>2, <2>3, <2>6, <2>7, Zenon
    <2> QED
      BY <1>2, <2>8
  <1>4. ASSUME job.reasoning # "" PROVE job.reasoning = Parsed("--reasoning-parser").text
    <2> DEFINE F == {"--reasoning-parser"}
    <2>1. /\ F \cap {"--enable-auto-tool-choice", "--tool-call-parser"} = {}
          /\ "--reasoning-parser" \in F /\ "--port" \notin F /\ "--model" \notin F
          /\ F \subseteq ReasoningFlags
      BY DEF ReasoningFlags
    <2>2. Parsed("--reasoning-parser") =
            IF With(job.command, F) # <<>> THEN Last(With(job.command, F))
            ELSE Option("--reasoning-parser", "", NoNumber)
      BY DEF Parsed, LastOf, HasFlag
    <2> HIDE DEF F
    <2>3. PICK v \in Seq(AllOptions), w \in Seq(AllOptions), x \in Seq(AllOptions),
               y \in Seq(AllOptions), z \in Seq(AllOptions) :
            /\ v = With(job.extra, F) /\ w = With(ToolArgs, F) /\ x = With(ReasoningArgs, F)
            /\ y = With(Rest, F) /\ z = With(OwnPort, F)
            /\ With(job.command, F) = v \o (w \o x) \o y \o z
      BY CommandHas
    <2>4. v = <<>> /\ w = <<>> /\ z = <<>>
      BY <2>1, <2>3, ExtraWith, ToolArgsWith, OwnPortWith
    <2>5. y = <<>>
      BY <1>4, <2>1, <2>3, ParsersWith
    <2>6. x = <<Option("--reasoning-parser", job.reasoning, NoNumber)>>
      BY <1>4, <2>1, <2>3, ReasoningArgsWith
    <2>7. v \o (w \o x) \o y \o z = x
      BY <2>4, <2>5, OneSpeaks
    <2>8. Parsed("--reasoning-parser") = Option("--reasoning-parser", job.reasoning, NoNumber)
      BY <1>1, <2>2, <2>3, <2>6, <2>7, Zenon
    <2> QED
      BY <1>2, <2>8
  <1> QED
    BY <1>3, <1>4

\* The port the user's clients connect to.
LEMMA PortOfUser ==
    ASSUME CommandInvariant, phase = "ready"
    PROVE  /\ ExtractPort(job.passthrough) \in Int
           /\ ~Repeated("--port") =>
                 \/ ExtractPort(job.passthrough) = Asked("--port").number
                 \/ Asked("--port").number = NoNumber
  <1>0. PICK n \in Int : n = 8000
    OBVIOUS
  <1> DEFINE F == {"--port"}
             p == With(job.passthrough, F)
             first == IF p # <<>> THEN Head(p) ELSE Option("--port", "", n)
  <1>1. /\ F \cap (OwnFlags \cup {Positional}) = {} /\ "--port" \notin OwnFlags \cup {Positional}
        /\ "--port" # "--model"
    BY DEF OwnFlags, LongctxSwitches, Positional
  <1>2. ExtractPort(job.passthrough) = IF first.number = NoNumber THEN n ELSE first.number
    BY <1>0 DEF ExtractPort, FirstOf, HasFlag
  <1>3. Asked("--port") = IF With(args, F) # <<>> THEN Last(With(args, F)) ELSE Option("--port", "", NoNumber)
    BY DEF Asked, LastOf, HasFlag
  <1>4. ~Repeated("--port") => p = With(args, F) /\ ~(Len(p) > 1)
    BY <1>1, NotRepeated
  <1>5. p \in Seq(Options)
    BY PassthroughWith, OptionByOption
  <1>6. \A m : Option("--port", "", m).number = m
    BY DEF Option
  <1> HIDE DEF F, p
  <1>7. first.number \in Int \cup {NoNumber}
    <2>2. /\ p = <<>> => first = Option("--port", "", n)
          /\ p # <<>> => first = Head(p)
      BY Zenon
    <2>3. p # <<>> => Head(p) \in Options
      BY <1>5, HeadTailProperties
    <2>4. \A o \in Options : o.number \in Int \cup {NoNumber}
      BY DEF Options
    <2> HIDE DEF first
    <2> QED
      BY <1>6, <2>2, <2>3, <2>4, Zenon
  <1>8. ASSUME ~Repeated("--port"), p # <<>> PROVE first = Asked("--port")
    <2>1. Head(p) = Last(p)
      BY <1>4, <1>5, <1>8, FirstIsLast
    <2> QED
      BY <1>3, <1>4, <1>8, <2>1
  <1>9. ASSUME ~Repeated("--port"), p = <<>> PROVE Asked("--port").number = NoNumber
    BY <1>3, <1>4, <1>6, <1>9
  <1> HIDE DEF first
  <1> QED
    BY <1>2, <1>7, <1>8, <1>9

\* Whatever serve is called with and finds, the proxy stands between the
\* user's clients and the port vLLM listens on, and knows how vLLM runs.
THEOREM ProxyAlwaysFronts == LaunchSpec => []ProxyFrontsVllm
  <1>1. ASSUME CommandInvariant PROVE ProxyFrontsVllm
    <2>1. SUFFICES ASSUME phase = "ready", job.proxied PROVE ProxyFrontsVllm
      BY DEF ProxyFrontsVllm
    <2>2. /\ ProxySettings.user = ExtractPort(job.passthrough) /\ ProxySettings.upstream = job.upstream
          /\ ProxySettings.arch = Arch /\ ProxySettings.tool = job.tool
          /\ ProxySettings.reasoning = job.reasoning
          /\ ProxySettings.maxLen = ExtractMaxModelLen(job.passthrough)
      BY DEF ProxySettings
    <2>3. Parsed("--port").number = job.upstream
      <3>1. \A e : <<e>> # <<>> /\ Last(<<e>>) = e
        BY DEF Last
      <3>2. Option("--port", "", job.upstream).number = job.upstream
        BY DEF Option
      <3>3. With(job.command, {"--port"}) = <<Option("--port", "", job.upstream)>>
        BY <1>1, <2>1, OnePort
      <3> QED
        BY <3>1, <3>2, <3>3, Zenon DEF Parsed, LastOf, HasFlag
    <2>4. /\ job.upstream \notin env.busy
          /\ job.upstream # ExtractPort(job.passthrough) \/ ExtractPort(job.passthrough) \in Ephemeral
      <3>1. job.upstream \in FreePort(Preferred)
        BY <1>1, <2>1 DEF CommandInvariant, CommandFits
      <3>2. ExtractPort(job.passthrough) \in Int
        BY <1>1, <2>1, PortOfUser
      <3> QED
        BY <3>1, <3>2 DEF FreePort, Preferred
    <2>5. \/ Repeated("--port") \/ ExtractPort(job.passthrough) = Asked("--port").number
          \/ Asked("--port").number = NoNumber
      BY <1>1, <2>1, PortOfUser
    <2>6. \/ Repeated("--max-model-len")
          \/ ExtractMaxModelLen(job.passthrough) = Parsed("--max-model-len").number
      BY <1>1, <2>1, CommandOfMaxModelLen
    <2>7. /\ job.tool \in {"", Parsed("--tool-call-parser").text}
          /\ job.reasoning \in {"", Parsed("--reasoning-parser").text}
      BY <1>1, <2>1, CommandOfParsers
    <2>8. \/ Repeated("--model") \/ Parsed("--model").text = ""
          \/ Arch = env.dirs[Parsed("--model").text].arch
      <3>1. Repeated("--model") \/ Parsed("--model").text = job.model
        BY <1>1, <2>1, CommandOfModel
      <3> QED
        BY <3>1 DEF Arch
    <2> QED
      BY <2>2, <2>3, <2>4, <2>5, <2>6, <2>7, <2>8 DEF ProxyFrontsVllm
  <1> QED
    BY <1>1, AlwaysCommandInvariant, PTL

-----------------------------------------------------------------------------
(* DetectorsInStep                                                         *)

LEMMA EverySeq ==
    ASSUME NEW S, NEW s \in Seq(S), s # <<>>
    PROVE  /\ \A i \in DOMAIN s : s[i] \in S
           /\ 1 \in DOMAIN s /\ Head(s) = s[1]
  <1>1. Len(s) \in Nat /\ Len(s) # 0 /\ DOMAIN s = 1 .. Len(s)
    BY EmptySeq
  <1> QED
    BY <1>1

\* A model that is named has a directory, if only one that is not there.
LEMMA ModelHasArch ==
    ASSUME CommandInvariant, phase = "detected", job.model # ""
    PROVE  Arch = env.dirs[job.model].arch /\ Arch \in Seq(STRING)
  <1> DEFINE F == {"--model"}
             R == {o \in Options : o.text # "" => o.text \in DOMAIN env.dirs}
  <1>1. args \in Seq(Options) /\ args # <<>>
    BY DEF CommandInvariant, ArgsFit, JobFits
  <1>0. /\ \A i \in DOMAIN args : args[i] \in Options
        /\ 1 \in DOMAIN args /\ Head(args) = args[1]
    BY ONLY <1>1, EverySeq
  <1>2. ASSUME NEW i \in DOMAIN args, args[i].flag \in F \cup {Positional} PROVE args[i] \in R
    BY <1>0, <1>2 DEF CommandInvariant, ArgsFit
  <1>3. \A o \in R : o.text # "" => o.text \in DOMAIN env.dirs
    OBVIOUS
  <1>4. job.model = IF Named THEN Head(args).text ELSE ExtractModel(args)
    BY DEF CommandInvariant, JobFits
  <1>5. ExtractModel(args) = (IF With(args, F) # <<>> THEN Head(With(args, F))
                              ELSE Option("--model", "", NoNumber)).text
    BY DEF ExtractModel, FirstOf, HasFlag
  <1>6. Option("--model", "", NoNumber).text = ""
    BY DEF Option
  <1> HIDE DEF F, R
  <1>7. With(args, F) \in Seq(R)
    BY <1>1, <1>2, WithFrom
  <1>8. With(args, F) # <<>> => Head(With(args, F)) \in R
    BY <1>7, HeadTailProperties
  <1>9. Named => Head(args) \in R
    BY <1>0, <1>2 DEF Named
  <1>10. job.model \in DOMAIN env.dirs
    BY <1>3, <1>4, <1>5, <1>6, <1>8, <1>9, Zenon
  <1> QED
    BY <1>10 DEF Arch, CommandInvariant, ArgsFit

\* Whatever model serve is called with, the two detectors agree on it as far
\* as their tables do, and the proxy has one repair to make of it.
THEOREM DetectorsAgree == LaunchSpec => []DetectorsInStep
  <1>1. ASSUME CommandInvariant PROVE DetectorsInStep
    <2>1. SUFFICES ASSUME phase = "detected" PROVE DetectorsInStep
      BY DEF DetectorsInStep
    <2> DEFINE dir == env.dirs[job.model]
    <2>2. /\ job.tool # "" => job.model # "" /\ job.tool = ToolParser(dir)
          /\ job.reasoning # "" => job.model # "" /\ job.reasoning = ReasoningParser(dir)
      BY <1>1, <2>1 DEF CommandInvariant, ParsersFit
    <2>3. job.model # "" => Arch = dir.arch /\ Arch \in Seq(STRING)
      BY <1>1, <2>1, ModelHasArch
    <2>4. ASSUME job.tool # "", job.reasoning # ""
          PROVE  /\ job.tool = "kimi_k2" =>
                       \/ job.reasoning = "kimi_k2"
                       \/ job.reasoning = "deepseek_r1" /\ dir.marks \cap {"r1", "distill"} # {}
                 /\ job.reasoning = "kimi_k2" =>
                       \/ job.tool = "kimi_k2"
                       \/ StartsWith(Arch, {<<"Deepseek", "V3", "1">>, <<"Deepseek", "V3", "2">>})
      <3> DEFINE tool == OfArch(dir.arch, ToolArchs)
                 reasoning == OfArch(dir.arch, ReasoningArchs)
      <3>0. dir.arch = Arch /\ Arch \in Seq(STRING)
        BY <2>2, <2>3, <2>4
      <3>1. /\ tool # "" => job.tool = RefinedTool(tool, dir.marks)
            /\ tool = "" => job.tool # "kimi_k2"
        BY <2>2, <2>4, NoKimiTemplate DEF ToolParser
      <3>2. /\ reasoning # "" => job.reasoning = RefinedReasoning(reasoning, dir.marks)
            /\ reasoning = "" => job.reasoning # "kimi_k2"
        BY <2>2, <2>4, NoKimiTemplate DEF ReasoningParser
      <3>3. /\ tool = "kimi_k2" => StartsWith(dir.arch, {<<"Kimi">>})
            /\ tool = "deepseek_v3" => StartsWith(dir.arch, Deepseeks)
            /\ reasoning = "kimi_k2" => StartsWith(dir.arch, {<<"Kimi">>})
            /\ reasoning = "deepseek_v3" => StartsWith(dir.arch, Deepseeks)
        BY KimiArchs
      <3>4. StartsWith(dir.arch, {<<"Kimi">>}) => tool = "kimi_k2" /\ reasoning = "kimi_k2"
        BY <3>0, KimiRows
      <3>5. StartsWith(dir.arch, Deepseeks) => reasoning = "deepseek_v3"
        BY <3>0, DeepseekReasonings DEF Deepseeks
      <3>6. StartsWith(dir.arch, Deepseeks) =>
              \/ tool = "deepseek_v3"
              \/ StartsWith(Arch, {<<"Deepseek", "V3", "1">>, <<"Deepseek", "V3", "2">>})
        BY <3>0, DeepseekTools DEF Deepseeks
      <3> HIDE DEF dir, tool, reasoning
      <3>7. /\ RefinedTool("kimi_k2", dir.marks) = "kimi_k2"
            /\ RefinedReasoning("kimi_k2", dir.marks) = "kimi_k2"
        BY DEF RefinedTool, RefinedReasoning
      <3>8. RefinedTool(tool, dir.marks) = "kimi_k2" =>
              tool = "kimi_k2" \/ (tool = "deepseek_v3" /\ "kimi" \in dir.marks)
        BY DEF RefinedTool
      <3>9. RefinedReasoning(reasoning, dir.marks) = "kimi_k2" =>
              reasoning = "kimi_k2" \/ (reasoning = "deepseek_v3" /\ "kimi" \in dir.marks)
        BY DEF RefinedReasoning
      <3>10. "kimi" \in dir.marks =>
               /\ RefinedTool("deepseek_v3", dir.marks) = "kimi_k2"
               /\ \/ RefinedReasoning("deepseek_v3", dir.marks) = "kimi_k2"
                  \/ /\ RefinedReasoning("deepseek_v3", dir.marks) = "deepseek_r1"
                     /\ dir.marks \cap {"r1", "distill"} # {}
        BY DEF RefinedTool, RefinedReasoning
      <3>11. job.tool = "kimi_k2" =>
               \/ job.reasoning = "kimi_k2"
               \/ job.reasoning = "deepseek_r1" /\ dir.marks \cap {"r1", "distill"} # {}
        BY <3>1, <3>2, <3>3, <3>4, <3>5, <3>7, <3>8, <3>10
      <3>12. job.reasoning = "kimi_k2" =>
               \/ job.tool = "kimi_k2"
               \/ StartsWith(Arch, {<<"Deepseek", "V3", "1">>, <<"Deepseek", "V3", "2">>})
        BY <3>1, <3>2, <3>3, <3>4, <3>6, <3>7, <3>9, <3>10
      <3> QED
        BY <3>11, <3>12
    <2>5. ASSUME NeedsRewrite(Arch), job.tool \in LeakyToolParsers PROVE FALSE
      <3>1. job.tool = "phi4_mini_json"
        BY <2>5 DEF LeakyToolParsers
      <3>2. OfArch(dir.arch, ToolArchs) = "qwen3_coder"
        BY <2>2, <2>3, <2>5, <3>1, NemotronRows
      <3>3. ToolParser(dir) \in {"", RefinedTool("qwen3_coder", dir.marks)}
        BY <3>2 DEF ToolParser
      <3>4. RefinedTool("qwen3_coder", dir.marks) = "qwen3_coder"
        BY DEF RefinedTool
      <3> QED
        BY <2>2, <3>1, <3>3, <3>4
    <2> QED
      BY <2>4, <2>5 DEF DetectorsInStep
  <1> QED
    BY <1>1, AlwaysCommandInvariant, PTL
=============================================================================
