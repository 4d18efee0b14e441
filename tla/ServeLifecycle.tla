--------------------------- MODULE ServeLifecycle ---------------------------
(* The processes of `vllm-swift serve` (src/vllm_swift/cli.py).  _serve       *)
(* either runs vLLM's api server and waits for it to end, or leaves it to     *)
(* _serve_with_rewriter, which starts the server in a process group of its    *)
(* own, waits until it answers, runs the proxy, and on every way out signals  *)
(* the group, waits for the server and hunts for engine cores.                *)
EXTENDS FiniteSets

CONSTANTS
    Server,     \* the api server
    Cores       \* the VLLM::EngineCore processes it may spawn

ServeAssumption == Server \notin Cores
ASSUME ServeAssumption

Procs == {Server} \cup Cores

VARIABLES
    pc,         \* where _serve is, and then _serve_with_rewriter
    own,        \* its own handlers of SIGINT and SIGTERM are installed
    proc,       \* each process: "none", "alive", "dead" (a zombie), "reaped"
    signalled,  \* processes that were sent SIGTERM
    ready,      \* /health answers
    crashed,    \* history: the server has died before anyone told it to
    asked       \* history: serve was sent SIGINT or SIGTERM

serveVars == <<pc, own, proc, signalled, ready, crashed, asked>>

Alive == {p \in Procs : proc[p] = "alive"}

\* serve has returned, or a signal has ended it where it was.
Over == {"exited", "interrupted"}

Init ==
    /\ pc = "launching"
    /\ own = FALSE
    /\ proc = [p \in Procs |-> "none"]
    /\ signalled = {}
    /\ ready = FALSE /\ crashed = FALSE /\ asked = FALSE

-----------------------------------------------------------------------------
(* vLLM                                                                    *)

\* A server that was told to stop starts no core.
SpawnCore(c) ==
    /\ proc[Server] = "alive" /\ Server \notin signalled
    /\ proc[c] = "none"
    /\ proc' = [proc EXCEPT ![c] = "alive"]
    /\ UNCHANGED <<pc, own, signalled, ready, crashed, asked>>

BecomeReady ==
    /\ proc[Server] = "alive" /\ Server \notin signalled
    /\ Alive \cap Cores # {}
    /\ ready' = TRUE
    /\ UNCHANGED <<pc, own, proc, signalled, crashed, asked>>

\* A process dies, of a signal or of itself.  Its children need not notice, and
\* a process that was told to stop need not die.
Die(p) ==
    /\ proc[p] = "alive"
    /\ proc' = [proc EXCEPT ![p] = "dead"]
    /\ ready' = (ready /\ p # Server)
    /\ crashed' = (crashed \/ (p = Server /\ p \notin signalled))
    /\ UNCHANGED <<pc, own, signalled, asked>>

-----------------------------------------------------------------------------
(* serve                                                                   *)

\* Mutant: proc.terminate() in place of killpg.
TerminatedOnly == signalled \cup {Server}

\* Mutant: pkill of whatever is called VLLM::EngineCore.
AnyCore == signalled \cup Procs

\* serve gives up before there is a process.
Decline ==
    /\ pc = "launching"
    /\ pc' = "exited"
    /\ UNCHANGED <<own, proc, signalled, ready, crashed, asked>>

\* The server is started and serve goes on where it stays.
Start(where) ==
    /\ pc = "launching"
    /\ pc' = where
    /\ proc' = [proc EXCEPT ![Server] = "alive"]
    /\ UNCHANGED <<own, signalled, ready, crashed, asked>>

\* Popen.
Spawn == Start("spawned")

\* subprocess.call, which waits for the server ...
RunDirect == Start("direct")

\* ... until it ends.
DirectEnds ==
    /\ pc = "direct" /\ proc[Server] # "alive"
    /\ pc' = "exited"
    /\ proc' = [proc EXCEPT ![Server] = "reaped"]
    /\ UNCHANGED <<own, signalled, ready, crashed, asked>>

\* killpg reaches the server and all its cores.
GroupSignalled == signalled \cup Alive

\* poll() reaps a server that is dead, and then nothing is signalled.
ShutdownPgroup ==
    \/ /\ proc[Server] = "alive"
       /\ signalled' = GroupSignalled
       /\ UNCHANGED proc
    \/ /\ proc[Server] # "alive"
       /\ proc' = [proc EXCEPT ![Server] = "reaped"]
       /\ UNCHANGED signalled

InstallHandlers ==
    /\ pc = "spawned"
    /\ pc' = "waiting" /\ own' = TRUE
    /\ UNCHANGED <<proc, signalled, ready, crashed, asked>>

\* The readiness loop has an answer.  It never looks at the child.
Answered ==
    /\ pc = "waiting" /\ ready
    /\ pc' = "proxy" /\ own' = FALSE
    /\ UNCHANGED <<proc, signalled, ready, crashed, asked>>

\* ... or has reached its deadline.
NeverReady ==
    /\ pc = "waiting"
    /\ pc' = "aborting"
    /\ ShutdownPgroup
    /\ UNCHANGED <<own, ready, crashed, asked>>

\* proc.wait(timeout=10) returns or raises; either way the finally block follows.
Abort ==
    /\ pc = "aborting"
    /\ pc' = "shutdown"
    /\ \/ proc[Server] = "alive" /\ UNCHANGED proc
       \/ proc[Server] # "alive" /\ proc' = [proc EXCEPT ![Server] = "reaped"]
    /\ UNCHANGED <<own, signalled, ready, crashed, asked>>

\* The proxy cannot bind its port.
ProxyFails ==
    /\ pc = "proxy"
    /\ pc' = "shutdown"
    /\ UNCHANGED <<own, proc, signalled, ready, crashed, asked>>

\* The finally block.
Shutdown ==
    /\ pc = "shutdown"
    /\ pc' = "reaping"
    /\ ShutdownPgroup
    /\ UNCHANGED <<own, ready, crashed, asked>>

\* wait(timeout=10) returns.
Reap ==
    /\ pc = "reaping" /\ proc[Server] # "alive"
    /\ pc' = "sweep"
    /\ proc' = [proc EXCEPT ![Server] = "reaped"]
    /\ UNCHANGED <<own, signalled, ready, crashed, asked>>

\* Mutant: no SIGKILL before the second wait().
WaitLonger == Reap

\* It does not: the group is killed, and wait() takes the server.
KillGroup ==
    /\ pc = "reaping" /\ proc[Server] = "alive"
    /\ pc' = "sweep"
    /\ proc' = [p \in Procs |-> IF p = Server THEN "reaped"
                                ELSE IF p \in Alive THEN "dead" ELSE proc[p]]
    /\ ready' = FALSE
    /\ UNCHANGED <<own, signalled, crashed, asked>>

\* The engine cores in the group of the server's pid; a pid that wait() has
\* reaped has none.
Hunted == IF proc[Server] = "reaped" THEN {} ELSE Alive \cap Cores

\* _kill_orphan_engine_cores, whose pgrep may fail.
Sweep ==
    /\ pc = "sweep"
    /\ pc' = "exited"
    /\ \E killed \in {{}, Hunted} :
          proc' = [p \in Procs |-> IF p \in killed THEN "dead" ELSE proc[p]]
    /\ UNCHANGED <<own, signalled, ready, crashed, asked>>

-----------------------------------------------------------------------------
(* SIGINT or SIGTERM for serve                                             *)

\* With its own handler installed it shuts vLLM down and goes on where it was.
SignalHandled ==
    /\ pc \notin Over /\ own
    /\ asked' = TRUE
    /\ ShutdownPgroup
    /\ UNCHANGED <<pc, own, ready, crashed>>

\* run_app has a handler of its own, which ends it.
SignalProxy ==
    /\ pc = "proxy"
    /\ asked' = TRUE
    /\ pc' = "shutdown"
    /\ UNCHANGED <<own, proc, signalled, ready, crashed>>

\* Before the handlers are installed, and after run_app has removed its own and
\* left the default ones, a signal ends serve; without the proxy a SIGTERM does
\* at any time.
SignalDeadly ==
    /\ pc \notin Over \cup {"proxy"} /\ ~own
    /\ asked' = TRUE
    /\ pc' = "interrupted"
    /\ UNCHANGED <<own, proc, signalled, ready, crashed>>

\* SIGINT in subprocess.call, which kills the server it waits for, and no core.
InterruptDirect ==
    /\ pc = "direct"
    /\ asked' = TRUE
    /\ pc' = "interrupted"
    /\ proc' = [proc EXCEPT ![Server] = "reaped"]
    /\ ready' = FALSE
    /\ UNCHANGED <<own, signalled, crashed>>

Vllm ==
    \/ \E c \in Cores : SpawnCore(c)
    \/ BecomeReady
    \/ \E p \in Procs : Die(p)

\* The steps serve takes behind vLLM without being told to.
Behind ==
    \/ InstallHandlers
    \/ Answered
    \/ NeverReady
    \/ Abort
    \/ Shutdown
    \/ Reap
    \/ KillGroup
    \/ Sweep
    \/ DirectEnds

Launching == Decline \/ Spawn \/ RunDirect

\* The steps that need not happen.
Events ==
    \/ ProxyFails
    \/ SignalHandled
    \/ SignalProxy
    \/ SignalDeadly
    \/ InterruptDirect

Next == Vllm \/ Launching \/ Behind \/ Events

ServeSpec == Init /\ [][Next]_serveVars
FairServeSpec == ServeSpec /\ WF_serveVars(Launching \/ Behind)

-----------------------------------------------------------------------------
(* Properties                                                              *)

\* Types; serve signals none but processes that its server has started, and
\* /health is answered by a live server.
ServeTypeOK ==
    /\ pc \in {"launching", "direct", "spawned", "waiting", "aborting", "proxy", "shutdown",
              "reaping", "sweep"} \cup Over
    /\ proc \in [Procs -> {"none", "alive", "dead", "reaped"}]
    /\ signalled \subseteq {p \in Procs : proc[p] # "none"}
    /\ own \in BOOLEAN /\ ready \in BOOLEAN /\ crashed \in BOOLEAN /\ asked \in BOOLEAN
    /\ ready => proc[Server] = "alive"

\* On every way out that gets to the hunt, the server is gone for good and
\* every engine core still alive was told to stop, wherever signals, deadlines
\* and deaths fell; unless the server crashed by itself (README, Divergences).
CoresTold ==
    pc \in {"sweep", "exited"} =>
        /\ proc[Server] \in {"none", "reaped"}
        /\ crashed \/ Alive \cap Cores \subseteq signalled

\* Once serve was asked to stop it comes to an end, even if vLLM ignores
\* SIGTERM, never gets ready or has crashed; unless an answer to /health that
\* was on its way lets it go on to run the proxy (README, Divergences).
StopsWhenAsked == asked ~> pc \in Over \cup {"proxy"}
=============================================================================
