----------------------------- MODULE ServeProofs -----------------------------
(***************************************************************************)
(* However signals, deadlines and deaths fall, serve leaves no engine core *)
(* it has not told to stop, unless the server crashed.                     *)
(***************************************************************************)
EXTENDS ServeLifecycle, TLAPS

\* Who tells the server tells its cores.
CoresToldWithServer == Server \in signalled => Alive \cap Cores \subseteq signalled

\* No core is older than the server.
NothingBeforeServer == proc[Server] = "none" => Alive \cap Cores = {}

\* The server has not gone without a reason, unless a signal ended serve.
GoneForAReason ==
    proc[Server] \in {"dead", "reaped"} /\ pc # "interrupted" => crashed \/ Server \in signalled

\* serve waits for a server it has told to stop.
ToldBeforeReaping == pc = "reaping" /\ proc[Server] = "alive" => Server \in signalled

ReapedBeforeSweep ==
    /\ pc = "sweep" => proc[Server] = "reaped"
    /\ pc = "exited" => proc[Server] \in {"none", "reaped"}

\* serve starts the server when it leaves the launch, and never again.
StartedByLaunch ==
    /\ pc = "launching" => proc[Server] = "none" /\ ~own
    /\ pc \notin {"launching"} \cup Over => proc[Server] # "none"

ServeInv ==
    /\ ServeTypeOK
    /\ CoresToldWithServer
    /\ NothingBeforeServer
    /\ GoneForAReason
    /\ ToldBeforeReaping
    /\ ReapedBeforeSweep
    /\ StartedByLaunch

LEMMA ServeInvInit == ASSUME ServeAssumption, Init PROVE ServeInv
  <1>1. Server \in Procs /\ Alive \cap Cores = {}
    BY DEF Init, Procs, Alive
  <1> QED
    BY <1>1 DEF Init, ServeInv, ServeTypeOK, CoresToldWithServer, NothingBeforeServer,
                GoneForAReason, ToldBeforeReaping, ReapedBeforeSweep, StartedByLaunch, Over

-----------------------------------------------------------------------------
(* vLLM                                                                    *)

LEMMA SpawnCoreInv ==
    ASSUME ServeAssumption, ServeInv, NEW c \in Cores, SpawnCore(c) PROVE ServeInv'
  <1>1. c \in Procs /\ c # Server /\ Server \in Procs
    BY DEF ServeAssumption, Procs
  <1>2. /\ proc' \in [Procs -> {"none", "alive", "dead", "reaped"}]
        /\ proc'[Server] = "alive"
        /\ \A p \in Procs : proc[p] # "none" => proc'[p] = proc[p]
    BY <1>1 DEF SpawnCore, ServeInv, ServeTypeOK
  <1>3. ServeTypeOK'
    BY <1>1, <1>2 DEF SpawnCore, ServeInv, ServeTypeOK
  <1>4. /\ (CoresToldWithServer /\ GoneForAReason /\ ToldBeforeReaping)'
        /\ (NothingBeforeServer /\ ReapedBeforeSweep /\ StartedByLaunch)'
    BY <1>2 DEF SpawnCore, ServeInv, CoresToldWithServer, NothingBeforeServer, GoneForAReason,
                ToldBeforeReaping, ReapedBeforeSweep, StartedByLaunch
  <1> QED
    BY <1>3, <1>4 DEF ServeInv

LEMMA BecomeReadyInv ==
    ASSUME ServeInv, BecomeReady PROVE ServeInv'
  BY DEF BecomeReady, ServeInv, ServeTypeOK, CoresToldWithServer, NothingBeforeServer,
         GoneForAReason, ToldBeforeReaping, ReapedBeforeSweep, StartedByLaunch, Alive

LEMMA DieInv ==
    ASSUME ServeAssumption, ServeInv, NEW p \in Procs, Die(p) PROVE ServeInv'
  <1>1. /\ proc' \in [Procs -> {"none", "alive", "dead", "reaped"}]
        /\ proc'[p] = "dead"
        /\ \A q \in Procs : q # p => proc'[q] = proc[q]
        /\ proc[p] = "alive"
    BY DEF Die, ServeInv, ServeTypeOK
  <1>2. Server \in Procs
    BY DEF Procs
  <1>3. ServeTypeOK'
    BY <1>1, <1>2 DEF Die, ServeInv, ServeTypeOK
  <1>4. CoresToldWithServer' /\ NothingBeforeServer'
    BY <1>1, <1>2 DEF Die, ServeInv, CoresToldWithServer, NothingBeforeServer, Alive
  <1>5. (GoneForAReason /\ ToldBeforeReaping /\ ReapedBeforeSweep /\ StartedByLaunch)'
    BY <1>1, <1>2 DEF Die, ServeInv, GoneForAReason, ToldBeforeReaping, ReapedBeforeSweep,
                      StartedByLaunch
  <1> QED
    BY <1>3, <1>4, <1>5 DEF ServeInv

-----------------------------------------------------------------------------
(* serve                                                                   *)

\* The launch, whatever comes of it.
LEMMA LaunchingInv ==
    ASSUME ServeAssumption, ServeInv, Launching PROVE ServeInv'
  <1>1. Server \in Procs /\ proc[Server] = "none" /\ Alive \cap Cores = {}
    BY DEF Procs, Launching, Decline, Spawn, RunDirect, Start, ServeInv, NothingBeforeServer,
           StartedByLaunch
  <1>2. CASE Decline
    BY <1>1, <1>2 DEF Decline, ServeInv, ServeTypeOK, CoresToldWithServer, NothingBeforeServer,
        GoneForAReason, ToldBeforeReaping, ReapedBeforeSweep, StartedByLaunch, Alive, Over
  <1>3. CASE Spawn \/ RunDirect
    <2>1. /\ proc' \in [Procs -> {"none", "alive", "dead", "reaped"}]
          /\ proc'[Server] = "alive"
          /\ \A p \in Procs : p # Server => proc'[p] = proc[p]
          /\ pc' \in {"spawned", "direct"}
          /\ UNCHANGED <<own, signalled, ready, crashed, asked>>
      BY <1>1, <1>3 DEF Spawn, RunDirect, Start, ServeInv, ServeTypeOK
    <2>2. Alive' \cap Cores = {}
      BY <1>1, <2>1 DEF Alive, ServeAssumption
    <2> QED
      BY <1>1, <2>1, <2>2 DEF ServeInv, ServeTypeOK, CoresToldWithServer, NothingBeforeServer,
          GoneForAReason, ToldBeforeReaping, ReapedBeforeSweep, StartedByLaunch, Over
  <1> QED
    BY <1>2, <1>3 DEF Launching

\* What a call of _shutdown_pgroup leaves, whatever it finds: the group told,
\* or a server that was dead already reaped.
LEMMA ShutdownPgroupTells ==
    ASSUME ServeAssumption, ServeInv, ShutdownPgroup, UNCHANGED <<ready, crashed>>,
           pc \notin {"launching"} \cup Over
    PROVE  /\ proc' \in [Procs -> {"none", "alive", "dead", "reaped"}]
           /\ signalled' \subseteq {p \in Procs : proc'[p] # "none"}
           /\ ready' => proc'[Server] = "alive"
           /\ CoresToldWithServer' /\ GoneForAReason'
           /\ proc'[Server] = "alive" => Server \in signalled'
           /\ proc'[Server] # "none"
           /\ proc[Server] = "reaped" => proc'[Server] = "reaped"
  <1>1. Server \in Procs /\ Cores \subseteq Procs /\ proc[Server] # "none" /\ pc # "interrupted"
    BY DEF Procs, ServeInv, StartedByLaunch, Over
  <1>2. CASE proc[Server] = "alive"
    BY <1>1, <1>2 DEF ShutdownPgroup, GroupSignalled, Alive, ServeInv, ServeTypeOK,
                      CoresToldWithServer, GoneForAReason
  <1>3. CASE proc[Server] # "alive"
    <2>1. /\ proc' \in [Procs -> {"none", "alive", "dead", "reaped"}]
          /\ proc'[Server] = "reaped"
          /\ \A p \in Procs : p # Server => proc'[p] = proc[p]
          /\ signalled' = signalled
      BY <1>1, <1>3 DEF ShutdownPgroup, ServeInv, ServeTypeOK
    <2>2. Alive' \subseteq Alive
      BY <2>1 DEF Alive
    <2> QED
      BY <1>1, <1>3, <2>1, <2>2 DEF ServeInv, ServeTypeOK, CoresToldWithServer, GoneForAReason
  <1> QED
    BY <1>2, <1>3

\* The actions that call it.
LEMMA CallsShutdownInv ==
    ASSUME ServeAssumption, ServeInv, NeverReady \/ Shutdown \/ SignalHandled
    PROVE  ServeInv'
  <1>1. /\ ShutdownPgroup /\ UNCHANGED <<ready, crashed, own>>
        /\ pc \notin {"launching"} \cup Over
    BY DEF NeverReady, Shutdown, SignalHandled, ServeInv, StartedByLaunch, Over
  <1>2. /\ pc' \in {"spawned", "direct", "waiting", "aborting", "proxy", "shutdown", "reaping",
                   "sweep"}
        /\ asked' \in BOOLEAN
        /\ pc' = "sweep" => pc = "sweep"
    BY <1>1 DEF NeverReady, Shutdown, SignalHandled, ServeInv, ServeTypeOK, Over
  <1>3. ServeTypeOK'
    BY <1>1, <1>2, ShutdownPgroupTells DEF ServeInv, ServeTypeOK
  <1>4. (CoresToldWithServer /\ NothingBeforeServer /\ GoneForAReason /\ ToldBeforeReaping)'
    BY <1>1, ShutdownPgroupTells DEF NothingBeforeServer, ToldBeforeReaping
  <1>5. ReapedBeforeSweep' /\ StartedByLaunch'
    BY <1>1, <1>2, ShutdownPgroupTells DEF ServeInv, ReapedBeforeSweep, StartedByLaunch
  <1> QED
    BY <1>3, <1>4, <1>5 DEF ServeInv

\* The actions that wait for the server.
LEMMA WaitsInv ==
    ASSUME ServeAssumption, ServeInv, Abort \/ Reap \/ DirectEnds PROVE ServeInv'
  <1>1. Server \in Procs /\ proc[Server] \in {"alive", "dead", "reaped"}
    BY DEF Procs, Abort, Reap, DirectEnds, ServeInv, ServeTypeOK, StartedByLaunch, Over
  <1>2. /\ proc' \in [Procs -> {"none", "alive", "dead", "reaped"}]
        /\ \A p \in Procs : p # Server => proc'[p] = proc[p]
        /\ proc[Server] = "alive" => proc'[Server] = "alive"
        /\ proc[Server] # "alive" => proc'[Server] = "reaped"
    BY <1>1 DEF Abort, Reap, DirectEnds, ServeInv, ServeTypeOK
  <1>3. ServeTypeOK'
    BY <1>1, <1>2 DEF Abort, Reap, DirectEnds, ServeInv, ServeTypeOK, Over
  <1>4. Alive' \subseteq Alive
    BY <1>1, <1>2 DEF Alive
  <1>5. CoresToldWithServer' /\ NothingBeforeServer'
    BY <1>1, <1>2, <1>4 DEF Abort, Reap, DirectEnds, ServeInv, CoresToldWithServer,
                            NothingBeforeServer
  <1>6. (GoneForAReason /\ ToldBeforeReaping /\ ReapedBeforeSweep /\ StartedByLaunch)'
    BY <1>1, <1>2 DEF Abort, Reap, DirectEnds, ServeInv, GoneForAReason, ToldBeforeReaping,
                      ReapedBeforeSweep, StartedByLaunch, Over
  <1> QED
    BY <1>3, <1>5, <1>6 DEF ServeInv

\* The server told to stop is what makes its SIGKILL harmless to CoresTold.
LEMMA KillGroupInv ==
    ASSUME ServeAssumption, ServeInv, KillGroup PROVE ServeInv'
  <1>1. Server \in Procs
    BY DEF Procs
  <1>2. /\ proc' \in [Procs -> {"none", "alive", "dead", "reaped"}]
        /\ proc'[Server] = "reaped"
        /\ \A p \in Procs : proc'[p] # "alive" /\ (proc[p] # "none" => proc'[p] # "none")
    BY <1>1 DEF KillGroup, Alive, ServeInv, ServeTypeOK
  <1>3. ServeTypeOK'
    BY <1>2 DEF KillGroup, ServeInv, ServeTypeOK
  <1>4. CoresToldWithServer' /\ NothingBeforeServer'
    BY <1>2 DEF CoresToldWithServer, NothingBeforeServer, Alive
  <1>5. (GoneForAReason /\ ToldBeforeReaping /\ ReapedBeforeSweep /\ StartedByLaunch)'
    BY <1>2 DEF KillGroup, ServeInv, GoneForAReason, ToldBeforeReaping, ReapedBeforeSweep,
                StartedByLaunch, Over
  <1> QED
    BY <1>3, <1>4, <1>5 DEF ServeInv

LEMMA SweepInv ==
    ASSUME ServeAssumption, ServeInv, Sweep PROVE ServeInv'
  <1>1. proc[Server] = "reaped" /\ proc \in [Procs -> {"none", "alive", "dead", "reaped"}]
    BY DEF Sweep, ServeInv, ServeTypeOK, ReapedBeforeSweep
  <1>2. proc' = [p \in Procs |-> proc[p]]
    BY <1>1 DEF Sweep, Hunted
  <1>3. proc' = proc
    BY <1>1, <1>2
  <1> QED
    BY <1>1, <1>3 DEF Sweep, ServeInv, ServeTypeOK, CoresToldWithServer, NothingBeforeServer,
        GoneForAReason, ToldBeforeReaping, ReapedBeforeSweep, StartedByLaunch, Alive, Over

\* A SIGINT without the proxy.
LEMMA InterruptDirectInv ==
    ASSUME ServeAssumption, ServeInv, InterruptDirect PROVE ServeInv'
  <1>1. Server \in Procs /\ proc[Server] # "none"
    BY DEF Procs, InterruptDirect, ServeInv, StartedByLaunch, Over
  <1>2. /\ proc' \in [Procs -> {"none", "alive", "dead", "reaped"}]
        /\ proc'[Server] = "reaped"
        /\ \A p \in Procs : p # Server => proc'[p] = proc[p]
    BY <1>1 DEF InterruptDirect, ServeInv, ServeTypeOK
  <1>3. ServeTypeOK'
    BY <1>1, <1>2 DEF InterruptDirect, ServeInv, ServeTypeOK, Over
  <1>4. CoresToldWithServer' /\ NothingBeforeServer'
    BY <1>1, <1>2 DEF InterruptDirect, ServeInv, CoresToldWithServer, NothingBeforeServer, Alive
  <1>5. (GoneForAReason /\ ToldBeforeReaping /\ ReapedBeforeSweep /\ StartedByLaunch)'
    BY <1>1, <1>2 DEF InterruptDirect, ServeInv, GoneForAReason, ToldBeforeReaping,
                      ReapedBeforeSweep, StartedByLaunch, Over
  <1> QED
    BY <1>3, <1>4, <1>5 DEF ServeInv

\* The actions that move serve on and touch no process.
LEMMA MovesOnInv ==
    ASSUME ServeInv,
           InstallHandlers \/ Answered \/ ProxyFails \/ SignalProxy \/ SignalDeadly
    PROVE  ServeInv'
  <1>1. /\ UNCHANGED <<proc, signalled, ready, crashed>>
        /\ pc' \in {"waiting", "proxy", "shutdown", "interrupted"}
        /\ pc' # "interrupted" => pc \notin {"launching"} \cup Over
        /\ own' \in BOOLEAN /\ asked' \in BOOLEAN
    BY DEF InstallHandlers, Answered, ProxyFails, SignalProxy, SignalDeadly,
           ServeInv, ServeTypeOK, Over
  <1> QED
    BY <1>1 DEF ServeInv, ServeTypeOK, CoresToldWithServer, NothingBeforeServer, GoneForAReason,
                ToldBeforeReaping, ReapedBeforeSweep, StartedByLaunch, Alive, Over

LEMMA ServeInvStep == ASSUME ServeAssumption, ServeInv, [Next]_serveVars PROVE ServeInv'
  <1>1. CASE Vllm
    BY <1>1, SpawnCoreInv, BecomeReadyInv, DieInv DEF Vllm
  <1>2. CASE Launching
    BY <1>2, LaunchingInv
  <1>3. CASE Behind
    BY <1>3, MovesOnInv, CallsShutdownInv, WaitsInv, KillGroupInv, SweepInv DEF Behind
  <1>4. CASE Events
    BY <1>4, MovesOnInv, CallsShutdownInv, InterruptDirectInv DEF Events
  <1>5. CASE UNCHANGED serveVars
    BY <1>5 DEF serveVars, ServeInv, ServeTypeOK, CoresToldWithServer, NothingBeforeServer,
                GoneForAReason, ToldBeforeReaping, ReapedBeforeSweep, StartedByLaunch, Alive
  <1> QED
    BY <1>1, <1>2, <1>3, <1>4, <1>5 DEF Next

THEOREM ServeInvHolds == ServeSpec => []ServeInv
  BY ServeInvInit, ServeInvStep, ServeAssumption, PTL DEF ServeSpec

-----------------------------------------------------------------------------
\* For any set of cores: serve's state is well typed, and it never signals a
\* process that its server did not start.
THEOREM ServeTypeCorrect == ServeSpec => []ServeTypeOK
  <1>1. ServeInv => ServeTypeOK
    BY DEF ServeInv
  <1> QED
    BY <1>1, ServeInvHolds, PTL

\* For any set of cores and any order of signals, deadlines and deaths: when
\* serve has waited for its server, no engine core is left alive and untold,
\* unless the server crashed.
THEOREM NoCoreUntold == ServeSpec => []CoresTold
  <1>1. ServeInv => CoresTold
    BY DEF ServeInv, CoresTold, CoresToldWithServer, NothingBeforeServer, GoneForAReason,
           ReapedBeforeSweep
  <1> QED
    BY <1>1, ServeInvHolds, PTL
=============================================================================
