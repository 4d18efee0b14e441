\* Every launch of up to three options, or of any model, and then a server with
\* two engine cores (data parallel), started one after the other.
CONSTANTS
    server = server
    core1 = core1
    core2 = core2
    Server = server
    Cores = {core1, core2}
    Launches <- EveryLaunch
    SidecarUrl = "sidecar"
    NoNumber = NoNumber
SPECIFICATION FairLaunchSpec
INVARIANTS
    ServeTypeOK
    CoresTold
    CommandFaithful
    ProxyFrontsVllm
    SidecarTied
    DetectorsInStep
PROPERTIES
    StopsWhenAsked
\* serve exits.
CHECK_DEADLOCK FALSE
