\* Three requests, two layers, room for two requests; the copy of one fails
\* after the first layer.
CONSTANTS
    r1 = r1
    r2 = r2
    r3 = r3
    Requests = {r1, r2, r3}
    NoRequest = NoRequest
    Sampling = {}
    MaxConcurrent = 2
    NumSlots = 3
    MaxPos = 3
    NumLayers = 2
    FailsAt <- Fails
SYMMETRY Symmetry
VIEW View
SPECIFICATION HybridSpec
INVARIANTS
    HybridTypeOK
    MapSurvivesFailures
PROPERTIES
    LayersImplementEngine
\* Token positions are bounded.
CHECK_DEADLOCK FALSE
