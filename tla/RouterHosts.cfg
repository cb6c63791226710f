\* A host-scoped table as documented.
SPECIFICATION Spec
CONSTANTS
    Registrations <- MCHostRegs
    Requests <- MCHostRequests
    Paths <- MCPaths
    MaxRoutes = 2
    MaxUses = 0
    MaxLate = 0
    DotNames = {".w"}
    RedirectModes = {TRUE}
    Decoded <- MCDecoded
    Escaped <- MCEscaped
    Slashed <- MCSlashed
    PairwiseLimit = 32
    MaxInlineParams = 8
INVARIANTS
    HostNotFoundIsHonest
