\* More wildcards than the walk records without the heap.
SPECIFICATION Spec
CONSTANTS
    Registrations <- MCNineRegs
    Requests <- MCNineRequests
    Paths <- MCPaths
    MaxRoutes = 2
    MaxUses = 0
    MaxLate = 0
    DotNames = {".w"}
    RedirectModes = {TRUE}
    Decoded <- MCDecoded
    Escaped <- MCEscaped
    Slashed <- MCSlashed
    PairwiseLimit = 32
    MaxInlineParams = 8
INVARIANTS
    BindingsFromWinner
