\* HEAD as documented.
SPECIFICATION Spec
CONSTANTS
    Registrations <- MCHeadRegs
    Requests <- MCRequests
    Paths <- MCPaths
    MaxRoutes = 3
    MaxUses = 0
    MaxLate = 0
    DotNames = {".w"}
    RedirectModes = {TRUE}
    Decoded <- MCDecoded
    Escaped <- MCEscaped
    Slashed <- MCSlashed
    PairwiseLimit = 32
    MaxInlineParams = 8
INVARIANTS
    ExplicitHeadWins
