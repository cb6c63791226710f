\* The trailing-slash redirect as documented.
SPECIFICATION Spec
CONSTANTS
    Registrations <- MCSlashRegs
    Requests <- MCRequests
    Paths <- MCPaths
    MaxRoutes = 2
    MaxUses = 0
    MaxLate = 0
    DotNames = {".w"}
    RedirectModes = {TRUE}
    Decoded <- MCDecoded
    Escaped <- MCEscaped
    Slashed <- MCSlashed
    PairwiseLimit = 32
    MaxInlineParams = 8
INVARIANTS
    RedirectOnlyWhereServed
