\* Every table of up to three routes, every request;
\* the array of bindings is too small for the longest pattern.
SPECIFICATION Spec
CONSTANTS
    Registrations <- MCMatchRegs
    Requests <- MCRequests
    Paths <- MCPaths
    MaxRoutes = 3
    MaxUses = 0
    MaxLate = 0
    DotNames = {".w"}
    RedirectModes = {TRUE, FALSE}
    Decoded <- MCDecoded
    Escaped <- MCEscaped
    Slashed <- MCSlashed
    PairwiseLimit = 32
    MaxInlineParams = 2
INVARIANTS
    MostSpecificServed BindingsFromWinner AllowIsHonest NotFoundIsHonest RedirectsEnd
    CleanFormReached
