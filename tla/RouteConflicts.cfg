\* Tables of up to five routes; groups of more than two are split.
SPECIFICATION Spec
CONSTANTS
    Registrations <- MCConflictRegs
    Requests <- MCNoRequests
    Paths <- MCPaths
    MaxRoutes = 5
    MaxUses = 1
    MaxLate = 1
    DotNames = {".w"}
    RedirectModes = {TRUE}
    Decoded <- MCDecoded
    Escaped <- MCEscaped
    Slashed <- MCSlashed
    PairwiseLimit = 2
    MaxInlineParams = 8
INVARIANTS
    TypeOK ConflictsReported NoFalseConflict
\* Nothing is left to do once the calls after Build are used up.
CHECK_DEADLOCK FALSE
