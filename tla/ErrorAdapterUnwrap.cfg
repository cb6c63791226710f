\* A middleware's writer that hides what is below its Unwrap.
SPECIFICATION Spec
CONSTANTS
    Writers <- MCHidingWriters
    ErrorMapper <- DefaultErrorMapper
    Statuses = {200}
    Bodies <- MCBodies
    JSONLimits = {2}
    MaxInt = 7
    MaxCalls = 1
INVARIANTS
    ErrorStandsAlone
