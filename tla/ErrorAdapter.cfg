\* Any calls of a handler, any error, and writers that hide nothing.
SPECIFICATION Spec
CONSTANTS
    Writers <- MCWriters
    ErrorMapper <- DefaultErrorMapper
    Statuses = {200, 404}
    Bodies <- MCBodies
    JSONLimits = {0, 2}
    MaxInt = 7
    MaxCalls = 3
INVARIANTS
    TypeOK ErrorStandsAlone FailureIsVisible AbortHasCause WholeBodyDecoded
PROPERTIES
    ImplementsResponse
