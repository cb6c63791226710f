\* Up to three messages on a connection, cut anywhere, in both profiles.
SPECIFICATION Spec
CONSTANTS
    Wires <- MCWires
    profileLimits <- MCLimits
    Requests <- MCRequests
    Base = 10
    MaxDigits = 2
    MaxInt = 12
    MaxRead = 4
INVARIANTS
    TypeOK InStep VerdictJustified ViewsExact RootParserAgrees
PROPERTIES
    HeadsAnswered
