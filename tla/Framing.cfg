\* Every short list of Content-Length and Transfer-Encoding values.
SPECIFICATION Spec
CONSTANTS
    Base = 3
    MaxDigits = 4
    MaxInt = 31
    CLLists <- MCCLLists
    TELists <- MCTELists
    Numerals <- MCSizes
INVARIANTS
    OneReading PlainHeadsAccepted ChunkSizeExact
\* The program stops once one question is answered.
CHECK_DEADLOCK FALSE
