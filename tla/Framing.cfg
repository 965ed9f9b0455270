\* Every body of up to 8 bytes, in reads of 1 to 3.
SPECIFICATION Spec
CONSTANTS
    Bytes = {0, 1, 3, 5, 6}
    Metering = 1
    MaxMsg = 5
    MaxHeader = 3
    MaxBuffer = 8
    MaxChunk = 3
    MaxLen = 8
INVARIANTS
    TypeOK
    SinkReadsTheBody
    ParsersAgree
CHECK_DEADLOCK FALSE
