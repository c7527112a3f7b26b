\* Well-formed PDUs in arbitrary TCP chunks: the loop implements the in-order PDU stream.
SPECIFICATION Spec
CONSTANTS
    Lengths <- WellFormedLengths
    MaxPdus = 3
    MaxChunk = 24
    MaxFrames = 4
INVARIANT FramesArePdus
PROPERTY ImplementsPduStream
CHECK_DEADLOCK FALSE
