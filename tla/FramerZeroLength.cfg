\* A header with command_length 0: the frame put on the queue is not the PDU.
SPECIFICATION Spec
CONSTANTS
    Lengths <- MalformedLengths
    MaxPdus = 2
    MaxChunk = 24
    MaxFrames = 4
INVARIANT FramesArePdus
CHECK_DEADLOCK FALSE
