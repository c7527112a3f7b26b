\* One failed await inside a handler: are the PDUs queued after it handled?
CONSTANTS
    Role = "TRX"
    Conformant = TRUE
    MaxPdus = 3
    MaxSubmits = 1
    MaxSegments = 1
    HandlersMayFail = TRUE
    SeqMayFail = FALSE
SPECIFICATION FairSpec
PROPERTY QueueServed
CHECK_DEADLOCK FALSE
