\* The network drops the connection while connectionMade awaits its sequence
\* number: is a bind timeout still armed after connectionLost?
CONSTANTS
    Role = "TRX"
    Conformant = TRUE
    MaxPdus = 4
    MaxSubmits = 2
    MaxSegments = 2
    HandlersMayFail = FALSE
    SeqMayFail = FALSE
SPECIFICATION FairSpec
INVARIANT NoTimerAfterLoss
CHECK_DEADLOCK FALSE
