\* An SMSC that sends its bind response before the bind (or twice): does every
\* connectionLost still reach the disconnect callback?
CONSTANTS
    Role = "TRX"
    Conformant = FALSE
    MaxPdus = 4
    MaxSubmits = 2
    MaxSegments = 2
    HandlersMayFail = FALSE
    SeqMayFail = FALSE
SPECIFICATION FairSpec
INVARIANT DisconnectOnLoss
CHECK_DEADLOCK FALSE
