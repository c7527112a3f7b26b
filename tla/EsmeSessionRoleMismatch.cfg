\* A transmitter whose SMSC answers with bind_transceiver_resp: does it
\* bind as BOUND_TX?
CONSTANTS
    Role = "TX"
    Conformant = FALSE
    MaxPdus = 2
    MaxSubmits = 1
    MaxSegments = 1
    HandlersMayFail = FALSE
    SeqMayFail = FALSE
SPECIFICATION FairSpec
INVARIANT BoundAsRole
CHECK_DEADLOCK FALSE
