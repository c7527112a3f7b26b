\* A transceiver against a conformant SMSC that unbinds: does a submit_sm
\* call made after handle_unbind still send its segments?
CONSTANTS
    Role = "TRX"
    Conformant = TRUE
    MaxPdus = 3
    MaxSubmits = 1
    MaxSegments = 1
    HandlersMayFail = FALSE
    SeqMayFail = FALSE
SPECIFICATION FairSpec
PROPERTY SubmitRefusedAfterUnbind
CHECK_DEADLOCK FALSE
