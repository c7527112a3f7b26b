\* The connection is lost while submit_sm awaits a sequence number: is the
\* submit_sm still written and pushed on the unacked ledger?
CONSTANTS
    Role = "TRX"
    Conformant = TRUE
    MaxPdus = 4
    MaxSubmits = 2
    MaxSegments = 2
    HandlersMayFail = FALSE
    SeqMayFail = FALSE
SPECIFICATION FairSpec
INVARIANT NoSubmitAfterLoss
CHECK_DEADLOCK FALSE
