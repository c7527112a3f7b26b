\* A transceiver against a conformant SMSC: the bind lifecycle, the bind
\* timeout, PDU handling and two-segment submits, with the network free to
\* drop the connection at any point and a handler await free to fail.
CONSTANTS
    Role = "TRX"
    Conformant = TRUE
    MaxPdus = 5
    MaxSubmits = 3
    MaxSegments = 3
    HandlersMayFail = TRUE
    SeqMayFail = TRUE
SPECIFICATION FairSpec
INVARIANT TypeOK
INVARIANT LedgerCoversInFlight
INVARIANT LoopStoppedAfterLoss
PROPERTY ConnectOnceBeforeDisconnect
PROPERTY BindResolves
PROPERTY LinkCheckRuns
CHECK_DEADLOCK FALSE
