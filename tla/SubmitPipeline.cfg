\* One submit_sm per configuration and input: segments, headers, USSD info.
SPECIFICATION Spec
CONSTANTS
    MsgLengths <- MCMsgLengths
    SessionInfos <- MCSessionInfos
    RefNums = {1, 255}
    MaxCalls = 1
INVARIANT Reassembles
INVARIANT SegmentHeaders
INVARIANT UssdEndOfSession
INVARIANT NoPartialSubmit
CHECK_DEADLOCK FALSE
