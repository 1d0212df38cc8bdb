CONSTANTS
    Ids = {1, 2}
    Requests <- MCRequests
    Elements = {"a", "b"}
    InitialPollSize = 1
    PollSizeStep = 1
    CtrlCapacity = 2
    MaxLost = 2
SPECIFICATION FairSpec
INVARIANTS PolledElementsStay PollArraysFit MonitorCatchesUp
PROPERTY CommandIsAnswered
CHECK_DEADLOCK FALSE
