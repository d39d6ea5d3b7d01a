SPECIFICATION FairSpec
CONSTANTS
    Jobs <- MCJobs
    SessionLists <- MCSessionLists
    MaxJobs = 1
    MaxWire = 1
    ChallengeWait = 1
    RpcWait = 2
    Faults = {"config", "down", "refuse", "nocli", "unsure", "hang"}
INVARIANTS
    SuccessWasTaken
    TwiceOnlyIfUnsure
    ChoiceIsRight
PROPERTIES
    EndsUnlessCliHangs
    ImplementsHandover
CHECK_DEADLOCK FALSE
