\* A pull and a login, every fault once, two processes.
SPECIFICATION FairSpec
CONSTANTS
    c1 = c1  l1 = l1  p1 = p1  p2 = p2  a1 = a1
    None = None
    Commands <- PullAndLogin
    Logins <- OneLogin
    Procs <- TwoProcs
    Agents <- OneAgent
    MaxWait = 1
    MaxTries = 2
    MaxFaults = 1
    Faults <- AllFaults
INVARIANTS TypeOK TwoListenersNeedACause RunningIsFound
PROPERTIES ListenerComesBack ImplementsAutostart
