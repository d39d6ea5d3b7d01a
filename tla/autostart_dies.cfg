\* One pull, nothing goes wrong, no service manager is needed.
SPECIFICATION FairSpec
CONSTANTS
    c1 = c1  l1 = l1  p1 = p1  p2 = p2  a1 = a1
    None = None
    Commands <- OnePull
    Logins <- NoLogin
    Procs <- TwoProcs
    Agents <- OneAgent
    MaxWait = 2
    MaxTries = 2
    MaxFaults = 0
    Faults <- NoFault
PROPERTY StaysUp
