SPECIFICATION Spec
CONSTANTS
    c1 = c1  c2 = c2  w1 = w1  w2 = w2
    i1 = i1  i2 = i2  ch1 = ch1  ch2 = ch2  ann = ann
    Controllers <- MCControllers
    Workers <- MCWorkers2
    Host <- MCHost2
    Ids <- MCIds
    Changes <- MCChanges
    Rebuilds <- MCRebuilds
    Users <- MCApprovers
    Approvers <- MCApprovers
    Viewed = {}
    MaxApprovals = 1
    TTL = 1
    MaxTries = 2
    MaxClock = 1
    MaxLate = 1
SYMMETRY IdSymmetry
INVARIANTS AtMostOnce OneDecision ResultTrue
PROPERTIES PendingKept ImplementsQueue
CHECK_DEADLOCK FALSE
