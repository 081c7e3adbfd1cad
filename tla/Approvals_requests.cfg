SPECIFICATION FairSpec
CONSTANTS
    c1 = c1  c2 = c2  w1 = w1  w2 = w2
    i1 = i1  i2 = i2  ch1 = ch1  ch2 = ch2  ann = ann
    Controllers <- MCControllers
    Workers <- MCWorkers2
    Host <- MCHost2
    Ids <- MCIds
    Changes <- MCOneChange
    Rebuilds <- MCRebuildsAll
    Users <- MCApprovers
    Approvers <- MCApprovers
    Viewed <- MCOneController
    MaxApprovals = 2
    TTL = 1
    MaxTries = 2
    MaxClock = 0
    MaxLate = 0
INVARIANTS OnePending
PROPERTIES RequestReturns
CHECK_DEADLOCK FALSE
