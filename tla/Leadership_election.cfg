SPECIFICATION FairSpec
CONSTANTS
    c1 = c1  c2 = c2
    Controllers <- MCTwo
    MaxOutages = 3
    MaxCrashes = 2
INVARIANTS OneLeader
PROPERTIES SuccessorLeads StandbysForward ImplementsOffice
CHECK_DEADLOCK FALSE
