SPECIFICATION MCSpec
CONSTANTS
    c1 = c1  c2 = c2  cm = cm  v1 = v1  v2 = v2
    wa = wa  wb = wb
    Controllers <- MCTwo
    Objects <- MCObject
    Values <- MCValues
    Workloads <- MCWls
    Order <- MCOrder
    KindOf <- MCKinds
    Reloads <- MCReloads
    MaxEdits = 3
    MaxEvents = 3
    MaxHandovers = 1
    MaxStalls = 1
    MaxListErrors = 1
INVARIANTS NothingLostByLeader
PROPERTIES WavesEnd NeverReapplied
CHECK_DEADLOCK FALSE
