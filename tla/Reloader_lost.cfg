SPECIFICATION Spec
CONSTANTS
    c1 = c1  c2 = c2  cm = cm  v1 = v1  v2 = v2
    wa = wa  wb = wb
    Controllers <- MCTwo
    Objects <- MCObject
    Values <- MCValues
    Workloads <- MCWls
    Order <- MCOrder
    KindOf <- MCNightly
    Reloads <- MCReloads
    MaxEdits = 1
    MaxEvents = 3
    MaxHandovers = 1
    MaxStalls = 0
    MaxListErrors = 0
INVARIANTS NothingLost
CHECK_DEADLOCK FALSE
