SPECIFICATION FairSpec
CONSTANTS
    p1 = p1  p2 = p2  w1 = w1
    Pods <- MCPods
    Workloads <- MCWorkloads
    OwnerOf <- MCOwnerOf
    Ignored = {}
    Kinds <- MCKinds
    StatusOf <- MCStatusOf
    Fresh = "fine"
    GitOps = "pr"
    Slots = 1
    MaxInFlight = 2
    Channels = 3
    TTL = 2
    HandlerTimeout = 1
INVARIANTS ShutdownKeepsRecords OnePagePerFix
PROPERTIES NoDeleteStorm LoneProblemHandled
