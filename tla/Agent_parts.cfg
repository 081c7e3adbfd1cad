SPECIFICATION AgentSpec
CONSTANTS
    Observed <- MCObserved
    TTL = 3
    Hour = 4
    Day = 5
    Services = {1, 2, 3, 4}
    Sample = 2
    Conditions = {"memory"}
    Handlers = {1, 2}
    Evictable = {"p1"}
    MaxFaults = 1
    MaxLag = 2
    Actions = {"a1", "a2"}
    Settle = 1
    Stable = 1
    GiveUp = 3
    MaxLen = 1
    Controls = TRUE
    Pods = {"p1", "p2"}
    Names = {"a1", "a2", "b1"}
    Ns <- MCNs
    Written <- MCWritten
    Absent <- NoObject
    Half = 4
    TooBig <- MCTooBig
    Leaders = {1, 2}
    Policies <- MCLimits
    Global <- MCGlobal
    Answers <- MCAnswers
    MaxReplicas = 3
    Aged = 2
INVARIANTS NeverSilent EveryServiceDialled OutageTold UncordonedUnlessMissed PendingTold ActionsConserved FixedStayedHealthy PolicyInForce
PROPERTIES EvictionsCovered CooldownHolds FollowsLoad LeaderVerifies
CHECK_DEADLOCK FALSE
