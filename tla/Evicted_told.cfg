SPECIFICATION Spec
CONSTANTS
    Pods = {p1, p2}
    TTL = 1
    Day = 2
INVARIANTS EvictionTold
