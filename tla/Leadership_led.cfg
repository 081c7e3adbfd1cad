SPECIFICATION FairSpec
CONSTANTS
    c1 = c1  c2 = c2
    Controllers <- MCTwo
    MaxOutages = 2
    MaxCrashes = 0
PROPERTIES EventuallyLed
CHECK_DEADLOCK FALSE
