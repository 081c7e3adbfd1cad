SPECIFICATION FairSpec
CONSTANTS
    a1 = a1  n1 = n1  n2 = n2
    Agents <- MCAgents
    Namespaces <- MCNamespaces
    Ceiling <- MCCeiling
    Configs <- MCConfigs
    Choices <- MCChoices
    MaxEdits = 3
    MaxBoots = 2
    MaxQueue = 5
INVARIANTS NowhereUntilRead StoredChoiceHolds
PROPERTIES StoredFollowed
CHECK_DEADLOCK FALSE
