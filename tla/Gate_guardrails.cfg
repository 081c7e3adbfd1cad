SPECIFICATION MCSpec
CONSTANTS
    g1 = g1  g2 = g2  nsA = nsA  nsB = nsB  nsC = nsC  wlA = wlA  wlB = wlB  wlC = wlC  node = node  polA = polA
    Procs <- MCProcs
    Namespaces <- MCNamespaces
    Workloads <- MCWorkloads
    NsOf <- MCNsOf
    Mutations <- MCMutations
    NoMutation = NoMutation
    Policies <- MCPolicies
    PolicyOf <- MCPolicyAll
    MaxPerHour <- MCMaxPerHour
    RequireApproval = {}
    NoRestarts <- MCPolicies
    MaxActions <- MCMaxActions
    LimitWindow = 1
    Threshold = 2
    MaxNamespaces = 1
    Hour = 2
    QuietTimes = {0}
    Modes <- MCModes
    Scopes <- MCScopes
    MaxClock = 3
SYMMETRY Symmetry
INVARIANTS BlastTwoWindows BudgetOvershoot DryRunForesees
PROPERTIES FixesHaveOwnBudget ImplementsWindows
CHECK_DEADLOCK FALSE
