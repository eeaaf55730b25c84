SPECIFICATION StartSpec
CONSTANTS
    Environments <- MCEnvironments
INVARIANTS
    NeverSilentlyLocal
    FallbackServes
    ClearCoversServer
    InjectionContained
    NoHalfCredentials
CHECK_DEADLOCK FALSE
