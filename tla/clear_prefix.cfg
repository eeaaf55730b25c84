SPECIFICATION StartSpec
CONSTANTS
    Environments <- MCEnvironments
INVARIANTS
    ClearsOwnObjectsOnly
CHECK_DEADLOCK FALSE
