CONSTANTS
    Modules <- MCModules
    MemoryBound = 3
    TableBound = 2
SPECIFICATION Spec
INVARIANTS
    VerdictIsSoundness
    SpacesAgree
    NeverAborts
    UsesExact
