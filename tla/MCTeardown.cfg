CONSTANTS
    Types = {"i32"}
    CondType = "i32"
    Scopes <- MCTeardownScopes
SPECIFICATION Spec
INVARIANTS
    TeardownRemovesOwn
