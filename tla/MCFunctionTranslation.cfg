CONSTANTS
    Types = {"i32"}
    CondType = "i32"
    Scopes <- MCScopes
SPECIFICATION Spec
INVARIANTS
    UsesExact
    NoAssertionFails
    PhisMatchFlow
    StacksAgree
    OperandsDominate
    SameBehaviour
PROPERTIES
    EveryRunShrinks
