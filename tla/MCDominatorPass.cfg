CONSTANTS
    Graphs <- MCGraphs
SPECIFICATION Spec
INVARIANTS
    DominatorsExact
    DominatorsFirst
PROPERTIES
    PassEnds
CHECK_DEADLOCK FALSE
