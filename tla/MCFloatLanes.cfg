CONSTANTS
    Width32 = 12
    Width64 = 24
    Inputs <- FloatLaneInputs
    AnyNumber <- MCAnyNumber
SPECIFICATION Spec
INVARIANTS
    SpelledIsAccepted
