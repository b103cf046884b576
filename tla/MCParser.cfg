CONSTANTS
    Width32 = 12
    Width64 = 24
    Inputs <- MCInputs
    AnyNumber <- MCAnyNumber
SPECIFICATION Spec
INVARIANTS
    AcceptedIsSpelled
    SpelledIsAccepted
