CONSTANTS
    Locals <- MCLocals
    Globals <- MCGlobals
    Functions <- MCFunctions
    Bodies <- MCBodies
SPECIFICATION Spec
INVARIANTS
    UsesExact
    InferenceAgrees
    AccessesGuarded
    
    
PROPERTIES
    EffectsStay
