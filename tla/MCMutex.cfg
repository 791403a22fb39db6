\* Every derivation of up to twelve steps.
CONSTANTS
    MaxSteps = 12
SPECIFICATION Spec
INVARIANTS
    SafetySound
    CombinedOnReachable
PROPERTIES
    Implements
CHECK_DEADLOCK FALSE
