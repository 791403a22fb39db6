\* A limit on the states, under the key that init writes into the manifest.
CONSTANTS
    NoLabel = NoLabel
    Letter <- MCLetter
    Digit = {"7"}
    Other = {"-"}
    Library <- MCLibrary
    Inputs <- MCInputs
SPECIFICATION Spec
INVARIANTS
    LimitIsPassed
CHECK_DEADLOCK FALSE
