\* Safety properties in the configuration.
CONSTANTS
    NoLabel = NoLabel
    Letter <- MCLetter
    Digit = {"7"}
    Other = {"-"}
    Library <- MCLibrary
    Inputs <- MCInputs
SPECIFICATION Spec
INVARIANTS
    InvariantsAreStatePredicates
CHECK_DEADLOCK FALSE
