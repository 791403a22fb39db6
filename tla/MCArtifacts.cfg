\* What holds of the artifacts of every accepted machine.
CONSTANTS
    NoLabel = NoLabel
    Letter <- MCLetter
    Digit = {"7"}
    Other = {"-"}
    Library <- MCLibrary
    Inputs <- MCInputs
SPECIFICATION Spec
INVARIANTS
    DefinedBeforeUse
    UnambiguousWhenApart
    NextIsEveryTransition
    ConfigResolves
    ConfigIsComplete
    SameProperties
    CommandIsRead
CHECK_DEADLOCK FALSE
