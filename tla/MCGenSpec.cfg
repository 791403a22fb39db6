\* Every form of action the generator lets through, written tightly.
CONSTANTS
    State = {"A", "B", "Undeclared"}
    Var = {"x", "y"}
    Val = {0, 1}
    IllFormed = IllFormed
    Machines <- AllForms
SPECIFICATION FairSpec
INVARIANTS
    GuardedIsEnabled
PROPERTIES
    StepsAreTransitions
    MovesAlong
CHECK_DEADLOCK FALSE
