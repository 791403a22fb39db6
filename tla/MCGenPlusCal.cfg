\* Independent assignments: the two outputs mean the same.
CONSTANTS
    State = {"A", "B"}
    Var = {"x", "y"}
    Val = {0, 1}
    IllFormed = IllFormed
    Machines <- MCIndependent
SPECIFICATION PFairSpec
INVARIANTS
    BodyMatches
PROPERTIES
    Specification
    FairSpecification
CHECK_DEADLOCK FALSE
