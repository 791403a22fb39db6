\* A transition that exchanges two variables.
CONSTANTS
    State = {"A", "B"}
    Var = {"x", "y"}
    Val = {0, 1}
    IllFormed = IllFormed
    Machines <- Swapping
SPECIFICATION PSpec
INVARIANTS
    BodyMatches
CHECK_DEADLOCK FALSE
