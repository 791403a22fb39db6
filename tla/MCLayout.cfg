\* Every layout MCLayout lists.
CONSTANTS
    NumVars <- MCNumVars
    Offsets = {0, 3, 4}
    Layouts <- MCLayouts
SPECIFICATION Spec
INVARIANTS
    CoversFields
    SizeIsMultiple
    VerdictExact
    InterfaceComplies
CHECK_DEADLOCK FALSE
