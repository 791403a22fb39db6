\* The size of layouts as C places them.
CONSTANTS
    NumVars <- MCNumVars
    Offsets = {0, 3, 4}
    Layouts <- MCLayouts
SPECIFICATION Spec
INVARIANTS
    SizeIsExact
CHECK_DEADLOCK FALSE
