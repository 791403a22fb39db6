\* Two invocations and a shell on one project.
CONSTANTS
    Absent = Absent
    Hole = Hole
    Length <- MCLength
    Stem <- MCStem
    PlusCalOf <- MCPlusCalOf
    Machine <- MCMachine
    Manifests <- MCManifests
    Template <- MCTemplate
    Proc = {p, q}
    Shell = {"s"}
    MaxStarts = 2
    MaxEdits = 1
SPECIFICATION WSpec
SYMMETRY MCSymmetry
INVARIANTS
    OnlyAcceptedOnDisk
    ScriptLast
    SuccessIsComplete
    CheckedIsAccepted
    CleanRunIsCoherent
PROPERTIES
    RejectedTouchesNothing
    ManifestSurvives
    MovesOn
CHECK_DEADLOCK FALSE
