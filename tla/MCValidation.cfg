\* Every manifest MCValidation enumerates, to the verdict.
CONSTANTS
    a = a
    b = b
    c = c
    bad = bad
    NoText = NoText
    MaxAny = 2
    MaxSound = 4
    Names <- MCNames
    LegalNames <- MCLegalNames
    Machines <- MCMachines
    Text <- MCText
    Manifests <- MCManifests
SPECIFICATION VFairSpec
INVARIANTS
    VerdictCorrect
    ReportExact
    OnlyDeepFaults
    BlamesFirst
PROPERTIES
    NeverRequeued
    FollowsCli
    Ends
CHECK_DEADLOCK FALSE
