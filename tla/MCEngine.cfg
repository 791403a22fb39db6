\* Two threads, two engines, two strings.
CONSTANTS
    Null = Null
    Thread = {t1, t2}
    Handle = {h1, h2}
    Str = {s1, s2}
    MaxProps = 2
SPECIFICATION Spec
INVARIANTS
    ErrorIsOwn
    HeapIsOwned
    LiveIsInitialized
    StringsAreHeld
PROPERTIES
    FailureChangesNothing
SYMMETRY Symmetry
CHECK_DEADLOCK FALSE
