SPECIFICATION Spec
CONSTANTS
    t1 = t1
    p1 = p1
    r1 = r1
    r2 = r2
    None = None
    Keep = Keep
    TaskIds = {t1}
    ProjectIds = {p1}
    Requests = {r1, r2}
    Days = {1, 2}
    MAX_BATCH = 1
    MAX_ROWS = 1
SYMMETRY MCSymmetry
INVARIANT
    OnlyRacesAreRefused
PROPERTIES
    NothingIsRestored
    CompletionIsNotOverwritten
CHECK_DEADLOCK FALSE
