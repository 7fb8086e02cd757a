SPECIFICATION Spec
CONSTANTS
    None = None
    Tools = {1}
    MAX_REVISIONS = 1
    MAX_CLOCK = 3
INVARIANT
    ResumeTellsTheEnd
