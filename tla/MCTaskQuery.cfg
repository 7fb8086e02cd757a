SPECIFICATION Spec
CONSTANTS
    Null = Null
    TaskIds = {1, 2, 3}
    DueTimes = {0, 1}
    Shapes <- MCShapes
    Asked <- MCAsked
    PageSizes = {1, 2}
    MAX_CLOCK = 2
    MAX_CHANGES = 1
INVARIANTS
    QuietWalkIsExact
    OnlyDisplacedTasksAreSkipped
CHECK_DEADLOCK FALSE
