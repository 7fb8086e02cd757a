SPECIFICATION Spec
CONSTANTS
    p1 = p1
    p2 = p2
    r1 = r1
    r2 = r2
    f1 = f1
    None = None
    Proposals = {p1, p2}
    Plan <- MCPlan
    Digest <- MCDigest
    MAX_PLAN_REVISIONS = 1
    Workers = {r1, r2}
    MAX_ATTEMPT_COUNT = 2
    Feedbacks = {f1}
    MaxStops = 2
SYMMETRY WorkerSymmetry
INVARIANTS
    TypeOK
    AtMostOnce
    WritesAreApproved
    PendingMeansReviewable
    TerminalMatchesCheckpoint
    AcknowledgedDecisionsTakeEffect
PROPERTIES
    DecisionsAreFinal
    RefinesContract
