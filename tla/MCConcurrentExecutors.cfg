SPECIFICATION Spec
CONSTANTS
    p1 = p1
    w1 = w1
    w2 = w2
    w3 = w3
    None = None
    Proposals = {p1}
    Plan <- MCPlan
    Digest <- MCDigest
    MAX_PLAN_REVISIONS = 0
    Workers = {w1, w2, w3}
    MAX_ATTEMPT_COUNT = 2
    TheAction <- MCAction
SYMMETRY WorkerSymmetry
INVARIANTS
    FirstClaimWritesAtMostOnce
    SuccessIsDurable
PROPERTY CompletedIsFinal
