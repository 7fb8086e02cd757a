SPECIFICATION Spec
CONSTANTS
    t1 = t1
    t2 = t2
    t3 = t3
    r1 = r1
    r2 = r2
    pw1 = pw1
    pw2 = pw2
    None = None
    TokenIds = {t1, t2, t3}
    Passwords = {pw1, pw2}
    Requests = {r1, r2}
    REFRESH_TOKEN_TTL = 2
    MaxClock = 2
    MaxChanges = 1
SYMMETRY MCSymmetry
INVARIANTS
    TypeOK
    NoSessionOutlivesPasswordChange
    OneLiveCredentialPerLogin
    ExchangedOnceWhileValid
    ClockNeverBlocksRevocation
PROPERTY RevocationIsFinal
