--------------------------- MODULE RefreshTokens ---------------------------
(***************************************************************************)
(* The refresh credentials of one user: login, refresh (rotation), logout  *)
(* and password change as concurrent requests on the users and             *)
(* refresh_tokens tables (services/authentication.py, refresh_tokens.py,   *)
(* password_change.py).                                                    *)
(*                                                                         *)
(* Every request locks the user row, reads, prepares its writes and        *)
(* commits; until the commit its writes are visible to nobody.  The wall   *)
(* clock advances and may be set back.  A client that lost its answer is   *)
(* one that presents the same credential again.                            *)
(***************************************************************************)
EXTENDS Integers, FiniteSets

CONSTANTS
    TokenIds,            \* secrets the generator may draw, none drawn twice
    Passwords,
    Requests,            \* request threads
    REFRESH_TOKEN_TTL,   \* seven days
    MaxClock,            \* bound on the clock
    MaxChanges,          \* bound on password changes
    None

ASSUME TTLAssumption == REFRESH_TOKEN_TTL \in Nat \ {0}
ASSUME BoundAssumption == MaxClock \in Nat /\ MaxChanges \in Nat
ASSUME NoneAssumption ==
    /\ None \notin TokenIds
    /\ None \notin Passwords
    /\ None \notin Requests
    /\ None \notin Nat

VARIABLES
    password,   \* what users.password_hash verifies
    changes,    \* history: password changes committed
    tokens,     \* refresh_tokens, a row or None per secret
    clock,      \* datetime.now(UTC)
    userLock,   \* request that holds the user row FOR UPDATE, or None
    req         \* each request: place, input and prepared writes

vars == <<password, changes, tokens, clock, userLock, req>>

\* login and era record, as history, the first credential of the rotation
\* chain and the number of password changes when that login was verified.
Rows ==
    [created_at : Nat, expires_at : Nat, revoked_at : Nat \cup {None},
     login : TokenIds, parent : TokenIds \cup {None}, era : Nat]

ASSUME RowAssumption == None \notin Rows

Operations == {"login", "refresh", "logout", "change_password"}

Inputs ==
    [op : Operations, token : TokenIds \cup {None},
     password : Passwords \cup {None}, new_password : Passwords \cup {None}]

\* Row after-images and a new password; None where nothing is written.
Writes == [rows : [TokenIds -> Rows \cup {None}], password : Passwords \cup {None}]
NoWrites == [rows |-> [t \in TokenIds |-> None], password |-> None]

RequestStates ==
    [pc : {"idle", "wait", "locked", "commit"},
     input : Inputs \cup {None},
     writes : Writes]
IdleRequest ==
    [pc |-> "idle", input |-> None, writes |-> NoWrites]

TypeOK ==
    /\ password \in Passwords
    /\ changes \in 0..MaxChanges
    /\ tokens \in [TokenIds -> Rows \cup {None}]
    /\ clock \in 0..MaxClock
    /\ userLock \in Requests \cup {None}
    /\ req \in [Requests -> RequestStates]

Init ==
    /\ password \in Passwords
    /\ changes = 0
    /\ tokens = [t \in TokenIds |-> None]
    /\ clock = 0
    /\ userLock = None
    /\ req = [r \in Requests |-> IdleRequest]

-----------------------------------------------------------------------------
Stored(t) == tokens[t] # None
Unrevoked(t) == Stored(t) /\ tokens[t].revoked_at = None

Finish(r) ==
    /\ req' = [req EXCEPT ![r] = IdleRequest]
    /\ userLock' = IF userLock = r THEN None ELSE userLock

Prepare(r, writes) ==
    req' = [req EXCEPT ![r].pc = "commit", ![r].writes = writes]

\* Nothing of it happens: InvalidCredentialsError or InvalidRefreshTokenError.
Refuse(r) ==
    /\ Finish(r)
    /\ UNCHANGED <<password, changes, tokens, clock>>

-----------------------------------------------------------------------------
(***************************************************************************)
(* A request arrives.  A presented credential is one that was issued, or   *)
(* one that no row knows (None).                                           *)
(***************************************************************************)
PresentableTokens == {t \in TokenIds : Stored(t)} \cup {None}

ValidInputs ==
    {[op |-> "login", token |-> None, password |-> p, new_password |-> None] :
        p \in Passwords}
    \cup {[op |-> op, token |-> t, password |-> None, new_password |-> None] :
        op \in {"refresh", "logout"}, t \in PresentableTokens}
    \cup {input \in [op : {"change_password"}, token : {None},
                      password : Passwords, new_password : Passwords] :
             input.password # input.new_password}

Begin(r) ==
    /\ req[r].pc = "idle"
    /\ \E input \in ValidInputs :
          req' = [req EXCEPT ![r] = [IdleRequest EXCEPT !.pc = "wait",
                                                        !.input = input]]
    /\ UNCHANGED <<password, changes, tokens, clock, userLock>>

\* Mutant: SELECT without FOR UPDATE.
ReadUserUnlocked(r) ==
    /\ req[r].pc = "wait"
    /\ userLock' = r
    /\ req' = [req EXCEPT ![r].pc = "locked"]
    /\ UNCHANGED <<password, changes, tokens, clock>>

\* get_by_email_for_update, get_by_id_for_update and the first statement of
\* get_by_hash_for_update all lock the user row before anything is read.
LockUser(r) ==
    /\ req[r].pc = "wait"
    /\ userLock = None
    /\ userLock' = r
    /\ req' = [req EXCEPT ![r].pc = "locked"]
    /\ UNCHANGED <<password, changes, tokens, clock>>

\* The request is in its locked region and is for this operation.
Locked(r, op) == req[r].pc = "locked" /\ req[r].input.op = op

NewRow(now, login, parent, era) ==
    [created_at |-> now, expires_at |-> now + REFRESH_TOKEN_TTL,
     revoked_at |-> None, login |-> login, parent |-> parent, era |-> era]

\* authenticate_user: verify under the lock, then _prepare_issuance.
Login(r) ==
    /\ Locked(r, "login")
    /\ IF req[r].input.password = password
       THEN /\ \E t \in TokenIds :
                  /\ ~Stored(t)
                  /\ Prepare(r, [NoWrites EXCEPT !.rows[t] =
                                    NewRow(clock, t, None, changes)])
            /\ UNCHANGED <<password, changes, tokens, clock, userLock>>
       ELSE Refuse(r)

\* Mutant: the instant of expiry still counts as valid.
ActiveAtExpiry(row, now) ==
    /\ row.revoked_at = None
    /\ row.created_at <= now
    /\ now <= row.expires_at

\* The condition of _prepare_rotation and again of revoke_if_active.
IsActive(row, now) ==
    /\ row.revoked_at = None
    /\ row.created_at <= now
    /\ now < row.expires_at

MayRotate(t) == t # None /\ IsActive(tokens[t], clock)

\* Mutant: the presented credential stays valid next to its replacement.
RotateKeepsOld(r) ==
    LET old == req[r].input.token
    IN  /\ Locked(r, "refresh")
        /\ MayRotate(old)
        /\ \E t \in TokenIds :
              /\ ~Stored(t)
              /\ Prepare(r, [NoWrites EXCEPT
                     !.rows[t] = NewRow(clock, tokens[old].login, old,
                                        tokens[old].era)])
        /\ UNCHANGED <<password, changes, tokens, clock, userLock>>

\* _prepare_rotation: the clock is read after the lock was granted.
Rotate(r) ==
    LET old == req[r].input.token
    IN  /\ Locked(r, "refresh")
        /\ MayRotate(old)
        /\ \E t \in TokenIds :
              /\ ~Stored(t)
              /\ Prepare(r, [NoWrites EXCEPT
                     !.rows[old] = [tokens[old] EXCEPT !.revoked_at = clock],
                     !.rows[t] = NewRow(clock, tokens[old].login, old,
                                        tokens[old].era)])
        /\ UNCHANGED <<password, changes, tokens, clock, userLock>>

RefuseRotation(r) ==
    /\ Locked(r, "refresh")
    /\ ~MayRotate(req[r].input.token)
    /\ Refuse(r)

\* Mutant: the clock alone.
RevocationAtClock(row, now) == now

\* A clock that was set back must not put the revocation before creation.
RevocationTime(row, now) == IF now >= row.created_at THEN now ELSE row.created_at

Revoke(t, now) ==
    [tokens[t] EXCEPT !.revoked_at = RevocationTime(tokens[t], now)]

\* logout_refresh_token: idempotent, this credential only, expired or not.
Logout(r) ==
    LET t == req[r].input.token
    IN  /\ Locked(r, "logout")
        /\ Prepare(r, IF t # None /\ Unrevoked(t)
                      THEN [NoWrites EXCEPT !.rows[t] = Revoke(t, clock)]
                      ELSE NoWrites)
        /\ UNCHANGED <<password, changes, tokens, clock, userLock>>

\* Mutant: the change forgets the credentials that are already out.
ChangePasswordOnly(r) ==
    /\ Locked(r, "change_password")
    /\ IF req[r].input.password = password
       THEN /\ Prepare(r, [NoWrites EXCEPT
                              !.password = req[r].input.new_password])
            /\ UNCHANGED <<password, changes, tokens, clock, userLock>>
       ELSE Refuse(r)

\* change_password: verify under the lock, then revoke_all_for_owner.
ChangePassword(r) ==
    /\ Locked(r, "change_password")
    /\ IF req[r].input.password = password
       THEN /\ Prepare(r,
                 [rows |-> [t \in TokenIds |->
                              IF Unrevoked(t) THEN Revoke(t, clock) ELSE None],
                  password |-> req[r].input.new_password])
            /\ UNCHANGED <<password, changes, tokens, clock, userLock>>
       ELSE Refuse(r)

-----------------------------------------------------------------------------
(***************************************************************************)
(* The end of a request.                                                   *)
(***************************************************************************)
\* ck_refresh_tokens_expiry_after_creation and
\* ck_refresh_tokens_revocation_not_before_creation.
RowChecks(row) ==
    /\ row.expires_at > row.created_at
    /\ row.revoked_at # None => row.revoked_at >= row.created_at

\* Mutant: a transaction that sets no password clears it.
CommitClearsPassword(r) ==
    LET writes == req[r].writes
    IN  /\ req[r].pc = "commit"
        /\ writes.password # None => changes < MaxChanges
        /\ tokens' = [t \in TokenIds |->
                         IF writes.rows[t] = None THEN tokens[t]
                                                  ELSE writes.rows[t]]
        /\ password' = writes.password
        /\ changes' = IF writes.password = None THEN changes ELSE changes + 1
        /\ Finish(r)
        /\ UNCHANGED clock

\* session.commit(): all writes or none, and the lock is released.
Commit(r) ==
    LET writes == req[r].writes
    IN  /\ req[r].pc = "commit"
        /\ \A t \in TokenIds : writes.rows[t] # None => RowChecks(writes.rows[t])
        /\ writes.password # None => changes < MaxChanges
        /\ tokens' = [t \in TokenIds |->
                         IF writes.rows[t] = None THEN tokens[t]
                                                  ELSE writes.rows[t]]
        /\ password' = IF writes.password = None THEN password
                                                 ELSE writes.password
        /\ changes' = IF writes.password = None THEN changes ELSE changes + 1
        /\ Finish(r)
        /\ UNCHANGED clock

\* lock_timeout while waiting, or any failure before the commit.
Abort(r) ==
    /\ req[r].pc # "idle"
    /\ Refuse(r)

Tick ==
    /\ clock < MaxClock
    /\ clock' = clock + 1
    /\ UNCHANGED <<password, changes, tokens, userLock, req>>

SetBack ==
    /\ clock > 0
    /\ clock' = clock - 1
    /\ UNCHANGED <<password, changes, tokens, userLock, req>>

RequestStep(r) ==
    \/ Begin(r) \/ LockUser(r)
    \/ Login(r) \/ Rotate(r) \/ RefuseRotation(r) \/ Logout(r)
    \/ ChangePassword(r)
    \/ Commit(r) \/ Abort(r)

Next == (\E r \in Requests : RequestStep(r)) \/ Tick \/ SetBack

Spec == Init /\ [][Next]_vars

-----------------------------------------------------------------------------
(***************************************************************************)
(* Properties.                                                             *)
(***************************************************************************)

\* No session outlives a password change: whatever was in flight when the
\* change committed, every unrevoked credential goes back to a login that
\* was verified against the present password.
NoSessionOutlivesPasswordChange ==
    \A t \in TokenIds : Unrevoked(t) => tokens[t].era = changes

\* A login leads to one chain of credentials of which only the last can be
\* unrevoked, however refreshes, retries and logouts overlap.
OneLiveCredentialPerLogin ==
    \A t, u \in TokenIds :
        Unrevoked(t) /\ Unrevoked(u) /\ tokens[t].login = tokens[u].login => t = u

\* A credential is exchanged at most once, and while it was valid: the
\* replacement was created in the validity window of its predecessor.
ExchangedOnceWhileValid ==
    \A t \in TokenIds :
        Stored(t) /\ tokens[t].parent # None =>
            /\ Stored(tokens[t].parent)
            /\ tokens[t].created_at >= tokens[tokens[t].parent].created_at
            /\ tokens[t].created_at < tokens[tokens[t].parent].expires_at
            /\ \A u \in TokenIds :
                  Stored(u) /\ tokens[u].parent = tokens[t].parent => u = t

\* A revoked credential stays revoked, with the time of the first
\* revocation, and no row disappears.
RevocationIsFinal ==
    [][\A t \in TokenIds :
          Stored(t) => /\ tokens'[t] # None
                       /\ ~Unrevoked(t) => tokens'[t] = tokens[t]]_vars

\* No clock, however far it was set back, makes a CHECK constraint refuse a
\* logout, a refresh or a password change.
ClockNeverBlocksRevocation ==
    \A r \in Requests, t \in TokenIds :
        req[r].pc = "commit" /\ req[r].writes.rows[t] # None =>
            RowChecks(req[r].writes.rows[t])

=============================================================================
