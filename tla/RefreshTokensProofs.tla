------------------------- MODULE RefreshTokensProofs -------------------------
(***************************************************************************)
(* The properties of RefreshTokens for any number of credentials,          *)
(* requests, passwords and password changes.  The inductive invariant says *)
(* that a request past the user lock holds it, and that the writes a       *)
(* request has prepared still fit the committed rows.                      *)
(***************************************************************************)
EXTENDS RefreshTokens, TLAPS

HoldsLock ==
    \A r \in Requests : req[r].pc \in {"locked", "commit"} => userLock = r

\* A running request has an input, and its credential, if any, has a row.
InputInv ==
    \A r \in Requests :
        req[r].pc # "idle" =>
            /\ req[r].input \in Inputs
            /\ req[r].input.op \in {"refresh", "logout"}
                  /\ req[r].input.token # None => Stored(req[r].input.token)
            /\ req[r].input.op = "change_password" =>
                  req[r].input.new_password \in Passwords

\* Chains are closed: first credential and predecessor of a row have rows,
\* and the predecessor is revoked.
ChainInv ==
    \A t \in TokenIds :
        Stored(t) =>
            /\ Stored(tokens[t].login)
            /\ RowChecks(tokens[t])
            /\ tokens[t].parent # None => /\ Stored(tokens[t].parent)
                                          /\ ~Unrevoked(tokens[t].parent)

\* A write to a stored row revokes it and changes nothing else.
Revokes(rows, t) ==
    /\ Unrevoked(t)
    /\ rows[t].revoked_at # None
    /\ rows[t].created_at = tokens[t].created_at
    /\ rows[t].expires_at = tokens[t].expires_at
    /\ rows[t].login = tokens[t].login
    /\ rows[t].parent = tokens[t].parent
    /\ rows[t].era = tokens[t].era

\* A new row starts a chain or replaces a credential the same writes revoke.
Issues(rows, t) ==
    /\ rows[t].revoked_at = None
    /\ rows[t].era = changes
    /\ rows[t].parent = None => rows[t].login = t
    /\ rows[t].parent # None =>
          /\ Unrevoked(rows[t].parent)
          /\ rows[rows[t].parent] # None
          /\ rows[t].login = tokens[rows[t].parent].login
          /\ rows[t].created_at >= tokens[rows[t].parent].created_at
          /\ rows[t].created_at < tokens[rows[t].parent].expires_at

Fits(writes) ==
    /\ writes \in Writes
    /\ \A t \in TokenIds :
          writes.rows[t] # None =>
              /\ RowChecks(writes.rows[t])
              /\ Stored(t) => Revokes(writes.rows, t)
              /\ ~Stored(t) => Issues(writes.rows, t) /\ writes.password = None
    /\ \A t, u \in TokenIds :
          /\ writes.rows[t] # None /\ ~Stored(t)
          /\ writes.rows[u] # None /\ ~Stored(u)
          => t = u
    /\ writes.password # None =>
          \A t \in TokenIds : Unrevoked(t) => writes.rows[t] # None

FitInv == \A r \in Requests : req[r].pc = "commit" => Fits(req[r].writes)

TokenInv ==
    /\ NoSessionOutlivesPasswordChange
    /\ OneLiveCredentialPerLogin
    /\ ExchangedOnceWhileValid
    /\ ChainInv

IInv == TypeOK /\ HoldsLock /\ InputInv /\ FitInv /\ TokenInv

-----------------------------------------------------------------------------
\* An idle request is a request state; it writes nothing.
LEMMA IdleType == NoWrites \in Writes /\ IdleRequest \in RequestStates
  BY DEF NoWrites, Writes, IdleRequest, RequestStates

\* The stores are as before: the facts about them are as before.
LEMMA SameTokens ==
  ASSUME TokenInv, UNCHANGED <<changes, tokens>>
  PROVE  TokenInv'
  BY DEF TokenInv, NoSessionOutlivesPasswordChange, OneLiveCredentialPerLogin,
         ExchangedOnceWhileValid, ChainInv, Stored, Unrevoked, RowChecks

\* Only request r moves, and it fits: the invariant is kept (every step but
\* Commit).
LEMMA RequestMoves ==
  ASSUME IInv, NEW r \in Requests, NEW q \in RequestStates,
         req' = [req EXCEPT ![r] = q],
         userLock' \in Requests \cup {None},
         \A s \in Requests : s # r /\ userLock = s => userLock' = s,
         q.pc \in {"locked", "commit"} => userLock' = r,
         q.pc # "idle" =>
            /\ q.input \in Inputs
            /\ (q.input.op \in {"refresh", "logout"} /\ q.input.token # None)
                  => Stored(q.input.token)
            /\ q.input.op = "change_password" => q.input.new_password \in Passwords,
         q.pc = "commit" => Fits(q.writes),
         UNCHANGED <<password, changes, tokens, clock>>
  PROVE  IInv'
<1>1. /\ req' \in [Requests -> RequestStates]
      /\ req'[r] = q
      /\ \A s \in Requests : s # r => req'[s] = req[s]
  BY DEF IInv, TypeOK
<1>2. TypeOK'
  BY <1>1 DEF IInv, TypeOK
<1>3. HoldsLock'
  BY <1>1 DEF IInv, HoldsLock
<1>4. InputInv'
  BY <1>1 DEF IInv, InputInv, Stored
<1>5. \A w : Fits(w) => Fits(w)'
  BY DEF Fits, Stored, Unrevoked, Revokes, Issues
<1>6. FitInv'
  BY <1>1, <1>5 DEF IInv, FitInv
<1>7. TokenInv'
  BY SameTokens DEF IInv
<1> QED
  BY <1>2, <1>3, <1>4, <1>6, <1>7 DEF IInv

\* A request that ends without writing: refusals, timeouts, failures.
LEMMA RefuseInv ==
  ASSUME IInv, NEW r \in Requests, Refuse(r)
  PROVE  IInv'
<1>1. IdleRequest.pc = "idle"
  BY DEF IdleRequest
<1>2. /\ userLock' \in Requests \cup {None}
      /\ \A s \in Requests : s # r /\ userLock = s => userLock' = s
  BY DEF Refuse, Finish, IInv, TypeOK
<1> QED
  BY <1>1, <1>2, IdleType, RequestMoves DEF Refuse, Finish

\* Preparing writes that fit, in the locked region.
LEMMA PrepareInv ==
  ASSUME IInv, NEW r \in Requests, NEW w, Fits(w), req[r].pc = "locked",
         Prepare(r, w), UNCHANGED <<password, changes, tokens, clock, userLock>>
  PROVE  IInv'
<1> DEFINE q == [req[r] EXCEPT !.pc = "commit", !.writes = w]
<1>1. req[r] \in RequestStates /\ w \in Writes
  BY DEF IInv, TypeOK, Fits
<1>2. /\ q \in RequestStates
      /\ q.pc = "commit" /\ q.writes = w /\ q.input = req[r].input
  BY <1>1 DEF RequestStates
<1>3. req' = [req EXCEPT ![r] = q]
  BY DEF Prepare, IInv, TypeOK
<1>4. userLock = r /\ userLock' \in Requests \cup {None}
  BY DEF IInv, HoldsLock
<1>5. /\ q.input \in Inputs
      /\ (q.input.op \in {"refresh", "logout"} /\ q.input.token # None)
            => Stored(q.input.token)
      /\ q.input.op = "change_password" => q.input.new_password \in Passwords
  BY <1>2 DEF IInv, InputInv
<1> HIDE DEF q
<1> QED
  BY <1>2, <1>3, <1>4, <1>5, RequestMoves

-----------------------------------------------------------------------------
\* A request arrives.
LEMMA BeginInv ==
  ASSUME IInv, NEW r \in Requests, Begin(r)
  PROVE  IInv'
<1>1. PICK input \in ValidInputs :
         req' = [req EXCEPT ![r] = [IdleRequest EXCEPT !.pc = "wait",
                                                       !.input = input]]
  BY DEF Begin
<1> DEFINE q == [IdleRequest EXCEPT !.pc = "wait", !.input = input]
<1>2. /\ input \in Inputs
      /\ (input.op \in {"refresh", "logout"} /\ input.token # None)
            => Stored(input.token)
      /\ input.op = "change_password" => input.new_password \in Passwords
  BY DEF ValidInputs, PresentableTokens, Inputs, Operations
<1>3. q \in RequestStates /\ q.pc = "wait" /\ q.input = input
  BY <1>2, IdleType DEF RequestStates, IdleRequest
<1>4. /\ userLock' \in Requests \cup {None}
      /\ \A s \in Requests : s # r /\ userLock = s => userLock' = s
      /\ UNCHANGED <<password, changes, tokens, clock>>
  BY DEF Begin, IInv, TypeOK
<1> HIDE DEF q
<1> QED
  BY <1>1, <1>2, <1>3, <1>4, RequestMoves DEF q

\* The user row is locked: nobody else holds it.
LEMMA LockUserInv ==
  ASSUME IInv, NEW r \in Requests, LockUser(r)
  PROVE  IInv'
<1> DEFINE q == [req[r] EXCEPT !.pc = "locked"]
<1>1. req[r] \in RequestStates
  BY DEF IInv, TypeOK
<1>2. q \in RequestStates /\ q.pc = "locked" /\ q.input = req[r].input
  BY <1>1 DEF RequestStates
<1>3. req' = [req EXCEPT ![r] = q]
  BY DEF LockUser, IInv, TypeOK
<1>4. /\ userLock' = r
      /\ \A s \in Requests : userLock # s
      /\ UNCHANGED <<password, changes, tokens, clock>>
  BY NoneAssumption DEF LockUser
<1>5. /\ q.input \in Inputs
      /\ (q.input.op \in {"refresh", "logout"} /\ q.input.token # None)
            => Stored(q.input.token)
      /\ q.input.op = "change_password" => q.input.new_password \in Passwords
  BY <1>2 DEF IInv, InputInv, LockUser
<1> HIDE DEF q
<1> QED
  BY <1>2, <1>3, <1>4, <1>5, RequestMoves

\* One row written by itself.
LEMMA OneRow ==
  ASSUME NEW t \in TokenIds, NEW row \in Rows
  PROVE  LET w == [NoWrites EXCEPT !.rows[t] = row]
         IN  /\ w \in Writes
             /\ w.password = None
             /\ w.rows[t] = row
             /\ \A u \in TokenIds : u # t => w.rows[u] = None
  BY DEF NoWrites, Writes

\* Rows are not None.
LEMMA RowsAreNotNone == \A t \in TokenIds : TypeOK /\ Stored(t) => tokens[t] \in Rows
  BY DEF TypeOK, Stored

\* A login that is verified prepares the first row of a new chain.
LEMMA LoginInv ==
  ASSUME IInv, NEW r \in Requests, Login(r)
  PROVE  IInv'
<1>1. CASE req[r].input.password = password
  <2>1. PICK t \in TokenIds :
           /\ ~Stored(t)
           /\ Prepare(r, [NoWrites EXCEPT !.rows[t] =
                             NewRow(clock, t, None, changes)])
    BY <1>1 DEF Login
  <2> DEFINE row == NewRow(clock, t, None, changes)
             w == [NoWrites EXCEPT !.rows[t] = row]
  <2>2. /\ row \in Rows /\ row.revoked_at = None /\ row.era = changes
        /\ row.parent = None /\ row.login = t /\ RowChecks(row)
    BY TTLAssumption, BoundAssumption
    DEF NewRow, Rows, IInv, TypeOK, RowChecks
  <2> HIDE DEF row
  <2>3. /\ w \in Writes /\ w.password = None /\ w.rows[t] = row
        /\ \A u \in TokenIds : u # t => w.rows[u] = None
    BY <2>2, OneRow
  <2> HIDE DEF w
  <2>4. Fits(w)
    BY <2>1, <2>2, <2>3 DEF Fits, Issues
  <2> QED
    BY <1>1, <2>1, <2>4, PrepareInv DEF Login, Locked, row, w
<1>2. CASE req[r].input.password # password
  BY <1>2, RefuseInv DEF Login
<1> QED
  BY <1>1, <1>2

\* A rotation prepares the revocation of the presented credential and its
\* replacement in the same chain.
LEMMA RotateInv ==
  ASSUME IInv, NEW r \in Requests, Rotate(r)
  PROVE  IInv'
<1> DEFINE prev == req[r].input.token
           gone == [tokens[prev] EXCEPT !.revoked_at = clock]
<1>1. /\ req[r].pc = "locked" /\ prev # None
      /\ IsActive(tokens[prev], clock)
      /\ UNCHANGED <<password, changes, tokens, clock, userLock>>
  BY DEF Rotate, Locked, MayRotate
<1>2. /\ prev \in TokenIds /\ Stored(prev) /\ tokens[prev] \in Rows
      /\ Unrevoked(prev)
  BY <1>1, RowsAreNotNone
  DEF Rotate, Locked, IInv, InputInv, Inputs, IsActive, Unrevoked
<1>3. PICK t \in TokenIds :
         /\ ~Stored(t)
         /\ Prepare(r, [NoWrites EXCEPT !.rows[prev] = gone,
                          !.rows[t] = NewRow(clock, tokens[prev].login, prev,
                                             tokens[prev].era)])
  BY DEF Rotate
<1> DEFINE row == NewRow(clock, tokens[prev].login, prev, tokens[prev].era)
           w == [NoWrites EXCEPT !.rows[prev] = gone, !.rows[t] = row]
<1>4. clock \in Nat /\ None \notin Rows
  BY BoundAssumption, RowAssumption DEF IInv, TypeOK
<1>5. /\ gone \in Rows /\ gone.revoked_at # None /\ RowChecks(gone)
      /\ gone.created_at = tokens[prev].created_at
      /\ gone.expires_at = tokens[prev].expires_at
      /\ gone.login = tokens[prev].login
      /\ gone.parent = tokens[prev].parent
      /\ gone.era = tokens[prev].era
  BY <1>1, <1>2, <1>4, NoneAssumption
  DEF Rows, IsActive, RowChecks
<1>6. /\ row \in Rows /\ row.revoked_at = None /\ row.era = tokens[prev].era
      /\ row.parent = prev /\ row.login = tokens[prev].login
      /\ row.created_at = clock /\ RowChecks(row)
  BY <1>2, <1>4, TTLAssumption DEF NewRow, Rows, RowChecks
<1>7. t # prev /\ tokens[prev].era = changes
  BY <1>2, <1>3 DEF IInv, TokenInv, NoSessionOutlivesPasswordChange
<1>8. row.created_at >= tokens[prev].created_at
      /\ row.created_at < tokens[prev].expires_at
  BY <1>1, <1>6 DEF IsActive
<1> HIDE DEF row, gone
<1>9. /\ w \in Writes /\ w.password = None /\ w.rows[prev] = gone
      /\ w.rows[t] = row
      /\ \A u \in TokenIds : u # t /\ u # prev => w.rows[u] = None
  BY <1>2, <1>5, <1>6, <1>7 DEF NoWrites, Writes
<1> HIDE DEF w
<1>10. /\ \A u \in TokenIds : w.rows[u] # None => u = t \/ u = prev
       /\ RowChecks(w.rows[t]) /\ RowChecks(w.rows[prev])
       /\ w.rows[prev] # None
  BY <1>4, <1>5, <1>6, <1>9
<1>11. Revokes(w.rows, prev)
  BY <1>2, <1>5, <1>9 DEF Revokes
<1>12. Issues(w.rows, t)
  BY <1>1, <1>2, <1>6, <1>7, <1>8, <1>9, <1>10 DEF Issues
<1>13. Fits(w)
  BY <1>2, <1>3, <1>9, <1>10, <1>11, <1>12 DEF Fits
<1> QED
  BY <1>1, <1>3, <1>13, PrepareInv DEF row, gone, w

\* The after-image of a revocation (logout, password change).
LEMMA RevokeFacts ==
  ASSUME IInv, NEW t \in TokenIds, Unrevoked(t)
  PROVE  LET row == Revoke(t, clock)
         IN  /\ row \in Rows /\ row.revoked_at # None /\ RowChecks(row)
             /\ row.created_at = tokens[t].created_at
             /\ row.expires_at = tokens[t].expires_at
             /\ row.login = tokens[t].login
             /\ row.parent = tokens[t].parent
             /\ row.era = tokens[t].era
<1> DEFINE at == RevocationTime(tokens[t], clock)
<1>1. tokens[t] \in Rows /\ clock \in Nat /\ Stored(t)
  BY BoundAssumption, RowsAreNotNone DEF IInv, TypeOK, Unrevoked
<1>2. at \in Nat /\ at >= tokens[t].created_at /\ at # None
  BY <1>1, NoneAssumption DEF RevocationTime, Rows
<1>3. tokens[t].expires_at > tokens[t].created_at
  BY <1>1 DEF IInv, TokenInv, ChainInv, RowChecks
<1> HIDE DEF at
<1>4. Revoke(t, clock) = [tokens[t] EXCEPT !.revoked_at = at]
  BY DEF Revoke, at
<1> QED
  BY <1>1, <1>2, <1>3, <1>4 DEF Rows, RowChecks

\* A logout prepares one revocation or nothing.
LEMMA LogoutInv ==
  ASSUME IInv, NEW r \in Requests, Logout(r)
  PROVE  IInv'
<1> DEFINE t == req[r].input.token
<1>1. /\ req[r].pc = "locked"
      /\ UNCHANGED <<password, changes, tokens, clock, userLock>>
  BY DEF Logout, Locked
<1>2. CASE t # None /\ Unrevoked(t)
  <2> DEFINE row == Revoke(t, clock)
             w == [NoWrites EXCEPT !.rows[t] = row]
  <2>1. t \in TokenIds /\ Stored(t)
    BY <1>2 DEF Logout, Locked, IInv, InputInv, Inputs
  <2>2. /\ row \in Rows /\ row.revoked_at # None /\ RowChecks(row)
        /\ row.created_at = tokens[t].created_at
        /\ row.expires_at = tokens[t].expires_at
        /\ row.login = tokens[t].login
        /\ row.parent = tokens[t].parent
        /\ row.era = tokens[t].era
    BY <1>2, <2>1, RevokeFacts
  <2> HIDE DEF row
  <2>3. /\ w \in Writes /\ w.password = None /\ w.rows[t] = row
        /\ \A u \in TokenIds : u # t => w.rows[u] = None
    BY <2>1, <2>2, OneRow
  <2>4. Prepare(r, w)
    BY <1>2 DEF Logout, row
  <2> HIDE DEF w
  <2>5. Fits(w)
    BY <1>2, <2>1, <2>2, <2>3 DEF Fits, Revokes
  <2> QED
    BY <1>1, <2>4, <2>5, PrepareInv
<1>3. CASE ~(t # None /\ Unrevoked(t))
  <2>1. NoWrites.password = None /\ \A u \in TokenIds : NoWrites.rows[u] = None
    BY DEF NoWrites
  <2>2. Fits(NoWrites)
    BY <2>1, IdleType DEF Fits
  <2>3. Prepare(r, NoWrites)
    BY <1>3 DEF Logout
  <2> QED
    BY <1>1, <2>2, <2>3, PrepareInv
<1> QED
  BY <1>2, <1>3

\* A password change prepares the revocation of every unrevoked credential.
LEMMA ChangePasswordInv ==
  ASSUME IInv, NEW r \in Requests, ChangePassword(r)
  PROVE  IInv'
<1>1. CASE req[r].input.password = password
  <2> DEFINE w == [rows |-> [t \in TokenIds |->
                              IF Unrevoked(t) THEN Revoke(t, clock) ELSE None],
                   password |-> req[r].input.new_password]
  <2>1. /\ req[r].pc = "locked" /\ Prepare(r, w)
        /\ UNCHANGED <<password, changes, tokens, clock, userLock>>
        /\ req[r].input.new_password \in Passwords
    BY <1>1 DEF ChangePassword, Locked, IInv, InputInv
  <2>2. \A t \in TokenIds : Unrevoked(t) =>
           LET row == Revoke(t, clock)
           IN  /\ row \in Rows /\ row.revoked_at # None /\ RowChecks(row)
               /\ row.created_at = tokens[t].created_at
               /\ row.expires_at = tokens[t].expires_at
               /\ row.login = tokens[t].login
               /\ row.parent = tokens[t].parent
               /\ row.era = tokens[t].era
    BY RevokeFacts
  <2>3. /\ w.password = req[r].input.new_password
        /\ \A t \in TokenIds :
              w.rows[t] = IF Unrevoked(t) THEN Revoke(t, clock) ELSE None
    OBVIOUS
  <2>4. w \in Writes
    BY <2>1, <2>2 DEF Writes
  <2> HIDE DEF w
  <2>5. \A t \in TokenIds : w.rows[t] # None => Stored(t) /\ Unrevoked(t)
    BY <2>3 DEF Unrevoked
  <2>6. \A t \in TokenIds : w.rows[t] # None =>
           RowChecks(w.rows[t]) /\ Revokes(w.rows, t)
    BY <2>2, <2>3, <2>5 DEF Revokes
  <2>7. \A t \in TokenIds : Unrevoked(t) => w.rows[t] # None
    BY <2>2, <2>3, RowAssumption
  <2>8. Fits(w)
    BY <2>4, <2>5, <2>6, <2>7 DEF Fits
  <2> QED
    BY <2>1, <2>8, PrepareInv
<1>2. CASE req[r].input.password # password
  BY <1>2, RefuseInv DEF ChangePassword
<1> QED
  BY <1>1, <1>2

-----------------------------------------------------------------------------
\* What a commit of fitting writes does to the rows: a stored row keeps
\* everything but its revocation, a revoked one keeps that too, and an
\* unrevoked row afterwards is an untouched one or the new one.
LEMMA CommitRows ==
  ASSUME IInv, NEW w, Fits(w),
         tokens' = [t \in TokenIds |->
                       IF w.rows[t] = None THEN tokens[t] ELSE w.rows[t]]
  PROVE  /\ tokens' \in [TokenIds -> Rows \cup {None}]
         /\ \A t \in TokenIds : Stored(t) =>
               /\ Stored(t)'
               /\ tokens'[t].created_at = tokens[t].created_at
               /\ tokens'[t].expires_at = tokens[t].expires_at
               /\ tokens'[t].login = tokens[t].login
               /\ tokens'[t].parent = tokens[t].parent
               /\ tokens'[t].era = tokens[t].era
               /\ ~Unrevoked(t) => tokens'[t] = tokens[t]
         /\ \A t \in TokenIds : Unrevoked(t)' /\ Stored(t) =>
               Unrevoked(t) /\ w.rows[t] = None
         /\ \A t \in TokenIds : Stored(t)' /\ ~Stored(t) =>
               tokens'[t] = w.rows[t] /\ w.rows[t] # None
<1>1. w.rows \in [TokenIds -> Rows \cup {None}]
  BY DEF Fits, Writes
<1>2. tokens' \in [TokenIds -> Rows \cup {None}]
  BY <1>1 DEF IInv, TypeOK
<1>3. ASSUME NEW t \in TokenIds, Stored(t)
      PROVE  /\ Stored(t)'
             /\ tokens'[t].created_at = tokens[t].created_at
             /\ tokens'[t].expires_at = tokens[t].expires_at
             /\ tokens'[t].login = tokens[t].login
             /\ tokens'[t].parent = tokens[t].parent
             /\ tokens'[t].era = tokens[t].era
             /\ ~Unrevoked(t) => tokens'[t] = tokens[t]
             /\ Unrevoked(t)' => Unrevoked(t) /\ w.rows[t] = None
  <2>1. CASE w.rows[t] = None
    BY <1>3, <2>1 DEF Stored, Unrevoked
  <2>2. CASE w.rows[t] # None
    BY <1>3, <2>2 DEF Fits, Revokes, Stored, Unrevoked
  <2> QED
    BY <2>1, <2>2
<1>4. ASSUME NEW t \in TokenIds, Stored(t)', ~Stored(t)
      PROVE  tokens'[t] = w.rows[t] /\ w.rows[t] # None
  BY <1>4 DEF Stored
<1> QED
  BY <1>2, <1>3, <1>4

\* A commit keeps the facts about the rows.
LEMMA CommitTokens ==
  ASSUME IInv, NEW w, Fits(w),
         tokens' = [t \in TokenIds |->
                       IF w.rows[t] = None THEN tokens[t] ELSE w.rows[t]],
         changes' = IF w.password = None THEN changes ELSE changes + 1
  PROVE  TokenInv'
<1>1. /\ tokens' \in [TokenIds -> Rows \cup {None}]
      /\ \A t \in TokenIds : Stored(t) =>
            /\ Stored(t)'
            /\ tokens'[t].created_at = tokens[t].created_at
            /\ tokens'[t].expires_at = tokens[t].expires_at
            /\ tokens'[t].login = tokens[t].login
            /\ tokens'[t].parent = tokens[t].parent
            /\ tokens'[t].era = tokens[t].era
            /\ ~Unrevoked(t) => tokens'[t] = tokens[t]
  BY CommitRows
<1>2. \A t \in TokenIds : Unrevoked(t)' /\ Stored(t) =>
         Unrevoked(t) /\ w.rows[t] = None
  BY CommitRows
<1>3. \A t \in TokenIds : Stored(t)' /\ ~Stored(t) =>
         tokens'[t] = w.rows[t] /\ w.rows[t] # None
  BY CommitRows
<1>4. /\ tokens \in [TokenIds -> Rows \cup {None}]
      /\ w.rows \in [TokenIds -> Rows \cup {None}]
  BY DEF IInv, TypeOK, Fits, Writes
<1>5. \A t \in TokenIds : Unrevoked(t)' => Stored(t)'
  BY DEF Unrevoked
<1>6. \A t \in TokenIds : w.rows[t] # None /\ ~Stored(t) =>
         /\ w.rows[t] \in Rows /\ RowChecks(w.rows[t])
         /\ Issues(w.rows, t) /\ w.password = None
  BY <1>4 DEF Fits
<1>7. \A t, u \in TokenIds :
         /\ w.rows[t] # None /\ ~Stored(t)
         /\ w.rows[u] # None /\ ~Stored(u)
         => t = u
  BY DEF Fits
<1>8. NoSessionOutlivesPasswordChange'
  <2> SUFFICES ASSUME NEW t \in TokenIds, Unrevoked(t)'
               PROVE  tokens'[t].era = changes'
    BY DEF NoSessionOutlivesPasswordChange
  <2>1. CASE Stored(t)
    <3>1. Unrevoked(t) /\ w.rows[t] = None /\ w.password = None
      BY <1>2, <2>1 DEF Fits
    <3> QED
      BY <1>1, <2>1, <3>1 DEF IInv, TokenInv, NoSessionOutlivesPasswordChange
  <2>2. CASE ~Stored(t)
    BY <1>3, <1>5, <1>6, <2>2 DEF Issues
  <2> QED
    BY <2>1, <2>2
<1>9. OneLiveCredentialPerLogin'
  \* An untouched credential is never in the chain of the new one.
  <2>1. ASSUME NEW t \in TokenIds, NEW u \in TokenIds,
               Unrevoked(t)', Unrevoked(u)', Stored(t), ~Stored(u)
        PROVE  tokens'[t].login # tokens'[u].login
    <3>1. Unrevoked(t) /\ w.rows[t] = None /\ tokens'[t].login = tokens[t].login
      BY <1>1, <1>2, <2>1
    <3>2. /\ tokens'[u] = w.rows[u] /\ w.rows[u] \in Rows /\ Issues(w.rows, u)
      BY <1>3, <1>5, <1>6, <2>1
    <3>3. CASE w.rows[u].parent = None
      <4>1. tokens'[u].login = u
        BY <3>2, <3>3 DEF Issues
      <4>2. Stored(tokens[t].login)
        BY <2>1 DEF IInv, TokenInv, ChainInv
      <4> QED
        BY <2>1, <3>1, <4>1, <4>2
    <3>4. CASE w.rows[u].parent # None
      <4> DEFINE p == w.rows[u].parent
      <4>1. p \in TokenIds
        BY <3>2, <3>4 DEF Rows
      <4>2. Unrevoked(p) /\ w.rows[p] # None /\ tokens'[u].login = tokens[p].login
        BY <3>2, <3>4 DEF Issues
      <4>3. t # p
        BY <3>1, <4>2
      <4> HIDE DEF p
      <4> QED
        BY <3>1, <4>1, <4>2, <4>3
        DEF IInv, TokenInv, OneLiveCredentialPerLogin
    <3> QED
      BY <3>3, <3>4
  <2> SUFFICES ASSUME NEW t \in TokenIds, NEW u \in TokenIds,
                      Unrevoked(t)', Unrevoked(u)',
                      tokens'[t].login = tokens'[u].login
               PROVE  t = u
    BY DEF OneLiveCredentialPerLogin
  <2>2. CASE Stored(t) /\ Stored(u)
    BY <1>1, <1>2, <2>2 DEF IInv, TokenInv, OneLiveCredentialPerLogin
  <2>3. CASE ~Stored(t) /\ ~Stored(u)
    BY <1>3, <1>5, <1>7, <2>3
  <2> QED
    BY <2>1, <2>2, <2>3
<1>10. \* The predecessor of a stored credential was exchanged before: it
       \* is not the one that these writes exchange.
       ASSUME NEW t \in TokenIds, NEW u \in TokenIds,
              Stored(t), Stored(u)', ~Stored(u), tokens[t].parent # None
       PROVE  tokens'[u].parent # tokens[t].parent
  <2>1. ~Unrevoked(tokens[t].parent)
    BY <1>10 DEF IInv, TokenInv, ChainInv
  <2>2. Issues(w.rows, u) /\ tokens'[u] = w.rows[u]
    BY <1>3, <1>6, <1>10
  <2> QED
    BY <1>10, <2>1, <2>2 DEF Issues
<1>11. ASSUME NEW t \in TokenIds, Stored(t)', ~Stored(t),
              tokens'[t].parent # None
       PROVE  \E p \in TokenIds :
                  /\ p = tokens'[t].parent /\ Stored(p)' /\ ~Unrevoked(p)'
                  /\ tokens'[p].login = tokens'[t].login
                  /\ tokens'[t].created_at >= tokens'[p].created_at
                  /\ tokens'[t].created_at < tokens'[p].expires_at
  <2>1. /\ tokens'[t] = w.rows[t] /\ w.rows[t] \in Rows /\ Issues(w.rows, t)
    BY <1>3, <1>6, <1>11
  <2>2. PICK p \in TokenIds : p = w.rows[t].parent
    BY <1>11, <2>1 DEF Rows
  <2>3. /\ Unrevoked(p) /\ w.rows[p] # None
        /\ tokens'[t].login = tokens[p].login
        /\ tokens'[t].created_at >= tokens[p].created_at
        /\ tokens'[t].created_at < tokens[p].expires_at
    BY <1>11, <2>1, <2>2 DEF Issues
  <2>4. Stored(p)
    BY <2>3 DEF Unrevoked
  <2>5. Stored(p)' /\ ~Unrevoked(p)'
    BY <1>1, <1>2, <2>3, <2>4
  <2>6. /\ tokens'[p].created_at = tokens[p].created_at
        /\ tokens'[p].expires_at = tokens[p].expires_at
        /\ tokens'[p].login = tokens[p].login
    BY <1>1, <2>4
  <2> QED
    BY <2>1, <2>2, <2>3, <2>5, <2>6
<1>12. ExchangedOnceWhileValid'
  <2> SUFFICES ASSUME NEW t \in TokenIds, Stored(t)', tokens'[t].parent # None
               PROVE  /\ Stored(tokens[t].parent)'
                      /\ tokens'[t].created_at >= tokens'[tokens'[t].parent].created_at
                      /\ tokens'[t].created_at < tokens'[tokens'[t].parent].expires_at
                      /\ \A u \in TokenIds :
                            Stored(u)' /\ tokens'[u].parent = tokens'[t].parent
                               => u = t
    BY DEF ExchangedOnceWhileValid
  <2>1. CASE Stored(t)
    <3>1. PICK p \in TokenIds : p = tokens[t].parent /\ Stored(p)
      BY <1>1, <1>4, <2>1
      DEF IInv, TokenInv, ExchangedOnceWhileValid, Stored, Rows
    <3>2. tokens'[t].parent = p /\ tokens'[t].created_at = tokens[t].created_at
      BY <1>1, <2>1, <3>1
    <3>3. /\ tokens[t].created_at >= tokens[p].created_at
          /\ tokens[t].created_at < tokens[p].expires_at
          /\ \A u \in TokenIds : Stored(u) /\ tokens[u].parent = p => u = t
      BY <2>1, <3>1, <3>2 DEF IInv, TokenInv, ExchangedOnceWhileValid
    <3>4. \A u \in TokenIds : Stored(u)' /\ tokens'[u].parent = p => u = t
      BY <1>1, <1>10, <2>1, <3>1, <3>2, <3>3
    <3>5. /\ Stored(p)' /\ tokens'[p].created_at = tokens[p].created_at
          /\ tokens'[p].expires_at = tokens[p].expires_at
      BY <1>1, <3>1
    <3> QED
      BY <3>2, <3>3, <3>4, <3>5 DEF Stored
  <2>2. CASE ~Stored(t)
    <3>1. /\ tokens'[t].parent \in TokenIds
          /\ tokens'[tokens'[t].parent] # None
          /\ tokens'[t].created_at >= tokens'[tokens'[t].parent].created_at
          /\ tokens'[t].created_at < tokens'[tokens'[t].parent].expires_at
      BY <1>11, <2>2 DEF Stored
    <3>2. ASSUME NEW u \in TokenIds, Stored(u)',
                 tokens'[u].parent = tokens'[t].parent
          PROVE  u = t
      <4>1. CASE Stored(u)
        BY <1>1, <1>10, <2>2, <3>2, <4>1
      <4>2. CASE ~Stored(u)
        BY <1>3, <1>7, <2>2, <3>2, <4>2
      <4> QED
        BY <4>1, <4>2
    <3> QED
      BY <3>1, <3>2 DEF Stored
  <2> QED
    BY <2>1, <2>2
<1>13. ChainInv'
  <2> SUFFICES ASSUME NEW t \in TokenIds, Stored(t)'
               PROVE  /\ Stored(tokens[t].login)'
                      /\ RowChecks(tokens[t])'
                      /\ tokens'[t].parent # None =>
                            Stored(tokens[t].parent)' /\ ~Unrevoked(tokens[t].parent)'
    BY DEF ChainInv
  <2>1. CASE Stored(t)
    <3>1. /\ tokens[t] \in Rows /\ Stored(tokens[t].login) /\ RowChecks(tokens[t])
          /\ tokens[t].parent # None =>
                Stored(tokens[t].parent) /\ ~Unrevoked(tokens[t].parent)
      BY <1>4, <2>1 DEF IInv, TokenInv, ChainInv, Stored
    <3>2. tokens[t].login \in TokenIds /\ tokens[t].parent \in TokenIds \cup {None}
      BY <3>1 DEF Rows
    <3>3. tokens'[t].login = tokens[t].login /\ tokens'[t].parent = tokens[t].parent
      BY <1>1, <2>1
    <3>4. Stored(tokens[t].login)'
      BY <1>1, <3>1, <3>2, <3>3 DEF Stored
    <3>5. RowChecks(tokens'[t])
      <4>1. CASE w.rows[t] = None
        BY <3>1, <4>1
      <4>2. CASE w.rows[t] # None
        BY <4>2 DEF Fits
      <4> QED
        BY <4>1, <4>2
    <3>6. RowChecks(tokens[t])'
      BY <3>5 DEF RowChecks
    <3>7. ASSUME tokens'[t].parent # None
          PROVE  tokens'[tokens'[t].parent] # None
                 /\ tokens'[tokens'[t].parent].revoked_at # None
      <4> DEFINE p == tokens[t].parent
      <4>1. p \in TokenIds /\ Stored(p) /\ ~Unrevoked(p)
        BY <3>1, <3>2, <3>3, <3>7
      <4>2. tokens'[p] = tokens[p]
        BY <1>1, <4>1
      <4> QED
        BY <3>3, <4>1, <4>2 DEF Stored, Unrevoked
    <3> QED
      BY <3>4, <3>6, <3>7 DEF Stored, Unrevoked
  <2>2. CASE ~Stored(t)
    <3>1. /\ tokens'[t] = w.rows[t] /\ w.rows[t] \in Rows
          /\ RowChecks(w.rows[t]) /\ Issues(w.rows, t)
      BY <1>3, <1>6, <2>2
    <3>2. RowChecks(tokens[t])'
      BY <3>1 DEF RowChecks
    <3>3. CASE tokens'[t].parent = None
      <4>1. tokens'[t].login = t
        BY <3>1, <3>3 DEF Issues
      <4> QED
        BY <3>2, <3>3, <4>1 DEF Stored
    <3>4. CASE tokens'[t].parent # None
      <4>1. PICK p \in TokenIds :
               /\ p = tokens'[t].parent /\ Stored(p)' /\ ~Unrevoked(p)'
               /\ tokens'[p].login = tokens'[t].login
        BY <1>11, <2>2, <3>4
      <4>2. tokens'[p] # None /\ tokens'[p].revoked_at # None
        BY <4>1 DEF Stored, Unrevoked
      <4>3. /\ Unrevoked(w.rows[t].parent) /\ w.rows[t].login = tokens[p].login
            /\ p = w.rows[t].parent
        BY <3>1, <3>4, <4>1 DEF Issues
      <4>4. Stored(p) /\ tokens[p] \in Rows
        BY <1>4, <4>1, <4>3 DEF Unrevoked, Stored
      <4>5. tokens[p].login \in TokenIds /\ Stored(tokens[p].login)
        BY <4>1, <4>4 DEF IInv, TokenInv, ChainInv, Rows
      <4>6. tokens'[tokens'[t].login] # None
        BY <1>1, <3>1, <4>3, <4>5 DEF Stored
      <4> QED
        BY <3>2, <4>1, <4>2, <4>6 DEF Stored, Unrevoked
    <3> QED
      BY <3>3, <3>4
  <2> QED
    BY <2>1, <2>2
<1> QED
  BY <1>8, <1>9, <1>12, <1>13 DEF TokenInv

-----------------------------------------------------------------------------
\* The commit: the committing request held the lock, so no other request has
\* prepared writes that the new rows could overtake.
LEMMA CommitInv ==
  ASSUME IInv, NEW r \in Requests, Commit(r)
  PROVE  IInv'
<1>1. PICK w : w = req[r].writes
  OBVIOUS
<1>2. /\ req[r].pc = "commit" /\ Fits(w) /\ userLock = r
      /\ tokens' = [t \in TokenIds |->
                       IF w.rows[t] = None THEN tokens[t] ELSE w.rows[t]]
      /\ changes' = IF w.password = None THEN changes ELSE changes + 1
      /\ password' = IF w.password = None THEN password ELSE w.password
      /\ w.password # None => changes < MaxChanges
      /\ Finish(r) /\ clock' = clock
  BY <1>1 DEF Commit, IInv, FitInv, HoldsLock
<1>3. TokenInv'
  BY <1>2, CommitTokens
<1>4. /\ tokens' \in [TokenIds -> Rows \cup {None}]
      /\ \A t \in TokenIds : Stored(t) => Stored(t)'
  BY <1>2, CommitRows
<1>5. /\ req' \in [Requests -> RequestStates]
      /\ req'[r].pc = "idle"
      /\ \A s \in Requests : s # r => req'[s] = req[s]
      /\ userLock' = None
  BY <1>2, IdleType DEF Finish, IInv, TypeOK, IdleRequest
<1>6. changes' \in 0..MaxChanges /\ password' \in Passwords
  BY <1>2, BoundAssumption DEF IInv, TypeOK, Fits, Writes
<1>7. TypeOK'
  BY <1>2, <1>4, <1>5, <1>6 DEF IInv, TypeOK
<1>8. \A s \in Requests : req'[s].pc \notin {"locked", "commit"}
  BY <1>2, <1>5 DEF IInv, HoldsLock
<1>9. HoldsLock' /\ FitInv'
  BY <1>8 DEF HoldsLock, FitInv
<1>10. InputInv'
  <2> SUFFICES ASSUME NEW s \in Requests, req'[s].pc # "idle"
               PROVE  /\ req'[s].input \in Inputs
                      /\ (req'[s].input.op \in {"refresh", "logout"}
                             /\ req'[s].input.token # None)
                            => tokens'[req'[s].input.token] # None
                      /\ req'[s].input.op = "change_password" =>
                            req'[s].input.new_password \in Passwords
    BY DEF InputInv, Stored
  <2>1. s # r /\ req'[s] = req[s] /\ req[s].pc # "idle"
    BY <1>5
  <2> QED
    BY <1>4, <2>1 DEF IInv, InputInv, Inputs, Stored
<1> QED
  BY <1>3, <1>7, <1>9, <1>10 DEF IInv

\* It holds when the service starts with an empty table.
LEMMA InitIInv == Init => IInv
  BY IdleType, BoundAssumption
  DEF Init, IInv, TypeOK, HoldsLock, InputInv, FitInv, TokenInv, ChainInv,
      NoSessionOutlivesPasswordChange, OneLiveCredentialPerLogin,
      ExchangedOnceWhileValid, Stored, Unrevoked, IdleRequest

\* Only the clock moves.
LEMMA ClockInv ==
  ASSUME IInv, clock' \in 0..MaxClock,
         UNCHANGED <<password, changes, tokens, userLock, req>>
  PROVE  IInv'
<1>1. TypeOK' /\ HoldsLock' /\ InputInv'
  BY DEF IInv, TypeOK, HoldsLock, InputInv, Stored
<1>2. FitInv'
  BY DEF IInv, FitInv, Fits, Stored, Unrevoked, Revokes, Issues
<1> QED
  BY <1>1, <1>2, SameTokens DEF IInv

\* Every step keeps it.
LEMMA NextIInv == IInv /\ [Next]_vars => IInv'
<1> SUFFICES ASSUME IInv, [Next]_vars PROVE IInv'
  OBVIOUS
<1>1. ASSUME NEW r \in Requests, RequestStep(r) PROVE IInv'
  <2>1. CASE Begin(r)
    BY <2>1, BeginInv
  <2>2. CASE LockUser(r)
    BY <2>2, LockUserInv
  <2>3. CASE Login(r)
    BY <2>3, LoginInv
  <2>4. CASE Rotate(r)
    BY <2>4, RotateInv
  <2>5. CASE RefuseRotation(r) \/ Abort(r)
    BY <2>5, RefuseInv DEF RefuseRotation, Abort
  <2>6. CASE Logout(r)
    BY <2>6, LogoutInv
  <2>7. CASE ChangePassword(r)
    BY <2>7, ChangePasswordInv
  <2>8. CASE Commit(r)
    BY <2>8, CommitInv
  <2> QED
    BY <1>1, <2>1, <2>2, <2>3, <2>4, <2>5, <2>6, <2>7, <2>8 DEF RequestStep
<1>2. CASE Tick \/ SetBack
  <2>1. clock' \in 0..MaxClock
    BY <1>2, BoundAssumption DEF Tick, SetBack, IInv, TypeOK
  <2> QED
    BY <1>2, <2>1, ClockInv DEF Tick, SetBack
<1>3. CASE UNCHANGED vars
  <2>1. clock' \in 0..MaxClock
    BY <1>3 DEF vars, IInv, TypeOK
  <2> QED
    BY <1>3, <2>1, ClockInv DEF vars
<1> QED
  BY <1>1, <1>2, <1>3 DEF Next

\* No step rewrites a revoked row or deletes one.
LEMMA RowsAreKept ==
  ASSUME IInv, [Next]_vars, NEW t \in TokenIds, Stored(t)
  PROVE  /\ tokens'[t] # None
         /\ ~Unrevoked(t) => tokens'[t] = tokens[t]
<1>1. CASE \E r \in Requests : Commit(r)
  <2>1. PICK r \in Requests : Commit(r)
    BY <1>1
  <2>2. PICK w : w = req[r].writes
    OBVIOUS
  <2>3. Fits(w) /\ tokens' = [u \in TokenIds |->
                     IF w.rows[u] = None THEN tokens[u] ELSE w.rows[u]]
    BY <2>1, <2>2 DEF Commit, IInv, FitInv
  <2> QED
    BY <2>3, CommitRows DEF Stored
<1>2. CASE ~\E r \in Requests : Commit(r)
  <2>1. tokens' = tokens
    BY <1>2 DEF Next, RequestStep, Begin, LockUser, Login, Rotate,
         RefuseRotation, Logout, ChangePassword, Abort, Refuse, Tick, SetBack,
         vars
  <2> QED
    BY <2>1 DEF Stored
<1> QED
  BY <1>1, <1>2

-----------------------------------------------------------------------------
\* The strengthened invariant holds in every reachable state, for any set of
\* credentials, requests and passwords.
THEOREM Invariance == Spec => []IInv
  BY InitIInv, NextIInv, PTL DEF Spec

\* Every reachable state is well typed.
THEOREM TypeCorrect == Spec => []TypeOK
<1>1. IInv => TypeOK
  BY DEF IInv
<1> QED
  BY <1>1, Invariance, PTL

\* services/password_change.py: once a change has committed, no credential
\* that goes back to a login with an earlier password can be refreshed.
THEOREM NoSessionOutlivesHolds == Spec => []NoSessionOutlivesPasswordChange
<1>1. IInv => NoSessionOutlivesPasswordChange
  BY DEF IInv, TokenInv
<1> QED
  BY <1>1, Invariance, PTL

\* _prepare_rotation: however many requests present a credential, a login
\* has at most one unrevoked credential.
THEOREM OneLiveCredentialHolds == Spec => []OneLiveCredentialPerLogin
<1>1. IInv => OneLiveCredentialPerLogin
  BY DEF IInv, TokenInv
<1> QED
  BY <1>1, Invariance, PTL

\* _prepare_rotation: a credential is exchanged at most once, inside its
\* validity window.
THEOREM ExchangedOnceHolds == Spec => []ExchangedOnceWhileValid
<1>1. IInv => ExchangedOnceWhileValid
  BY DEF IInv, TokenInv
<1> QED
  BY <1>1, Invariance, PTL

\* logout_refresh_token: the revocation times written always satisfy the
\* table's CHECK constraints, wherever the clock was set.
THEOREM ClockNeverBlocksHolds == Spec => []ClockNeverBlocksRevocation
<1>1. IInv => ClockNeverBlocksRevocation
  BY DEF IInv, FitInv, Fits, ClockNeverBlocksRevocation
<1> QED
  BY <1>1, Invariance, PTL

\* repositories/refresh_tokens.py: no step changes a revoked row or removes
\* a row.
THEOREM RevocationIsFinalHolds == Spec => RevocationIsFinal
<1>1. IInv /\ [Next]_vars =>
         [\A t \in TokenIds :
             Stored(t) => /\ tokens'[t] # None
                          /\ ~Unrevoked(t) => tokens'[t] = tokens[t]]_vars
  BY RowsAreKept
<1> QED
  BY <1>1, Invariance, PTL DEF Spec, RevocationIsFinal


=============================================================================
