------------------------------ MODULE Sessions ------------------------------
(***************************************************************************)
(* AuthService (src/modules/auth/auth.service.ts): accounts, the refresh   *)
(* tokens that keep a session alive, and the reset of a password.          *)
(*                                                                         *)
(* A handler suspends at each database call; the waits for argon2 touch    *)
(* nothing shared and are part of the wait for the next statement.  Only   *)
(* resetPassword() has a transaction, of its three writes.                 *)
(***************************************************************************)
EXTENDS Naturals, FiniteSets

CONSTANTS
    Request,        \* the calls of a behaviour, each served once
    UserId,         \* uuids the database hands out to rows of "users"
    TokenId,        \* refresh tokens, uuids
    ResetId,        \* reset tokens, uuids
    Address,        \* e-mail addresses as they are typed
    LowerCase,      \* toLowerCase()
    Password,
    Lifetime,       \* of a refresh token: jwt.refreshExpiresIn
    ResetLifetime,  \* of a reset token: 1 hour
    MaxTime,        \* the last instant of the clock
    None            \* null, undefined

Time == 0 .. MaxTime

Operation == {"register", "login", "refresh", "logout", "forgot", "reset", "change"}

ASSUME SessionsAssumption ==
    /\ LowerCase \in [Address -> Address]
    /\ \A a \in Address : LowerCase[LowerCase[a]] = LowerCase[a]
    /\ Lifetime \in Nat /\ ResetLifetime \in Nat /\ MaxTime \in Nat
    /\ None \notin UserId \cup TokenId \cup ResetId \cup Address \cup Password \cup Operation

VARIABLES
    users,      \* table "users": a row, or None for an id not handed out
    tokens,     \* table "refresh_tokens"
    resets,     \* table "password_resets"
    now,        \* the clock
    req,        \* what each request is about and where it is suspended
    contested   \* what two calls contended for: the one was between its lookup
                \* and its write when the other found, or ended, the same

vars == <<users, tokens, resets, now, req, contested>>

-----------------------------------------------------------------------------
(* Types.                                                                  *)

\* password stands for the hash that argon2 verifies.  No code here writes a
\* status but ACTIVE.  era is no column: it counts the resets.
User == [email: Address, password: Password,
         status: {"ACTIVE", "INACTIVE", "BANNED", "PENDING_VERIFICATION"}, era: Nat]

\* parent and era are no columns: the token this one replaced, and the era its
\* issuer had found the user in.
Token == [userId: UserId, expiresAt: Nat, revoked: BOOLEAN,
          parent: TokenId \cup {None}, era: Nat]

Reset == [userId: UserId, expiresAt: Nat, used: BOOLEAN]

ASSUME NoRowIsNone == None \notin User \cup Token \cup Reset

Suspended == {"create", "issue", "revoke", "forgot", "reset", "change"}

\* A token, a reset token, the sessions of a user in an era.
Contention == TokenId \cup ResetId \cup (UserId \X Nat)

\* broken is a refresh that ended between its two writes.
Ended == {"answered", "refused", "failed", "broken"}

\* hit says whether logout() found a token to revoke; since is when the last
\* database call ended.
Call == [pc: {"new"} \cup Suspended \cup Ended, op: Operation \cup {None},
         address: Address \cup {None}, password: Password \cup {None},
         user: UserId \cup {None}, token: TokenId \cup {None},
         reset: ResetId \cup {None}, era: Nat, hit: BOOLEAN, since: Time]

NewCall == [pc |-> "new", op |-> None, address |-> None, password |-> None, user |-> None,
            token |-> None, reset |-> None, era |-> 0, hit |-> FALSE, since |-> 0]

-----------------------------------------------------------------------------
(* Queries.                                                                *)

Accounts == {u \in UserId : users[u] # None}

Issued == {t \in TokenId : tokens[t] # None}

Asked == {s \in ResetId : resets[s] # None}

\* where: { email: email.toLowerCase() }
AccountsOf(a) == {u \in Accounts : users[u].email = LowerCase[a]}

\* dayjs().isAfter(expiresAt)
Expired(row) == now > row.expiresAt

\* !stored || stored.revokedAt || dayjs().isAfter(stored.expiresAt), negated.
Valid(t) == t \in Issued /\ ~tokens[t].revoked /\ ~Expired(tokens[t])

Usable(s) == s \in Asked /\ ~resets[s].used /\ ~Expired(resets[s])

\* where: { userId, revokedAt: null }, revoked.
RevokeAllOf(u) ==
    tokens' = [t \in TokenId |->
                 IF t \in Issued /\ tokens[t].userId = u
                 THEN [tokens[t] EXCEPT !.revoked = TRUE] ELSE tokens[t]]

-----------------------------------------------------------------------------
(* Serving a request.                                                      *)

Served(r) == req[r].pc \in Suspended

Admitted(r) == req[r].pc = "new"

Serve(r, call) == req' = [req EXCEPT ![r] = call]

\* The refresh token has been found valid, and not revoked for it yet.
Refreshing(t) == \E q \in Request : req[q].pc = "revoke" /\ req[q].token = t

\* The reset token has been found usable, and not been used yet.
Resetting(s) == \E q \in Request : req[q].pc = "reset" /\ req[q].reset = s

\* What the calls about to issue u a token found of u.
SessionsToCome(u) ==
    {<<u, req[q].era>> : q \in {p \in Request : req[p].pc \in {"revoke", "issue"} /\ req[p].user = u}}

Contested(S) == contested' = contested \cup S

\* A request that ended, of which nothing is kept but for that.
Over(pc) == [NewCall EXCEPT !.pc = pc]

\* register(): 409 when the address has an account.
RegisterFind(r) ==
    /\ Admitted(r)
    /\ \E a \in Address, w \in Password :
          Serve(r, IF AccountsOf(a) # {} THEN Over("refused")
                   ELSE [NewCall EXCEPT !.pc = "create", !.op = "register",
                                        !.address = a, !.password = w])
    /\ UNCHANGED <<users, tokens, resets, now, contested>>

RegisterCreateAsTyped(r) ==
    /\ req[r].pc = "create"
    /\ \E u \in UserId \ Accounts :
          /\ \A w \in Accounts : users[w].email # req[r].address
          /\ users' = [users EXCEPT ![u] =
                [email |-> req[r].address, password |-> req[r].password,
                 status |-> "ACTIVE", era |-> 0]]
          /\ Serve(r, [NewCall EXCEPT !.pc = "issue", !.op = "register", !.user = u,
                                      !.since = now])
    /\ UNCHANGED <<tokens, resets, now, contested>>

\* register(): the insert, refused by the unique index on the address (P2002,
\* answered 409).
RegisterCreate(r) ==
    /\ req[r].pc = "create"
    /\ \/ /\ AccountsOf(req[r].address) # {}
          /\ Serve(r, Over("refused"))
          /\ UNCHANGED users
       \/ \E u \in UserId \ Accounts :
             /\ AccountsOf(req[r].address) = {}
             /\ users' = [users EXCEPT ![u] =
                   [email |-> LowerCase[req[r].address], password |-> req[r].password,
                    status |-> "ACTIVE", era |-> 0]]
             /\ Serve(r, [NewCall EXCEPT !.pc = "issue", !.op = "register", !.user = u,
                                         !.since = now])
    /\ UNCHANGED <<tokens, resets, now, contested>>

\* login(): 401 for an unknown address, a banned account, another password.
LoginFind(r) ==
    /\ Admitted(r)
    /\ \E a \in Address, w \in Password :
          \/ /\ \A u \in AccountsOf(a) : users[u].status = "BANNED" \/ users[u].password # w
             /\ Serve(r, Over("refused"))
          \/ \E u \in AccountsOf(a) :
                /\ users[u].status # "BANNED" /\ users[u].password = w
                /\ Serve(r, [NewCall EXCEPT !.pc = "issue", !.op = "login", !.user = u,
                                            !.era = users[u].era, !.since = now])
    /\ UNCHANGED <<users, tokens, resets, now, contested>>

RefreshFindBare(r) ==
    /\ Admitted(r)
    /\ \E t \in TokenId :
          Serve(r, IF ~Valid(t) THEN Over("refused")
                   ELSE [NewCall EXCEPT !.pc = "revoke", !.op = "refresh", !.token = t])
    /\ UNCHANGED <<users, tokens, resets, now, contested>>

\* refreshTokens(): 401 for a token that is unknown, revoked or expired.
RefreshFind(r) ==
    /\ Admitted(r)
    /\ \E t \in TokenId :
       /\ Contested(IF Valid(t) /\ Refreshing(t) THEN {t} ELSE {})
       /\ Serve(r, IF ~Valid(t) THEN Over("refused")
                   ELSE [NewCall EXCEPT !.pc = "revoke", !.op = "refresh", !.token = t,
                                        !.user = tokens[t].userId,
                                        !.era = users[tokens[t].userId].era])
    /\ UNCHANGED <<users, tokens, resets, now>>

RefreshRevokeAll(r) ==
    /\ req[r].pc = "revoke"
    /\ RevokeAllOf(req[r].user)
    /\ Serve(r, [req[r] EXCEPT !.pc = "issue", !.since = now])
    /\ UNCHANGED <<users, resets, now, contested>>

\* refreshTokens(): the old token, by its id and whatever it has become.
RefreshRevoke(r) ==
    /\ req[r].pc = "revoke"
    /\ tokens' = [tokens EXCEPT ![req[r].token].revoked = TRUE]
    /\ Serve(r, [req[r] EXCEPT !.pc = "issue", !.since = now])
    /\ UNCHANGED <<users, resets, now, contested>>

\* generateTokens(): the insert of the new token, then the answer.  Its expiry
\* was computed before the insert.
Issue(r) ==
    /\ req[r].pc = "issue"
    /\ \E t \in TokenId \ Issued, at \in req[r].since .. now :
          tokens' = [tokens EXCEPT ![t] =
             [userId |-> req[r].user, expiresAt |-> at + Lifetime, revoked |-> FALSE,
              parent |-> req[r].token, era |-> req[r].era]]
    /\ Serve(r, IF req[r].op = "register"
                THEN [Over("answered") EXCEPT !.op = "register", !.user = req[r].user]
                ELSE Over("answered"))
    /\ UNCHANGED <<users, resets, now, contested>>

\* logout(): one statement, where: { token, revokedAt: null }.
Logout(r) ==
    /\ Admitted(r)
    /\ \E t \in TokenId :
          LET hit == t \in Issued /\ ~tokens[t].revoked IN
          /\ tokens' = IF hit THEN [tokens EXCEPT ![t].revoked = TRUE] ELSE tokens
          /\ Contested(IF hit /\ Refreshing(t) THEN {t} ELSE {})
          /\ Serve(r, [Over("answered") EXCEPT !.op = "logout", !.token = t, !.hit = hit])
    /\ UNCHANGED <<users, resets, now>>

\* forgotPassword(): nothing is said of an address without account.
ForgotFind(r) ==
    /\ Admitted(r)
    /\ \E a \in Address :
          \/ AccountsOf(a) = {} /\ Serve(r, Over("answered"))
          \/ \E u \in AccountsOf(a) :
                Serve(r, [NewCall EXCEPT !.pc = "forgot", !.op = "forgot", !.user = u, !.since = now])
    /\ UNCHANGED <<users, tokens, resets, now, contested>>

\* forgotPassword(): the reset token.
ForgotInsert(r) ==
    /\ req[r].pc = "forgot"
    /\ \E s \in ResetId \ Asked, at \in req[r].since .. now :
          resets' = [resets EXCEPT ![s] =
             [userId |-> req[r].user, expiresAt |-> at + ResetLifetime, used |-> FALSE]]
    /\ Serve(r, Over("answered"))
    /\ UNCHANGED <<users, tokens, now, contested>>

\* resetPassword(): 400 for a reset token that is unknown, used or expired.
ResetFind(r) ==
    /\ Admitted(r)
    /\ \E s \in ResetId, w \in Password :
       /\ Contested(IF Usable(s) /\ Resetting(s) THEN {s} ELSE {})
       /\ Serve(r, IF ~Usable(s) THEN Over("refused")
                   ELSE [NewCall EXCEPT !.pc = "reset", !.op = "reset", !.reset = s,
                                        !.password = w, !.user = resets[s].userId])
    /\ UNCHANGED <<users, tokens, resets, now>>

ResetWriteUnused(r) ==
    /\ req[r].pc = "reset"
    /\ users' = [users EXCEPT ![req[r].user].password = req[r].password,
                              ![req[r].user].era = @ + 1]
    /\ RevokeAllOf(req[r].user)
    /\ Contested(SessionsToCome(req[r].user))
    /\ Serve(r, [Over("answered") EXCEPT !.op = "reset", !.reset = req[r].reset, !.user = req[r].user])
    /\ UNCHANGED <<resets, now>>

ResetWriteKeepSessions(r) ==
    /\ req[r].pc = "reset"
    /\ users' = [users EXCEPT ![req[r].user].password = req[r].password,
                              ![req[r].user].era = @ + 1]
    /\ resets' = [resets EXCEPT ![req[r].reset].used = TRUE]
    /\ Contested(SessionsToCome(req[r].user))
    /\ Serve(r, [Over("answered") EXCEPT !.op = "reset", !.reset = req[r].reset, !.user = req[r].user])
    /\ UNCHANGED <<tokens, now>>

\* resetPassword(): password, reset token and sessions in one transaction.
ResetWrite(r) ==
    /\ req[r].pc = "reset"
    /\ users' = [users EXCEPT ![req[r].user].password = req[r].password,
                              ![req[r].user].era = @ + 1]
    /\ resets' = [resets EXCEPT ![req[r].reset].used = TRUE]
    /\ RevokeAllOf(req[r].user)
    /\ Contested(SessionsToCome(req[r].user))
    /\ Serve(r, [Over("answered") EXCEPT !.op = "reset", !.reset = req[r].reset, !.user = req[r].user])
    /\ UNCHANGED now

\* changePassword(), for a user whose access token JwtStrategy accepts: 400
\* when the current password is another.
ChangeFind(r) ==
    /\ Admitted(r)
    /\ \E u \in Accounts, old, w \in Password :
          /\ users[u].status \notin {"BANNED", "INACTIVE"}
          /\ Serve(r, IF users[u].password # old THEN Over("refused")
                      ELSE [NewCall EXCEPT !.pc = "change", !.op = "change", !.user = u,
                                           !.password = w])
    /\ UNCHANGED <<users, tokens, resets, now, contested>>

\* changePassword(): the sessions go on.
ChangeWrite(r) ==
    /\ req[r].pc = "change"
    /\ users' = [users EXCEPT ![req[r].user].password = req[r].password]
    /\ Serve(r, Over("answered"))
    /\ UNCHANGED <<tokens, resets, now, contested>>

\* The awaited call fails, or the process stops.
Abort(r) ==
    /\ Served(r)
    /\ Serve(r, IF req[r].pc = "issue" /\ req[r].op = "refresh"
                THEN [Over("broken") EXCEPT !.token = req[r].token]
                ELSE Over("failed"))
    /\ UNCHANGED <<users, tokens, resets, now, contested>>

Tick ==
    /\ now < MaxTime
    /\ now' = now + 1
    /\ UNCHANGED <<users, tokens, resets, req, contested>>

-----------------------------------------------------------------------------

\* Empty tables, or one account, of any status, with a session and a reset
\* token on its way.
Init ==
    /\ now = 0
    /\ req = [r \in Request |-> NewCall]
    /\ contested = {}
    /\ \/ /\ users = [u \in UserId |-> None]
          /\ tokens = [t \in TokenId |-> None]
          /\ resets = [s \in ResetId |-> None]
       \/ \E u \in UserId, t \in TokenId, s \in ResetId, a \in Address, w \in Password,
             status \in {"ACTIVE", "BANNED"} :
             /\ users = [x \in UserId |->
                   IF x = u THEN [email |-> LowerCase[a], password |-> w, status |-> status,
                                  era |-> 0] ELSE None]
             /\ tokens = [x \in TokenId |->
                   IF x = t THEN [userId |-> u, expiresAt |-> Lifetime, revoked |-> FALSE,
                                  parent |-> None, era |-> 0] ELSE None]
             /\ resets = [x \in ResetId |->
                   IF x = s THEN [userId |-> u, expiresAt |-> ResetLifetime, used |-> FALSE]
                   ELSE None]

Register(r) == RegisterFind(r) \/ RegisterCreate(r)

Refresh(r) == RefreshFind(r) \/ RefreshRevoke(r)

Forgot(r) == ForgotFind(r) \/ ForgotInsert(r)

ResetPassword(r) == ResetFind(r) \/ ResetWrite(r)

Change(r) == ChangeFind(r) \/ ChangeWrite(r)

Handle(r) ==
    \/ Register(r) \/ LoginFind(r) \/ Refresh(r) \/ Issue(r)
    \/ Logout(r) \/ Forgot(r) \/ ResetPassword(r) \/ Change(r) \/ Abort(r)

Next == Tick \/ \E r \in Request : Handle(r)

Spec == Init /\ [][Next]_vars

-----------------------------------------------------------------------------
(* What holds whatever the interleaving.                                   *)

\* The tables and the requests hold what their types allow.
TypeOK ==
    /\ users \in [UserId -> User \cup {None}]
    /\ tokens \in [TokenId -> Token \cup {None}]
    /\ resets \in [ResetId -> Reset \cup {None}]
    /\ now \in Time
    /\ req \in [Request -> Call]
    /\ contested \subseteq Contention

\* One address has one account, however it is typed and however registrations
\* cross: the index answers those that passed the lookup.  Two registrations
\* that were answered made two accounts.
OneAccountPerAddress ==
    /\ \A u, w \in Accounts : LowerCase[users[u].email] = LowerCase[users[w].email] => u = w
    /\ \A r, q \in Request :
          /\ req[r].op = "register" /\ req[r].pc \in {"issue", "answered"}
          /\ req[q].op = "register" /\ req[q].pc \in {"issue", "answered"}
          /\ req[r].user = req[q].user
          => r = q

\* A session ends because somebody ended it, never because calls crossed: a
\* token that is revoked was replaced by another, or is about to be, or its
\* user logged out or reset the password, or the refresh failed half-way.
SessionsEndForAReason ==
    \A t \in Issued : tokens[t].revoked =>
       \/ \E s \in Issued : tokens[s].parent = t
       \/ tokens[t].era < users[tokens[t].userId].era
       \/ \E r \in Request :
             /\ req[r].token = t
             /\ \/ req[r].op = "refresh" /\ req[r].pc = "issue"
                \/ req[r].op = "logout" /\ req[r].hit
                \/ req[r].pc = "broken"

-----------------------------------------------------------------------------
(* What a lookup is worth at the write: it holds but where calls contended. *)

\* A refresh token has one successor, unless two refreshes both found it valid
\* before either revoked it; it dies before the birth of that successor, so that
\* a session has one token at a time.  A reset token sets one password, unless
\* two resets both found it unused.
SpentOnce ==
    /\ \A s, t \in Issued :
          tokens[s].parent = tokens[t].parent /\ tokens[s].parent # None
          => s = t \/ tokens[s].parent \in contested
    /\ \A s \in Issued : tokens[s].parent # None => tokens[tokens[s].parent].revoked
    /\ \A r, q \in Request :
          /\ req[r].op = "reset" /\ req[r].pc = "answered"
          /\ req[q].op = "reset" /\ req[q].pc = "answered"
          /\ req[r].reset = req[q].reset
          => r = q \/ req[r].reset \in contested

\* A session that was ended stays so.  After a reset no token is alive that was
\* issued on the strength of what came before it, but by a registration, a
\* login or a refresh that had its lookup behind it when the reset wrote; and a
\* logout that found its token leaves the session no other, but one by a refresh
\* that had found the token too.
EndedStaysEnded ==
    /\ \A t \in Issued :
          \/ tokens[t].revoked
          \/ tokens[t].era = users[tokens[t].userId].era
          \/ <<tokens[t].userId, tokens[t].era>> \in contested
    /\ \A r \in Request : req[r].op = "logout" /\ req[r].hit =>
          \/ \A s \in Issued : tokens[s].parent # req[r].token
          \/ req[r].token \in contested
=============================================================================
