--------------------------- MODULE SessionsProofs ---------------------------
(***************************************************************************)
(* What Sessions promises, for any number of calls, accounts and tokens.   *)
(* Inv is about what a call carries past its awaits; SpendInv, EraInv and  *)
(* ResetOnceInv about what its lookup is still worth when it writes.       *)
(***************************************************************************)
EXTENDS Sessions, TLAPS

\* What a call knows still fits the tables when its next step comes.
Sound(c) ==
    /\ c.pc = "create" => c.op = "register" /\ c.address \in Address /\ c.password \in Password
    /\ c.pc \in {"issue", "revoke"} =>
          c.user \in Accounts /\ c.era <= users[c.user].era
    /\ c.pc = "issue" => IF c.op = "refresh" THEN c.token \in Issued /\ tokens[c.token].revoked
                         ELSE c.token = None
    /\ c.pc = "revoke" => c.op = "refresh" /\ c.token \in Issued
    /\ c.pc = "forgot" => c.user \in Accounts
    /\ c.pc = "reset" => c.user \in Accounts /\ c.reset \in Asked /\ c.password \in Password
    /\ c.pc = "change" => c.user \in Accounts /\ c.password \in Password
    /\ c.op = "register" /\ c.pc \in {"issue", "answered"} => c.user \in Accounts
    /\ c.op = "logout" => c.pc = "answered"
    /\ c.op = "logout" /\ c.hit => c.token \in Issued /\ tokens[c.token].revoked
    /\ c.op = "reset" /\ c.pc = "answered" => c.reset \in Asked /\ resets[c.reset].used

UsersInv ==
    /\ \A u \in Accounts : LowerCase[users[u].email] = users[u].email
    /\ \A u, w \in Accounts : users[u].email = users[w].email => u = w

TokensInv ==
    \A t \in Issued :
       /\ tokens[t].userId \in Accounts
       /\ tokens[t].era <= users[tokens[t].userId].era
       /\ tokens[t].parent # None => tokens[t].parent \in Issued /\ tokens[tokens[t].parent].revoked

ResetsInv == \A s \in Asked : resets[s].userId \in Accounts

Registered(r) == req[r].op = "register" /\ req[r].pc \in {"issue", "answered"}

RegisteredApart ==
    \A r, q \in Request : Registered(r) /\ Registered(q) /\ req[r].user = req[q].user => r = q

\* The call says why the token is revoked.
Excuse(r, t) ==
    /\ req[r].token = t
    /\ \/ req[r].op = "refresh" /\ req[r].pc = "issue"
       \/ req[r].op = "logout" /\ req[r].hit
       \/ req[r].pc = "broken"

Reason(t) ==
    \/ \E s \in Issued : tokens[s].parent = t
    \/ tokens[t].era < users[tokens[t].userId].era
    \/ \E r \in Request : Excuse(r, t)

Reasons == \A t \in Issued : tokens[t].revoked => Reason(t)

Inv ==
    /\ TypeOK
    /\ \A r \in Request : Sound(req[r])
    /\ UsersInv /\ TokensInv /\ ResetsInv
    /\ RegisteredApart
    /\ Reasons

-----------------------------------------------------------------------------
(* Rows and calls.                                                         *)

LEMMA RowTypes ==
    ASSUME TypeOK
    PROVE  /\ \A u \in Accounts : u \in UserId /\ users[u] \in User /\ users[u].era \in Nat
           /\ \A t \in Issued : t \in TokenId /\ tokens[t] \in Token /\ tokens[t].era \in Nat
           /\ \A s \in Asked : s \in ResetId /\ resets[s] \in Reset
BY DEF TypeOK, Accounts, Issued, Asked, User, Token, Reset

LEMMA OverIsCall ==
    ASSUME NEW pc \in Ended
    PROVE  /\ Over(pc) \in Call
           /\ Over(pc).pc = pc /\ Over(pc).op = None /\ Over(pc).token = None
           /\ Over(pc).hit = FALSE
<1>1. 0 \in Time /\ pc \in {"new"} \cup Suspended \cup Ended
  BY SessionsAssumption DEF Time
<1>2. NewCall \in Call
  BY <1>1 DEF NewCall, Call
<1>3. Over(pc) \in Call
  BY <1>1, <1>2 DEF Over, Call
<1>4. QED
  BY <1>3 DEF Over, NewCall

LEMMA OverIsSound ==
    ASSUME NEW pc \in Ended
    PROVE  Sound(Over(pc)) /\ Sound(Over(pc))'
BY OverIsCall, SessionsAssumption DEF Sound, Ended, Operation

\* Serving a call changes that call alone.
LEMMA ServeEffect ==
    ASSUME TypeOK, NEW r \in Request, NEW c \in Call, Serve(r, c)
    PROVE  /\ req' \in [Request -> Call] /\ req'[r] = c
           /\ \A q \in Request \ {r} : req'[q] = req[q]
BY DEF TypeOK, Serve

-----------------------------------------------------------------------------
(* No step takes back what the tables have.                                *)

KeepsUsers ==
    \A u \in Accounts : /\ u \in Accounts'
                        /\ users'[u].email = users[u].email
                        /\ users[u].era <= users'[u].era

KeepsTokens ==
    \A t \in Issued : /\ t \in Issued'
                      /\ tokens'[t].userId = tokens[t].userId
                      /\ tokens'[t].era = tokens[t].era
                      /\ tokens'[t].parent = tokens[t].parent
                      /\ tokens[t].revoked => tokens'[t].revoked

KeepsResets ==
    \A s \in Asked : /\ s \in Asked'
                     /\ resets'[s].userId = resets[s].userId
                     /\ resets[s].used => resets'[s].used

Keeps == KeepsUsers /\ KeepsTokens /\ KeepsResets

LEMMA KeptUsers == ASSUME TypeOK, users' = users PROVE KeepsUsers /\ Accounts' = Accounts
BY RowTypes DEF KeepsUsers, Accounts

LEMMA KeptTokens == ASSUME tokens' = tokens PROVE KeepsTokens /\ Issued' = Issued
BY DEF KeepsTokens, Issued

LEMMA KeptResets == ASSUME resets' = resets PROVE KeepsResets /\ Asked' = Asked
BY DEF KeepsResets, Asked

\* What a call knows is not outdated by the growth of the tables.
LEMMA SoundStays ==
    ASSUME TypeOK, TypeOK', Keeps, NEW c \in Call, Sound(c), NEW q \in Request, req[q] = c, req'[q] = c
    PROVE  Sound(req[q])'
<1>1. c.era \in Nat
  BY DEF Call
<1>2. \A u \in Accounts : c.era <= users[u].era => c.era <= users'[u].era
  BY <1>1, RowTypes DEF Keeps, KeepsUsers, TypeOK, Accounts, User
<1>3. QED
  BY <1>2 DEF Sound, Keeps, KeepsUsers, KeepsTokens, KeepsResets

LEMMA AllSound ==
    ASSUME Inv, TypeOK', Keeps, NEW r \in Request, Sound(req[r])',
           \A q \in Request \ {r} : req'[q] = req[q]
    PROVE  \A q \in Request : Sound(req[q])'
<1>. SUFFICES ASSUME NEW q \in Request, q # r PROVE Sound(req[q])'
  OBVIOUS
<1>1. req[q] \in Call /\ Sound(req[q]) /\ req'[q] = req[q]
  BY DEF Inv, TypeOK
<1>2. QED
  BY <1>1, SoundStays DEF Inv

LEMMA StillApart ==
    ASSUME Inv, NEW r \in Request, \A q \in Request \ {r} : req'[q] = req[q],
           Registered(r)' => Registered(r) /\ req'[r].user = req[r].user
    PROVE  RegisteredApart'
BY DEF Inv, RegisteredApart, Registered

\* A reason stays one, unless it was the call that just went on.
LEMMA ReasonStays ==
    ASSUME Inv, TypeOK', Keeps, NEW r \in Request, \A q \in Request \ {r} : req'[q] = req[q],
           NEW t \in Issued, Reason(t), Excuse(r, t) => Reason(t)'
    PROVE  Reason(t)'
<1>1. CASE \E s \in Issued : tokens[s].parent = t
  BY <1>1 DEF Reason, Keeps, KeepsTokens
<1>2. CASE tokens[t].era < users[tokens[t].userId].era
  <2>. DEFINE u == tokens[t].userId
  <2>1. u \in Accounts /\ u \in Accounts' /\ tokens[t].era \in Nat /\ users[u].era \in Nat
    BY RowTypes DEF Inv, TokensInv, Keeps, KeepsUsers
  <2>2. users'[u].era \in Nat
    BY <2>1 DEF TypeOK, Accounts, User
  <2>3. users[u].era <= users'[u].era /\ tokens'[t].era = tokens[t].era /\ tokens'[t].userId = u
    BY <2>1 DEF Keeps, KeepsUsers, KeepsTokens
  <2>4. tokens[t].era < users'[u].era
    BY <2>1, <2>2, <2>3, <1>2
  <2>5. QED
    BY <2>3, <2>4 DEF Reason
<1>3. CASE \E q \in Request \ {r} : Excuse(q, t)
  BY <1>3 DEF Reason, Excuse
<1>4. QED
  BY <1>1, <1>2, <1>3 DEF Reason

-----------------------------------------------------------------------------
(* The steps that write no table.                                          *)

\* A lookup, a refusal or a failure: the tables stay and the call is sound.
LEMMA QuietStep ==
    ASSUME Inv, NEW r \in Request, NEW c \in Call, Serve(r, c), contested' \subseteq Contention,
           users' = users, tokens' = tokens, resets' = resets, now' = now, Sound(c),
           c.op = "register" => c.pc = "create",
           \A t : Excuse(r, t) => c.pc = "broken" /\ c.token = t
    PROVE  Inv'
<1>1. /\ req' \in [Request -> Call] /\ req'[r] = c
      /\ \A q \in Request \ {r} : req'[q] = req[q]
  BY ServeEffect DEF Inv
<1>2. TypeOK'
  BY <1>1 DEF Inv, TypeOK
<1>3. Keeps /\ Accounts' = Accounts /\ Issued' = Issued /\ Asked' = Asked
  BY KeptUsers, KeptTokens, KeptResets DEF Keeps, Inv
<1>4. \A q \in Request : Sound(req[q])'
  <2>1. Sound(req[r])'
    BY <1>1, <1>3 DEF Sound
  <2>2. QED
    BY <2>1, <1>1, <1>2, <1>3, AllSound
<1>5. UsersInv' /\ TokensInv' /\ ResetsInv'
  BY <1>3 DEF Inv, UsersInv, TokensInv, ResetsInv
<1>6. RegisteredApart'
  BY <1>1, StillApart DEF Registered
<1>7. Reasons'
  <2>. SUFFICES ASSUME NEW t \in Issued, tokens[t].revoked PROVE Reason(t)'
    BY <1>3 DEF Reasons
  <2>1. Excuse(r, t) => Excuse(r, t)'
    BY <1>1 DEF Excuse
  <2>2. QED
    BY <2>1, <1>1, <1>2, <1>3, ReasonStays DEF Inv, Reasons, Reason
<1>8. QED
  BY <1>2, <1>4, <1>5, <1>6, <1>7 DEF Inv

LEMMA NewHasNoExcuse ==
    ASSUME Inv, NEW r \in Request, req[r].pc \in {"new", "create", "forgot", "reset", "change", "revoke"}, NEW t
    PROVE  ~Excuse(r, t)
BY DEF Inv, Sound, Excuse

LEMMA ContentionIsTyped ==
    ASSUME Inv, NEW r \in Request,
           \/ RegisterFind(r) \/ LoginFind(r) \/ RefreshFind(r) \/ Logout(r) \/ ForgotFind(r)
           \/ ResetFind(r) \/ ResetWrite(r) \/ ChangeFind(r)
    PROVE  contested' \subseteq Contention
<1>1. contested \subseteq Contention
  BY DEF Inv, TypeOK
<1>2. CASE contested' = contested
  BY <1>1, <1>2
<1>3. CASE RefreshFind(r) \/ Logout(r)
  BY <1>1, <1>3 DEF RefreshFind, Logout, Contested, Contention
<1>4. CASE ResetFind(r)
  BY <1>1, <1>4 DEF ResetFind, Contested, Contention
<1>5. CASE ResetWrite(r)
  <2>1. \A u \in UserId : SessionsToCome(u) \subseteq UserId \X Nat
    BY DEF SessionsToCome, Inv, TypeOK, Call
  <2>2. req[r].user \in UserId
    BY <1>5, RowTypes DEF ResetWrite, Inv, Sound
  <2>3. QED
    BY <1>1, <1>5, <2>1, <2>2 DEF ResetWrite, Contested, Contention
<1>6. QED
  BY <1>2, <1>3, <1>4, <1>5 DEF RegisterFind, LoginFind, ForgotFind, ChangeFind

\* A call that was refused, failed, or is answered with nothing to keep.
LEMMA EndStep ==
    ASSUME Inv, NEW r \in Request, NEW pc \in Ended, Serve(r, Over(pc)), contested' \subseteq Contention,
           users' = users, tokens' = tokens, resets' = resets, now' = now,
           \A t : ~Excuse(r, t)
    PROVE  Inv'
<1>1. Over(pc).op # "register"
  BY OverIsCall, SessionsAssumption DEF Operation
<1>2. QED
  BY <1>1, OverIsCall, OverIsSound, QuietStep

LEMMA NewIsCall ==
    /\ NewCall \in Call /\ 0 \in Time
    /\ NewCall.op = None /\ NewCall.token = None /\ NewCall.hit = FALSE /\ NewCall.era = 0
BY SessionsAssumption DEF Time, NewCall, Call

LEMMA AccountsOfAddress ==
    ASSUME NEW a, NEW u \in AccountsOf(a)
    PROVE  u \in Accounts /\ users[u].email = LowerCase[a]
BY DEF AccountsOf

LEMMA RegisterFindStep == ASSUME Inv, NEW r \in Request, RegisterFind(r) PROVE Inv'
<1>. PICK a \in Address, w \in Password :
       Serve(r, IF AccountsOf(a) # {} THEN Over("refused")
                ELSE [NewCall EXCEPT !.pc = "create", !.op = "register",
                                     !.address = a, !.password = w])
  BY DEF RegisterFind
<1>. /\ users' = users /\ tokens' = tokens /\ resets' = resets /\ now' = now
     /\ contested' \subseteq Contention /\ \A t : ~Excuse(r, t)
  BY ContentionIsTyped, NewHasNoExcuse DEF RegisterFind, Admitted
<1>1. CASE AccountsOf(a) # {}
  BY <1>1, EndStep DEF Ended
<1>2. CASE AccountsOf(a) = {}
  <2>. DEFINE c == [NewCall EXCEPT !.pc = "create", !.op = "register", !.address = a, !.password = w]
  <2>1. /\ c \in Call /\ c.pc = "create" /\ c.op = "register"
        /\ c.address = a /\ c.password = w
    BY NewIsCall DEF NewCall, Call, Suspended, Operation
  <2>2. Sound(c)
    BY <2>1 DEF Sound
  <2>3. QED
    BY <1>2, <2>1, <2>2, QuietStep
<1>3. QED
  BY <1>1, <1>2

LEMMA LoginFindStep == ASSUME Inv, NEW r \in Request, LoginFind(r) PROVE Inv'
<1>. /\ users' = users /\ tokens' = tokens /\ resets' = resets /\ now' = now
     /\ contested' \subseteq Contention /\ \A t : ~Excuse(r, t)
  BY ContentionIsTyped, NewHasNoExcuse DEF LoginFind, Admitted
<1>1. CASE Serve(r, Over("refused"))
  BY <1>1, EndStep DEF Ended
<1>2. CASE \E a \in Address : \E u \in AccountsOf(a) :
             Serve(r, [NewCall EXCEPT !.pc = "issue", !.op = "login", !.user = u,
                                      !.era = users[u].era, !.since = now])
  <2>. PICK a \in Address : \E u \in AccountsOf(a) :
         Serve(r, [NewCall EXCEPT !.pc = "issue", !.op = "login", !.user = u,
                                  !.era = users[u].era, !.since = now])
    BY <1>2
  <2>. PICK u \in AccountsOf(a) :
         Serve(r, [NewCall EXCEPT !.pc = "issue", !.op = "login", !.user = u,
                                  !.era = users[u].era, !.since = now])
    OBVIOUS
  <2>. DEFINE c == [NewCall EXCEPT !.pc = "issue", !.op = "login", !.user = u,
                                   !.era = users[u].era, !.since = now]
  <2>0. u \in Accounts /\ u \in UserId /\ users[u].era \in Nat /\ now \in Time
    BY AccountsOfAddress, RowTypes DEF Inv, TypeOK
  <2>1. /\ c \in Call /\ c.pc = "issue" /\ c.op = "login" /\ c.user = u
        /\ c.era = users[u].era /\ c.token = None /\ c.hit = FALSE
    BY <2>0, NewIsCall DEF NewCall, Call, Suspended, Operation
  <2>2. Sound(c)
    BY <2>0, <2>1 DEF Sound
  <2>3. QED
    BY <2>1, <2>2, QuietStep
<1>3. QED
  BY <1>1, <1>2 DEF LoginFind

LEMMA RefreshFindStep == ASSUME Inv, NEW r \in Request, RefreshFind(r) PROVE Inv'
<1>. PICK t \in TokenId :
       Serve(r, IF ~Valid(t) THEN Over("refused")
                ELSE [NewCall EXCEPT !.pc = "revoke", !.op = "refresh", !.token = t,
                                     !.user = tokens[t].userId,
                                     !.era = users[tokens[t].userId].era])
  BY DEF RefreshFind
<1>. /\ users' = users /\ tokens' = tokens /\ resets' = resets /\ now' = now
     /\ contested' \subseteq Contention /\ \A x : ~Excuse(r, x)
  BY ContentionIsTyped, NewHasNoExcuse DEF RefreshFind, Admitted
<1>1. CASE ~Valid(t)
  BY <1>1, EndStep DEF Ended
<1>2. CASE Valid(t)
  <2>. DEFINE u == tokens[t].userId
              c == [NewCall EXCEPT !.pc = "revoke", !.op = "refresh", !.token = t,
                                   !.user = u, !.era = users[u].era]
  <2>0. t \in Issued /\ u \in Accounts /\ u \in UserId /\ users[u].era \in Nat
    BY <1>2, RowTypes DEF Valid, Inv, TokensInv
  <2>1. /\ c \in Call /\ c.pc = "revoke" /\ c.op = "refresh" /\ c.user = u
        /\ c.era = users[u].era /\ c.token = t
    BY <2>0, NewIsCall DEF NewCall, Call, Suspended, Operation
  <2>2. Sound(c)
    BY <2>0, <2>1 DEF Sound
  <2>3. QED
    BY <1>2, <2>1, <2>2, QuietStep
<1>3. QED
  BY <1>1, <1>2

LEMMA ForgotFindStep == ASSUME Inv, NEW r \in Request, ForgotFind(r) PROVE Inv'
<1>. /\ users' = users /\ tokens' = tokens /\ resets' = resets /\ now' = now
     /\ contested' \subseteq Contention /\ \A t : ~Excuse(r, t)
  BY ContentionIsTyped, NewHasNoExcuse DEF ForgotFind, Admitted
<1>1. CASE Serve(r, Over("answered"))
  BY <1>1, EndStep DEF Ended
<1>2. CASE \E a \in Address : \E u \in AccountsOf(a) :
             Serve(r, [NewCall EXCEPT !.pc = "forgot", !.op = "forgot", !.user = u, !.since = now])
  <2>. PICK a \in Address : \E u \in AccountsOf(a) :
         Serve(r, [NewCall EXCEPT !.pc = "forgot", !.op = "forgot", !.user = u, !.since = now])
    BY <1>2
  <2>. PICK u \in AccountsOf(a) :
         Serve(r, [NewCall EXCEPT !.pc = "forgot", !.op = "forgot", !.user = u, !.since = now])
    OBVIOUS
  <2>. DEFINE c == [NewCall EXCEPT !.pc = "forgot", !.op = "forgot", !.user = u, !.since = now]
  <2>0. u \in Accounts /\ u \in UserId /\ now \in Time
    BY AccountsOfAddress, RowTypes DEF Inv, TypeOK
  <2>1. c \in Call /\ c.pc = "forgot" /\ c.op = "forgot" /\ c.user = u
    BY <2>0, NewIsCall DEF NewCall, Call, Suspended, Operation
  <2>2. Sound(c)
    BY <2>0, <2>1 DEF Sound
  <2>3. QED
    BY <2>1, <2>2, QuietStep
<1>3. QED
  BY <1>1, <1>2 DEF ForgotFind

LEMMA ResetFindStep == ASSUME Inv, NEW r \in Request, ResetFind(r) PROVE Inv'
<1>. PICK s \in ResetId, w \in Password :
       Serve(r, IF ~Usable(s) THEN Over("refused")
                ELSE [NewCall EXCEPT !.pc = "reset", !.op = "reset", !.reset = s,
                                     !.password = w, !.user = resets[s].userId])
  BY DEF ResetFind
<1>. /\ users' = users /\ tokens' = tokens /\ resets' = resets /\ now' = now
     /\ contested' \subseteq Contention /\ \A t : ~Excuse(r, t)
  BY ContentionIsTyped, NewHasNoExcuse DEF ResetFind, Admitted
<1>1. CASE ~Usable(s)
  BY <1>1, EndStep DEF Ended
<1>2. CASE Usable(s)
  <2>. DEFINE u == resets[s].userId
              c == [NewCall EXCEPT !.pc = "reset", !.op = "reset", !.reset = s,
                                   !.password = w, !.user = u]
  <2>0. s \in Asked /\ u \in Accounts /\ u \in UserId
    BY <1>2, RowTypes DEF Usable, Inv, ResetsInv
  <2>1. /\ c \in Call /\ c.pc = "reset" /\ c.op = "reset" /\ c.user = u
        /\ c.reset = s /\ c.password = w
    BY <2>0, NewIsCall DEF NewCall, Call, Suspended, Operation
  <2>2. Sound(c)
    BY <2>0, <2>1 DEF Sound
  <2>3. QED
    BY <1>2, <2>1, <2>2, QuietStep
<1>3. QED
  BY <1>1, <1>2

LEMMA ChangeFindStep == ASSUME Inv, NEW r \in Request, ChangeFind(r) PROVE Inv'
<1>. PICK u \in Accounts, old \in Password, w \in Password :
       Serve(r, IF users[u].password # old THEN Over("refused")
                ELSE [NewCall EXCEPT !.pc = "change", !.op = "change", !.user = u,
                                     !.password = w])
  BY DEF ChangeFind
<1>. /\ users' = users /\ tokens' = tokens /\ resets' = resets /\ now' = now
     /\ contested' \subseteq Contention /\ \A t : ~Excuse(r, t)
  BY ContentionIsTyped, NewHasNoExcuse DEF ChangeFind, Admitted
<1>1. CASE users[u].password # old
  BY <1>1, EndStep DEF Ended
<1>2. CASE users[u].password = old
  <2>. DEFINE c == [NewCall EXCEPT !.pc = "change", !.op = "change", !.user = u, !.password = w]
  <2>0. u \in UserId
    BY DEF Accounts
  <2>1. c \in Call /\ c.pc = "change" /\ c.op = "change" /\ c.user = u /\ c.password = w
    BY <2>0, NewIsCall DEF NewCall, Call, Suspended, Operation
  <2>2. Sound(c)
    BY <2>1 DEF Sound
  <2>3. QED
    BY <1>2, <2>1, <2>2, QuietStep
<1>3. QED
  BY <1>1, <1>2

LEMMA AbortStep == ASSUME Inv, NEW r \in Request, Abort(r) PROVE Inv'
<1>. /\ users' = users /\ tokens' = tokens /\ resets' = resets /\ now' = now
     /\ contested' \subseteq Contention /\ Served(r)
  BY DEF Abort, Inv, TypeOK
<1>1. CASE req[r].pc = "issue" /\ req[r].op = "refresh"
  <2>. DEFINE t == req[r].token
              c == [Over("broken") EXCEPT !.token = t]
  <2>0. Serve(r, c)
    BY <1>1 DEF Abort
  <2>1. c \in Call /\ c.pc = "broken" /\ c.op = None /\ c.token = t /\ c.hit = FALSE
    BY OverIsCall DEF Inv, TypeOK, Call, Ended, Over, NewCall
  <2>2. Sound(c)
    BY <2>1, SessionsAssumption DEF Sound, Operation
  <2>3. c.op # "register"
    BY <2>1, SessionsAssumption DEF Operation
  <2>4. QED
    BY <2>0, <2>1, <2>2, <2>3, QuietStep DEF Excuse
<1>2. CASE ~(req[r].pc = "issue" /\ req[r].op = "refresh")
  <2>1. \A t : ~Excuse(r, t)
    BY <1>2 DEF Served, Suspended, Excuse, Inv, Sound
  <2>2. QED
    BY <1>2, <2>1, EndStep DEF Abort, Ended
<1>3. QED
  BY <1>1, <1>2

-----------------------------------------------------------------------------
(* The steps that write.                                                   *)

LEMMA UsersInvStays == ASSUME Inv, Keeps, Accounts' = Accounts PROVE UsersInv'
BY DEF Inv, UsersInv, Keeps, KeepsUsers

LEMMA TokensInvStays == ASSUME Inv, TypeOK', Keeps, Issued' = Issued PROVE TokensInv'
<1>. SUFFICES ASSUME NEW t \in Issued
              PROVE  /\ tokens'[t].userId \in Accounts'
                     /\ tokens'[t].era <= users'[tokens'[t].userId].era
                     /\ tokens'[t].parent # None =>
                           tokens'[t].parent \in Issued' /\ tokens'[tokens'[t].parent].revoked
  BY DEF TokensInv
<1>. DEFINE u == tokens[t].userId
<1>1. u \in Accounts /\ u \in Accounts' /\ users[u].era <= users'[u].era /\ tokens[t].era <= users[u].era
  BY DEF Inv, TokensInv, Keeps, KeepsUsers
<1>2. tokens[t].era \in Nat /\ users[u].era \in Nat /\ users'[u].era \in Nat
  BY <1>1, RowTypes DEF Inv, TypeOK, Accounts, User
<1>3. tokens'[t].userId = u /\ tokens'[t].era = tokens[t].era /\ tokens'[t].parent = tokens[t].parent
  BY DEF Keeps, KeepsTokens
<1>4. tokens[t].era <= users'[u].era
  BY <1>1, <1>2
<1>5. QED
  BY <1>1, <1>3, <1>4 DEF Inv, TokensInv, Keeps, KeepsTokens

LEMMA ResetsInvStays == ASSUME Inv, Keeps, Asked' = Asked PROVE ResetsInv'
BY DEF Inv, ResetsInv, Keeps, KeepsUsers, KeepsResets

\* The reasons stay when no token is revoked and the call was no excuse, or is
\* one still.
LEMMA ReasonsStay ==
    ASSUME Inv, TypeOK', Keeps, NEW r \in Request, \A q \in Request \ {r} : req'[q] = req[q],
           \A t \in Issued : Excuse(r, t) => Reason(t)',
           \A t \in Issued' : tokens'[t].revoked => Reason(t)' \/ (t \in Issued /\ tokens[t].revoked)
    PROVE  Reasons'
<1>. SUFFICES ASSUME NEW t \in Issued', tokens'[t].revoked PROVE Reason(t)'
  BY DEF Reasons
<1>1. CASE t \in Issued /\ tokens[t].revoked
  BY <1>1, ReasonStays DEF Inv, Reasons
<1>2. QED
  BY <1>1

\* A row more in "users".
LEMMA NewAccount ==
    ASSUME Inv, NEW u \in UserId \ Accounts, NEW row \in User,
           users' = [users EXCEPT ![u] = row]
    PROVE  /\ users' \in [UserId -> User \cup {None}] /\ users'[u] = row
           /\ \A w \in Accounts : w # u /\ users'[w] = users[w]
           /\ Accounts' = Accounts \cup {u}
           /\ KeepsUsers
<1>1. /\ users' \in [UserId -> User \cup {None}] /\ users'[u] = row
      /\ \A w \in UserId \ {u} : users'[w] = users[w]
  BY DEF Inv, TypeOK
<1>2. Accounts' = Accounts \cup {u}
  BY <1>1, NoRowIsNone DEF Accounts
<1>3. QED
  BY <1>1, <1>2, RowTypes DEF Accounts, KeepsUsers, Inv

LEMMA RegisterCreateStep == ASSUME Inv, NEW r \in Request, RegisterCreate(r) PROVE Inv'
<1>. /\ tokens' = tokens /\ resets' = resets /\ now' = now /\ contested' \subseteq Contention
     /\ req[r].pc = "create" /\ \A t : ~Excuse(r, t)
  BY NewHasNoExcuse DEF RegisterCreate, Inv, TypeOK
<1>1. CASE users' = users /\ Serve(r, Over("refused"))
  BY <1>1, EndStep DEF Ended
<1>2. CASE \E u \in UserId \ Accounts :
             /\ AccountsOf(req[r].address) = {}
             /\ users' = [users EXCEPT ![u] =
                   [email |-> LowerCase[req[r].address], password |-> req[r].password,
                    status |-> "ACTIVE", era |-> 0]]
             /\ Serve(r, [NewCall EXCEPT !.pc = "issue", !.op = "register", !.user = u,
                                         !.since = now])
  <2>. PICK u \in UserId \ Accounts :
             /\ AccountsOf(req[r].address) = {}
             /\ users' = [users EXCEPT ![u] =
                   [email |-> LowerCase[req[r].address], password |-> req[r].password,
                    status |-> "ACTIVE", era |-> 0]]
             /\ Serve(r, [NewCall EXCEPT !.pc = "issue", !.op = "register", !.user = u,
                                         !.since = now])
    BY <1>2
  <2>. DEFINE row == [email |-> LowerCase[req[r].address], password |-> req[r].password,
                      status |-> "ACTIVE", era |-> 0]
              c == [NewCall EXCEPT !.pc = "issue", !.op = "register", !.user = u, !.since = now]
  <2>1. req[r].address \in Address /\ req[r].password \in Password
    BY DEF Inv, Sound
  <2>2. row \in User
    BY <2>1, SessionsAssumption DEF User
  <2>3. /\ users' \in [UserId -> User \cup {None}] /\ users'[u] = row
        /\ \A w \in Accounts : w # u /\ users'[w] = users[w]
        /\ Accounts' = Accounts \cup {u}
        /\ KeepsUsers
    <3>. HIDE DEF row
    <3>1. users' = [users EXCEPT ![u] = row]
      BY DEF row
    <3>2. QED
      BY <3>1, <2>2, NewAccount
  <2>4. /\ c \in Call /\ c.pc = "issue" /\ c.op = "register" /\ c.user = u
        /\ c.era = 0 /\ c.token = None
    BY NewIsCall DEF NewCall, Call, Suspended, Operation, Inv, TypeOK
  <2>5. /\ req' \in [Request -> Call] /\ req'[r] = c
        /\ \A q \in Request \ {r} : req'[q] = req[q]
    BY <2>4, ServeEffect DEF Inv
  <2>6. TypeOK'
    BY <2>3, <2>5 DEF Inv, TypeOK
  <2>7. Keeps /\ Issued' = Issued /\ Asked' = Asked
    BY <2>3, KeptTokens, KeptResets DEF Keeps
  <2>8. \A q \in Request : Sound(req[q])'
    <3>1. users'[u].era = 0 /\ u \in Accounts'
      BY <2>3
    <3>. HIDE DEF c, row
    <3>2. Sound(req[r])'
      BY <2>4, <2>5, <3>1 DEF Sound
    <3>3. QED
      BY <3>2, <2>5, <2>6, <2>7, AllSound
  <2>9. UsersInv'
    <3>1. users'[u].email = LowerCase[req[r].address] /\ LowerCase[users'[u].email] = users'[u].email
      BY <2>1, <2>3, SessionsAssumption
    <3>2. \A w \in Accounts : users'[w].email # users'[u].email
      BY <3>1, <2>3 DEF AccountsOf
    <3>3. QED
      BY <3>1, <3>2, <2>3 DEF Inv, UsersInv
  <2>10. TokensInv' /\ ResetsInv'
    BY <2>6, <2>7, TokensInvStays, ResetsInvStays
  <2>11. RegisteredApart'
    <3>1. \A q \in Request \ {r} : Registered(q)' => req'[q].user \in Accounts /\ Registered(q)
      BY <2>5 DEF Inv, Sound, Registered
    <3>2. req'[r].user = u
      BY <2>4, <2>5
    <3>3. QED
      BY <3>1, <3>2, <2>5 DEF Inv, RegisteredApart
  <2>12. Reasons'
    BY <2>5, <2>6, <2>7, ReasonsStay
  <2>13. QED
    BY <2>6, <2>8, <2>9, <2>10, <2>11, <2>12 DEF Inv
<1>3. QED
  BY <1>1, <1>2 DEF RegisterCreate

\* One token is revoked.
LEMMA OneRevoked ==
    ASSUME Inv, NEW t \in Issued, tokens' = [tokens EXCEPT ![t].revoked = TRUE]
    PROVE  /\ tokens' \in [TokenId -> Token \cup {None}]
           /\ Issued' = Issued /\ KeepsTokens
           /\ tokens'[t].revoked
           /\ \A x \in Issued \ {t} : tokens'[x] = tokens[x]
<1>1. t \in TokenId /\ tokens[t] \in Token
  BY RowTypes DEF Inv
<1>2. /\ tokens' \in [TokenId -> Token \cup {None}]
      /\ tokens'[t] = [tokens[t] EXCEPT !.revoked = TRUE] /\ tokens'[t] \in Token
      /\ \A x \in TokenId \ {t} : tokens'[x] = tokens[x]
  BY <1>1 DEF Inv, TypeOK, Token
<1>3. Issued' = Issued
  BY <1>1, <1>2, NoRowIsNone DEF Issued
<1>4. QED
  BY <1>1, <1>2, <1>3 DEF KeepsTokens, Issued, Token

LEMMA RefreshRevokeStep == ASSUME Inv, NEW r \in Request, RefreshRevoke(r) PROVE Inv'
<1>. DEFINE t == req[r].token
            c == [req[r] EXCEPT !.pc = "issue", !.since = now]
<1>1. /\ req[r].pc = "revoke" /\ req[r].op = "refresh" /\ t \in Issued
      /\ users' = users /\ resets' = resets /\ now' = now /\ contested' = contested
      /\ req[r] \in Call /\ Sound(req[r]) /\ now \in Time
      /\ Serve(r, c) /\ tokens' = [tokens EXCEPT ![t].revoked = TRUE]
  BY DEF RefreshRevoke, Inv, Sound, TypeOK
<1>2. /\ tokens' \in [TokenId -> Token \cup {None}]
      /\ Issued' = Issued /\ KeepsTokens /\ tokens'[t].revoked
      /\ \A x \in Issued \ {t} : tokens'[x] = tokens[x]
  BY <1>1, OneRevoked
<1>3. /\ c \in Call /\ c.pc = "issue" /\ c.op = "refresh" /\ c.user = req[r].user
      /\ c.era = req[r].era /\ c.token = t
  BY <1>1 DEF Call, Suspended
<1>4. /\ req' \in [Request -> Call] /\ req'[r] = c
      /\ \A q \in Request \ {r} : req'[q] = req[q]
  BY <1>1, <1>3, ServeEffect DEF Inv
<1>. HIDE DEF c
<1>5. TypeOK'
  BY <1>1, <1>2, <1>4 DEF Inv, TypeOK
<1>6. Keeps /\ Accounts' = Accounts /\ Asked' = Asked
  BY <1>1, <1>2, KeptUsers, KeptResets DEF Keeps, Inv
<1>7. \A q \in Request : Sound(req[q])'
  <2>1. Sound(req[r])'
    BY <1>1, <1>2, <1>3, <1>4, <1>6 DEF Sound
  <2>2. QED
    BY <2>1, <1>4, <1>5, <1>6, AllSound
<1>8. UsersInv' /\ TokensInv' /\ ResetsInv'
  BY <1>2, <1>5, <1>6, UsersInvStays, TokensInvStays, ResetsInvStays
<1>9. RegisteredApart'
  BY <1>3, <1>4, StillApart DEF Registered
<1>10. Reasons'
  <2>1. \A x \in Issued : x = t => Excuse(r, x)'
    BY <1>3, <1>4 DEF Excuse
  <2>2. \A x \in Issued : x = t => Reason(x)'
    BY <2>1 DEF Reason
  <2>3. \A x \in Issued : ~Excuse(r, x)
    BY <1>1, NewHasNoExcuse
  <2>4. \A x \in Issued' : tokens'[x].revoked => Reason(x)' \/ (x \in Issued /\ tokens[x].revoked)
    BY <2>2, <1>2
  <2>5. QED
    BY <2>3, <2>4, <1>4, <1>5, <1>6, ReasonsStay
<1>11. QED
  BY <1>5, <1>7, <1>8, <1>9, <1>10 DEF Inv

\* A row more in "refresh_tokens", not revoked.
LEMMA NewToken ==
    ASSUME Inv, NEW t \in TokenId \ Issued, NEW row \in Token, ~row.revoked,
           tokens' = [tokens EXCEPT ![t] = row]
    PROVE  /\ tokens' \in [TokenId -> Token \cup {None}] /\ tokens'[t] = row
           /\ \A x \in Issued : x # t /\ tokens'[x] = tokens[x]
           /\ Issued' = Issued \cup {t} /\ KeepsTokens
<1>1. /\ tokens' \in [TokenId -> Token \cup {None}] /\ tokens'[t] = row
      /\ \A x \in TokenId \ {t} : tokens'[x] = tokens[x]
  BY DEF Inv, TypeOK
<1>2. Issued' = Issued \cup {t}
  BY <1>1, NoRowIsNone DEF Issued
<1>3. QED
  BY <1>1, <1>2 DEF Issued, KeepsTokens

\* What Issue() leaves of its call.
IssueOver(r) ==
    IF req[r].op = "register"
    THEN [Over("answered") EXCEPT !.op = "register", !.user = req[r].user]
    ELSE Over("answered")

LEMMA IssueOverIsCall ==
    ASSUME Inv, NEW r \in Request, req[r].pc = "issue"
    PROVE  /\ IssueOver(r) \in Call /\ IssueOver(r).pc = "answered"
           /\ req[r].op = "register" => IssueOver(r).op = "register" /\ IssueOver(r).user = req[r].user
           /\ req[r].op # "register" => IssueOver(r) = Over("answered")
<1>1. req[r].user \in UserId
  BY RowTypes DEF Inv, Sound, Accounts
<1>2. Over("answered") \in Call /\ Over("answered").pc = "answered"
  BY OverIsCall DEF Ended
<1>3. CASE req[r].op = "register"
  <2>1. Over("answered") = [NewCall EXCEPT !.pc = "answered"]
    BY DEF Over
  <2>2. QED
    BY <2>1, <1>1, <1>2, <1>3 DEF IssueOver, NewCall, Call, Operation, Ended
<1>4. QED
  BY <1>2, <1>3 DEF IssueOver

LEMMA IssueStep == ASSUME Inv, NEW r \in Request, Issue(r) PROVE Inv'
<1>1. PICK t \in TokenId \ Issued, at \in req[r].since .. now :
        tokens' = [tokens EXCEPT ![t] =
           [userId |-> req[r].user, expiresAt |-> at + Lifetime, revoked |-> FALSE,
            parent |-> req[r].token, era |-> req[r].era]]
  BY DEF Issue
<1>. DEFINE row == [userId |-> req[r].user, expiresAt |-> at + Lifetime, revoked |-> FALSE,
                    parent |-> req[r].token, era |-> req[r].era]
            u == req[r].user
            c == IssueOver(r)
<1>2. /\ req[r].pc = "issue" /\ req[r] \in Call /\ Sound(req[r])
      /\ users' = users /\ resets' = resets /\ now' = now /\ contested' = contested
      /\ Serve(r, c)
  BY DEF Issue, Inv, TypeOK, IssueOver
<1>3. /\ u \in Accounts /\ u \in UserId /\ req[r].era <= users[u].era
      /\ req[r].token \in TokenId \cup {None} /\ req[r].era \in Nat
  BY <1>2 DEF Sound, Call, Accounts
<1>4. row \in Token
  <2>1. at \in Nat /\ at + Lifetime \in Nat
    BY <1>2, SessionsAssumption DEF Call, Time, Inv, TypeOK
  <2>2. QED
    BY <2>1, <1>3 DEF Token
<1>5. /\ tokens' \in [TokenId -> Token \cup {None}] /\ tokens'[t] = row
      /\ \A x \in Issued : x # t /\ tokens'[x] = tokens[x]
      /\ Issued' = Issued \cup {t} /\ KeepsTokens
  <2>1. ~row.revoked
    OBVIOUS
  <2>. HIDE DEF row
  <2>2. tokens' = [tokens EXCEPT ![t] = row]
    BY <1>1 DEF row
  <2>3. QED
    BY <2>1, <2>2, <1>4, NewToken
<1>6. /\ c \in Call /\ c.pc = "answered"
      /\ req[r].op = "register" => c.op = "register" /\ c.user = u
      /\ req[r].op # "register" => c = Over("answered")
  BY <1>2, IssueOverIsCall
<1>. HIDE DEF c
<1>7. /\ req' \in [Request -> Call] /\ req'[r] = c
      /\ \A q \in Request \ {r} : req'[q] = req[q]
  BY <1>2, <1>6, ServeEffect DEF Inv
<1>8. TypeOK'
  BY <1>2, <1>5, <1>7 DEF Inv, TypeOK
<1>9. Keeps /\ Accounts' = Accounts /\ Asked' = Asked
  BY <1>2, <1>5, KeptUsers, KeptResets DEF Keeps, Inv
<1>10. \A q \in Request : Sound(req[q])'
  <2>1. CASE req[r].op = "register"
    BY <2>1, <1>3, <1>6, <1>7, <1>8, <1>9, AllSound DEF Sound
  <2>2. CASE req[r].op # "register"
    <3>1. Sound(Over("answered"))'
      BY OverIsSound DEF Ended
    <3>2. Sound(req[r])'
      BY <3>1, <2>2, <1>6, <1>7
    <3>3. QED
      BY <3>2, <1>7, <1>8, <1>9, AllSound
  <2>3. QED
    BY <2>1, <2>2
<1>11. UsersInv' /\ ResetsInv'
  BY <1>9, UsersInvStays, ResetsInvStays
<1>12. TokensInv'
  <2>1. \A x \in Issued : /\ tokens'[x].userId \in Accounts'
                          /\ tokens'[x].era <= users'[tokens'[x].userId].era
                          /\ tokens'[x].parent # None => tokens'[x].parent \in Issued' /\ tokens'[tokens'[x].parent].revoked
    BY <1>2, <1>5, <1>9 DEF Inv, TokensInv
  <2>2. tokens'[t].userId = u /\ tokens'[t].era = req[r].era /\ tokens'[t].parent = req[r].token
    BY <1>5
  <2>3. req[r].token # None => req[r].token \in Issued' /\ tokens'[req[r].token].revoked
    BY <1>2, <1>5 DEF Sound
  <2>. HIDE DEF row
  <2>4. QED
    BY <2>1, <2>2, <2>3, <1>2, <1>3, <1>5, <1>9 DEF TokensInv
<1>13. RegisteredApart'
  <2>1. Registered(r)' => Registered(r) /\ req'[r].user = u
    <3>1. Over("answered").op # "register"
      BY OverIsCall, SessionsAssumption DEF Ended, Operation
    <3>2. QED
      BY <3>1, <1>2, <1>6, <1>7 DEF Registered
  <2>2. QED
    BY <2>1, <1>7, StillApart
<1>14. Reasons'
  <2>1. tokens'[t].parent = req[r].token /\ ~tokens'[t].revoked
    BY <1>5
  <2>2. \A x \in Issued : Excuse(r, x) => Reason(x)'
    BY <2>1, <1>2, <1>5 DEF Excuse, Reason, Sound
  <2>. HIDE DEF row
  <2>3. QED
    BY <2>1, <2>2, <1>5, <1>7, <1>8, <1>9, ReasonsStay
<1>15. QED
  BY <1>8, <1>10, <1>11, <1>12, <1>13, <1>14 DEF Inv

LEMMA LogoutStep == ASSUME Inv, NEW r \in Request, Logout(r) PROVE Inv'
<1>1. PICK t \in TokenId :
        LET hit == t \in Issued /\ ~tokens[t].revoked IN
        /\ tokens' = IF hit THEN [tokens EXCEPT ![t].revoked = TRUE] ELSE tokens
        /\ Serve(r, [Over("answered") EXCEPT !.op = "logout", !.token = t, !.hit = hit])
  BY DEF Logout
<1>. DEFINE hit == t \in Issued /\ ~tokens[t].revoked
            c == [Over("answered") EXCEPT !.op = "logout", !.token = t, !.hit = hit]
<1>2. /\ users' = users /\ resets' = resets /\ now' = now /\ contested' \subseteq Contention
      /\ \A x : ~Excuse(r, x) /\ hit \in BOOLEAN
  BY ContentionIsTyped, NewHasNoExcuse DEF Logout, Admitted
<1>3. /\ c \in Call /\ c.pc = "answered" /\ c.op = "logout" /\ c.token = t /\ c.hit = hit
  <2>. HIDE DEF hit
  <2>1. Over("answered") \in Call /\ Over("answered").pc = "answered"
    BY OverIsCall DEF Ended
  <2>2. Over("answered") = [NewCall EXCEPT !.pc = "answered"]
    BY DEF Over
  <2>3. QED
    BY <2>1, <2>2, <1>2 DEF NewCall, Call, Operation, Ended
<1>4. /\ req' \in [Request -> Call] /\ req'[r] = c
      /\ \A q \in Request \ {r} : req'[q] = req[q]
  BY <1>1, <1>3, ServeEffect DEF Inv
<1>5. /\ tokens' \in [TokenId -> Token \cup {None}]
      /\ Issued' = Issued /\ KeepsTokens
      /\ hit => tokens'[t].revoked
      /\ \A x \in Issued : (x = t /\ hit) \/ tokens'[x] = tokens[x]
  <2>1. CASE hit
    BY <2>1, <1>1, OneRevoked
  <2>2. CASE ~hit
    BY <2>2, <1>1, KeptTokens DEF Inv, TypeOK
  <2>3. QED
    BY <2>1, <2>2
<1>. HIDE DEF c
<1>6. TypeOK'
  BY <1>2, <1>4, <1>5 DEF Inv, TypeOK
<1>7. Keeps /\ Accounts' = Accounts /\ Asked' = Asked
  BY <1>2, <1>5, KeptUsers, KeptResets DEF Keeps, Inv
<1>8. \A q \in Request : Sound(req[q])'
  <2>1. Sound(req[r])'
    BY <1>3, <1>4, <1>5 DEF Sound
  <2>2. QED
    BY <2>1, <1>4, <1>6, <1>7, AllSound
<1>9. UsersInv' /\ TokensInv' /\ ResetsInv'
  BY <1>5, <1>6, <1>7, UsersInvStays, TokensInvStays, ResetsInvStays
<1>10. RegisteredApart'
  BY <1>3, <1>4, StillApart DEF Registered
<1>11. Reasons'
  <2>1. \A x \in Issued : x = t /\ hit => Excuse(r, x)'
    BY <1>3, <1>4 DEF Excuse
  <2>2. \A x \in Issued' : tokens'[x].revoked => Reason(x)' \/ (x \in Issued /\ tokens[x].revoked)
    BY <2>1, <1>5 DEF Reason
  <2>3. QED
    BY <2>2, <1>2, <1>4, <1>6, <1>7, ReasonsStay
<1>12. QED
  BY <1>6, <1>8, <1>9, <1>10, <1>11 DEF Inv

\* A row more in "password_resets", not used.
LEMMA NewReset ==
    ASSUME Inv, NEW s \in ResetId \ Asked, NEW row \in Reset,
           resets' = [resets EXCEPT ![s] = row]
    PROVE  /\ resets' \in [ResetId -> Reset \cup {None}] /\ resets'[s] = row
           /\ \A x \in Asked : x # s /\ resets'[x] = resets[x]
           /\ Asked' = Asked \cup {s} /\ KeepsResets
<1>1. /\ resets' \in [ResetId -> Reset \cup {None}] /\ resets'[s] = row
      /\ \A x \in ResetId \ {s} : resets'[x] = resets[x]
  BY DEF Inv, TypeOK
<1>2. Asked' = Asked \cup {s}
  BY <1>1, NoRowIsNone DEF Asked
<1>3. QED
  BY <1>1, <1>2 DEF Asked, KeepsResets

LEMMA ForgotInsertStep == ASSUME Inv, NEW r \in Request, ForgotInsert(r) PROVE Inv'
<1>1. PICK s \in ResetId \ Asked, at \in req[r].since .. now :
        resets' = [resets EXCEPT ![s] =
           [userId |-> req[r].user, expiresAt |-> at + ResetLifetime, used |-> FALSE]]
  BY DEF ForgotInsert
<1>. DEFINE row == [userId |-> req[r].user, expiresAt |-> at + ResetLifetime, used |-> FALSE]
            c == Over("answered")
<1>2. /\ req[r].pc = "forgot" /\ req[r] \in Call /\ Sound(req[r])
      /\ users' = users /\ tokens' = tokens /\ now' = now /\ contested' = contested
      /\ Serve(r, c)
  BY DEF ForgotInsert, Inv, TypeOK
<1>3. req[r].user \in Accounts /\ req[r].user \in UserId
  BY <1>2 DEF Sound, Accounts
<1>4. row \in Reset
  <2>1. at \in Nat /\ at + ResetLifetime \in Nat
    BY <1>2, SessionsAssumption DEF Call, Time, Inv, TypeOK
  <2>2. QED
    BY <2>1, <1>3 DEF Reset
<1>5. /\ resets' \in [ResetId -> Reset \cup {None}] /\ resets'[s] = row
      /\ \A x \in Asked : x # s /\ resets'[x] = resets[x]
      /\ Asked' = Asked \cup {s} /\ KeepsResets
  <2>. HIDE DEF row
  <2>1. resets' = [resets EXCEPT ![s] = row]
    BY <1>1 DEF row
  <2>2. QED
    BY <2>1, <1>4, NewReset
<1>6. c \in Call /\ c.pc = "answered" /\ c.op = None /\ c.token = None /\ Sound(c)'
  BY OverIsCall, OverIsSound DEF Ended
<1>. HIDE DEF c
<1>7. /\ req' \in [Request -> Call] /\ req'[r] = c
      /\ \A q \in Request \ {r} : req'[q] = req[q]
  BY <1>2, <1>6, ServeEffect DEF Inv
<1>8. TypeOK'
  BY <1>2, <1>5, <1>7 DEF Inv, TypeOK
<1>9. Keeps /\ Accounts' = Accounts /\ Issued' = Issued
  BY <1>2, <1>5, KeptUsers, KeptTokens DEF Keeps, Inv
<1>10. \A q \in Request : Sound(req[q])'
  <2>1. Sound(req[r])'
    BY <1>6, <1>7, OverIsSound DEF c, Ended
  <2>2. QED
    BY <2>1, <1>7, <1>8, <1>9, AllSound
<1>11. UsersInv' /\ TokensInv'
  BY <1>8, <1>9, UsersInvStays, TokensInvStays
<1>12. ResetsInv'
  <2>1. resets'[s].userId = req[r].user
    BY <1>5
  <2>. HIDE DEF row
  <2>2. QED
    BY <2>1, <1>3, <1>5, <1>9 DEF Inv, ResetsInv
<1>13. RegisteredApart'
  <2>1. c.op # "register"
    BY <1>6, SessionsAssumption DEF Operation
  <2>2. QED
    BY <2>1, <1>7, StillApart DEF Registered
<1>14. Reasons'
  BY <1>2, <1>7, <1>8, <1>9, ReasonsStay, NewHasNoExcuse
<1>15. QED
  BY <1>8, <1>10, <1>11, <1>12, <1>13, <1>14 DEF Inv

\* An account changes its password, and perhaps its era.
LEMMA OneUserChanged ==
    ASSUME Inv, NEW u \in Accounts, NEW row \in User, row.email = users[u].email,
           users[u].era <= row.era, users' = [users EXCEPT ![u] = row]
    PROVE  /\ users' \in [UserId -> User \cup {None}] /\ users'[u] = row
           /\ \A w \in Accounts \ {u} : users'[w] = users[w]
           /\ Accounts' = Accounts /\ KeepsUsers
<1>1. /\ u \in UserId
      /\ users' \in [UserId -> User \cup {None}] /\ users'[u] = row
      /\ \A w \in UserId \ {u} : users'[w] = users[w]
  BY DEF Inv, TypeOK, Accounts
<1>2. Accounts' = Accounts
  BY <1>1, NoRowIsNone DEF Accounts
<1>3. QED
  BY <1>1, <1>2, RowTypes DEF Accounts, KeepsUsers, Inv

LEMMA ResetOverIsCall ==
    ASSUME Inv, NEW r \in Request, req[r].pc = "reset"
    PROVE  LET c == [Over("answered") EXCEPT !.op = "reset", !.reset = req[r].reset,
                                             !.user = req[r].user] IN
           /\ c \in Call /\ c.pc = "answered" /\ c.op = "reset" /\ c.reset = req[r].reset
           /\ c.token = None /\ c.hit = FALSE
<1>1. req[r].user \in UserId /\ req[r].reset \in ResetId
  BY RowTypes DEF Inv, Sound, Accounts
<1>2. Over("answered") \in Call /\ Over("answered") = [NewCall EXCEPT !.pc = "answered"]
  BY OverIsCall DEF Ended, Over
<1>3. QED
  BY <1>1, <1>2 DEF NewCall, Call, Operation, Ended

\* The transaction of resetPassword(), table by table.
LEMMA ResetEffect ==
    ASSUME Inv, NEW r \in Request, ResetWrite(r)
    PROVE  LET u == req[r].user
               s == req[r].reset IN
           /\ u \in Accounts /\ s \in Asked
           /\ users' \in [UserId -> User \cup {None}]
           /\ users'[u].era = users[u].era + 1
           /\ \A w \in Accounts \ {u} : users'[w] = users[w]
           /\ Accounts' = Accounts /\ KeepsUsers
           /\ resets' \in [ResetId -> Reset \cup {None}]
           /\ resets'[s].used
           /\ Asked' = Asked /\ KeepsResets
           /\ tokens' \in [TokenId -> Token \cup {None}]
           /\ Issued' = Issued /\ KeepsTokens
           /\ \A t \in Issued : IF tokens[t].userId = u THEN tokens'[t].revoked
                                ELSE tokens'[t] = tokens[t]
<1>. DEFINE u == req[r].user
            s == req[r].reset
<1>1. /\ req[r].pc = "reset" /\ u \in Accounts /\ s \in Asked /\ req[r].password \in Password
      /\ u \in UserId /\ s \in ResetId /\ users[u] \in User /\ resets[s] \in Reset
      /\ users[u].era \in Nat
  BY RowTypes DEF ResetWrite, Inv, Sound
<1>2. /\ users' \in [UserId -> User \cup {None}]
      /\ users'[u].era = users[u].era + 1
      /\ \A w \in Accounts \ {u} : users'[w] = users[w]
      /\ Accounts' = Accounts /\ KeepsUsers
  <2>. DEFINE row == [users[u] EXCEPT !.password = req[r].password, !.era = @ + 1]
  <2>0. users[u].era + 1 \in Nat /\ users[u].era <= users[u].era + 1
    BY <1>1
  <2>1. row \in User /\ row.email = users[u].email /\ row.era = users[u].era + 1
    BY <1>1, <2>0 DEF User
  <2>2. users' = [users EXCEPT ![u] = row]
    BY <1>1 DEF ResetWrite, Inv, TypeOK
  <2>. HIDE DEF row
  <2>3. QED
    BY <2>0, <2>1, <2>2, <1>1, OneUserChanged
<1>3. /\ resets' \in [ResetId -> Reset \cup {None}] /\ resets'[s].used
      /\ Asked' = Asked /\ KeepsResets
  <2>1. resets' = [resets EXCEPT ![s].used = TRUE]
    BY DEF ResetWrite
  <2>2. /\ resets' \in [ResetId -> Reset \cup {None}]
        /\ resets'[s] = [resets[s] EXCEPT !.used = TRUE] /\ resets'[s] \in Reset
        /\ \A x \in ResetId \ {s} : resets'[x] = resets[x]
    BY <2>1, <1>1 DEF Inv, TypeOK, Reset
  <2>3. Asked' = Asked
    BY <2>2, <1>1, NoRowIsNone DEF Asked
  <2>4. QED
    BY <2>2, <2>3, <1>1 DEF KeepsResets, Asked, Reset
<1>4. /\ tokens' \in [TokenId -> Token \cup {None}]
      /\ Issued' = Issued /\ KeepsTokens
      /\ \A t \in Issued : IF tokens[t].userId = u THEN tokens'[t].revoked
                           ELSE tokens'[t] = tokens[t]
  <2>1. tokens' = [t \in TokenId |->
                     IF t \in Issued /\ tokens[t].userId = u
                     THEN [tokens[t] EXCEPT !.revoked = TRUE] ELSE tokens[t]]
    BY DEF ResetWrite, RevokeAllOf
  <2>2. \A t \in TokenId : \/ t \in Issued /\ tokens[t] \in Token
                           \/ t \notin Issued /\ tokens[t] = None
    BY DEF Inv, TypeOK, Issued
  <2>3. \A t \in Issued : /\ tokens'[t] \in Token
                          /\ tokens'[t].userId = tokens[t].userId
                          /\ tokens'[t].era = tokens[t].era
                          /\ tokens'[t].parent = tokens[t].parent
                          /\ tokens[t].revoked => tokens'[t].revoked
                          /\ IF tokens[t].userId = u THEN tokens'[t].revoked
                             ELSE tokens'[t] = tokens[t]
    BY <2>1, <2>2 DEF Token, Issued
  <2>4. \A t \in TokenId \ Issued : tokens'[t] = None
    BY <2>1, <2>2
  <2>5. Issued' = Issued
    BY <2>3, <2>4, NoRowIsNone DEF Issued
  <2>6. tokens' \in [TokenId -> Token \cup {None}]
    <3>1. tokens' = [t \in TokenId |-> tokens'[t]]
      BY <2>1
    <3>2. \A t \in TokenId : tokens'[t] \in Token \cup {None}
      BY <2>3, <2>4
    <3>3. QED
      BY <3>1, <3>2
  <2>7. QED
    BY <2>3, <2>5, <2>6 DEF KeepsTokens
<1>5. QED
  BY <1>1, <1>2, <1>3, <1>4

LEMMA ResetWriteStep == ASSUME Inv, NEW r \in Request, ResetWrite(r) PROVE Inv'
<1>. DEFINE u == req[r].user
            c == [Over("answered") EXCEPT !.op = "reset", !.reset = req[r].reset,
                                          !.user = req[r].user]
<1>1. /\ req[r].pc = "reset" /\ Serve(r, c)
      /\ now' = now /\ contested' \subseteq Contention
      /\ \A x : ~Excuse(r, x)
  BY NewHasNoExcuse, ContentionIsTyped DEF ResetWrite
<1>2. /\ c \in Call /\ c.pc = "answered" /\ c.op = "reset" /\ c.reset = req[r].reset
      /\ c.token = None /\ c.hit = FALSE
  BY <1>1, ResetOverIsCall
<1>. HIDE DEF c
<1>3. /\ req' \in [Request -> Call] /\ req'[r] = c
      /\ \A q \in Request \ {r} : req'[q] = req[q]
  BY <1>1, <1>2, ServeEffect DEF Inv
<1>4. /\ users' \in [UserId -> User \cup {None}]
      /\ resets' \in [ResetId -> Reset \cup {None}]
      /\ tokens' \in [TokenId -> Token \cup {None}]
      /\ Accounts' = Accounts /\ Asked' = Asked /\ Issued' = Issued
      /\ KeepsUsers /\ KeepsResets /\ KeepsTokens
      /\ u \in Accounts /\ req[r].reset \in Asked
  BY ResetEffect
<1>5. TypeOK' /\ Keeps
  BY <1>1, <1>3, <1>4 DEF Inv, TypeOK, Keeps
<1>6. \A q \in Request : Sound(req[q])'
  <2>1. resets'[req[r].reset].used
    BY ResetEffect
  <2>2. Sound(req[r])'
    BY <2>1, <1>2, <1>3, <1>4 DEF Sound
  <2>3. QED
    BY <2>2, <1>3, <1>5, AllSound
<1>7. UsersInv' /\ TokensInv' /\ ResetsInv'
  BY <1>4, <1>5, UsersInvStays, TokensInvStays, ResetsInvStays
<1>8. RegisteredApart'
  BY <1>2, <1>3, StillApart DEF Registered
<1>9. Reasons'
  <2>1. \A t \in Issued : tokens[t].userId = u => Reason(t)'
    <3>. SUFFICES ASSUME NEW t \in Issued, tokens[t].userId = u PROVE Reason(t)'
      OBVIOUS
    <3>1. tokens[t].era \in Nat /\ users[u].era \in Nat /\ tokens[t].era <= users[u].era
      BY <1>4, RowTypes DEF Inv, TokensInv
    <3>2. users'[u].era = users[u].era + 1 /\ tokens'[t].era = tokens[t].era /\ tokens'[t].userId = tokens[t].userId
      BY <1>4, ResetEffect DEF KeepsTokens
    <3>3. tokens'[t].era < users'[tokens'[t].userId].era
      BY <3>1, <3>2
    <3>4. QED
      BY <3>3 DEF Reason
  <2>2. \A t \in Issued : tokens[t].userId # u => tokens'[t] = tokens[t]
    BY ResetEffect
  <2>3. \A t \in Issued' : tokens'[t].revoked => Reason(t)' \/ (t \in Issued /\ tokens[t].revoked)
    BY <2>1, <2>2, <1>4
  <2>4. QED
    BY <2>3, <1>1, <1>3, <1>5, ReasonsStay
<1>10. QED
  BY <1>5, <1>6, <1>7, <1>8, <1>9 DEF Inv

LEMMA ChangeWriteStep == ASSUME Inv, NEW r \in Request, ChangeWrite(r) PROVE Inv'
<1>. DEFINE u == req[r].user
            c == Over("answered")
            row == [users[u] EXCEPT !.password = req[r].password]
<1>1. /\ req[r].pc = "change" /\ Serve(r, c)
      /\ tokens' = tokens /\ resets' = resets /\ now' = now /\ contested' = contested
      /\ \A x : ~Excuse(r, x)
  BY NewHasNoExcuse DEF ChangeWrite
<1>2. /\ u \in Accounts /\ req[r].password \in Password
      /\ users[u] \in User /\ users[u].era \in Nat
  BY <1>1, RowTypes DEF Inv, Sound
<1>3. row \in User /\ row.email = users[u].email /\ users[u].era <= row.era
  BY <1>2 DEF User
<1>4. users' = [users EXCEPT ![u] = row]
  BY DEF ChangeWrite, Inv, TypeOK
<1>. HIDE DEF row
<1>5. /\ users' \in [UserId -> User \cup {None}] /\ Accounts' = Accounts /\ KeepsUsers
  BY <1>2, <1>3, <1>4, OneUserChanged
<1>6. c \in Call /\ c.pc = "answered" /\ c.op # "register"
  BY OverIsCall, SessionsAssumption DEF Ended, Operation
<1>7. /\ req' \in [Request -> Call] /\ req'[r] = c
      /\ \A q \in Request \ {r} : req'[q] = req[q]
  BY <1>1, <1>6, ServeEffect DEF Inv
<1>8. TypeOK'
  BY <1>1, <1>5, <1>7 DEF Inv, TypeOK
<1>9. Keeps /\ Issued' = Issued /\ Asked' = Asked
  BY <1>1, <1>5, KeptTokens, KeptResets DEF Keeps
<1>10. \A q \in Request : Sound(req[q])'
  <2>1. Sound(req[r])'
    BY <1>7, OverIsSound DEF Ended
  <2>2. QED
    BY <2>1, <1>7, <1>8, <1>9, AllSound
<1>11. UsersInv' /\ TokensInv' /\ ResetsInv'
  BY <1>5, <1>8, <1>9, UsersInvStays, TokensInvStays, ResetsInvStays
<1>12. RegisteredApart'
  BY <1>6, <1>7, StillApart DEF Registered
<1>13. Reasons'
  BY <1>1, <1>7, <1>8, <1>9, ReasonsStay
<1>14. QED
  BY <1>8, <1>10, <1>11, <1>12, <1>13 DEF Inv

LEMMA NothingWritten ==
    ASSUME Inv, now' \in Time, UNCHANGED <<users, tokens, resets, req, contested>>
    PROVE  Inv'
<1>1. TypeOK'
  BY DEF Inv, TypeOK
<1>2. Accounts' = Accounts /\ Issued' = Issued /\ Asked' = Asked
  BY DEF Accounts, Issued, Asked
<1>3. \A q \in Request : Sound(req[q])'
  BY <1>2 DEF Inv, Sound
<1>4. UsersInv' /\ TokensInv' /\ ResetsInv' /\ RegisteredApart'
  BY <1>2 DEF Inv, UsersInv, TokensInv, ResetsInv, RegisteredApart, Registered
<1>5. Reasons'
  BY <1>2 DEF Inv, Reasons, Reason, Excuse
<1>6. QED
  BY <1>1, <1>3, <1>4, <1>5 DEF Inv

LEMMA InitInv == ASSUME Init PROVE Inv
<1>1. req = [r \in Request |-> NewCall] /\ now = 0 /\ contested = {}
  BY DEF Init
<1>2. \A r \in Request : req[r] = NewCall /\ req[r].pc = "new" /\ req[r].op = None
  BY <1>1 DEF NewCall
<1>3. \A r \in Request : Sound(req[r])
  BY <1>2, SessionsAssumption DEF Sound, Operation
<1>4. RegisteredApart
  BY <1>2 DEF RegisteredApart, Registered
<1>5. CASE /\ users = [u \in UserId |-> None]
           /\ tokens = [t \in TokenId |-> None]
           /\ resets = [s \in ResetId |-> None]
  <2>1. Accounts = {} /\ Issued = {} /\ Asked = {}
    BY <1>5 DEF Accounts, Issued, Asked
  <2>2. TypeOK
    BY <1>1, <1>5, NewIsCall DEF TypeOK
  <2>3. QED
    BY <2>1, <2>2, <1>3, <1>4 DEF Inv, UsersInv, TokensInv, ResetsInv, Reasons
<1>6. CASE \E u \in UserId, t \in TokenId, s \in ResetId, a \in Address, w \in Password,
             status \in {"ACTIVE", "BANNED"} :
             /\ users = [x \in UserId |->
                   IF x = u THEN [email |-> LowerCase[a], password |-> w, status |-> status,
                                  era |-> 0] ELSE None]
             /\ tokens = [x \in TokenId |->
                   IF x = t THEN [userId |-> u, expiresAt |-> Lifetime, revoked |-> FALSE,
                                  parent |-> None, era |-> 0] ELSE None]
             /\ resets = [x \in ResetId |->
                   IF x = s THEN [userId |-> u, expiresAt |-> ResetLifetime, used |-> FALSE]
                   ELSE None]
  <2>. PICK u \in UserId, t \in TokenId, s \in ResetId, a \in Address, w \in Password,
             status \in {"ACTIVE", "BANNED"} :
             /\ users = [x \in UserId |->
                   IF x = u THEN [email |-> LowerCase[a], password |-> w, status |-> status,
                                  era |-> 0] ELSE None]
             /\ tokens = [x \in TokenId |->
                   IF x = t THEN [userId |-> u, expiresAt |-> Lifetime, revoked |-> FALSE,
                                  parent |-> None, era |-> 0] ELSE None]
             /\ resets = [x \in ResetId |->
                   IF x = s THEN [userId |-> u, expiresAt |-> ResetLifetime, used |-> FALSE]
                   ELSE None]
    BY <1>6
  <2>. DEFINE user == [email |-> LowerCase[a], password |-> w, status |-> status, era |-> 0]
              token == [userId |-> u, expiresAt |-> Lifetime, revoked |-> FALSE,
                        parent |-> None, era |-> 0]
              reset == [userId |-> u, expiresAt |-> ResetLifetime, used |-> FALSE]
  <2>1. user \in User /\ token \in Token /\ reset \in Reset
    BY SessionsAssumption DEF User, Token, Reset
  <2>2. Accounts = {u} /\ Issued = {t} /\ Asked = {s}
    BY <2>1, NoRowIsNone DEF Accounts, Issued, Asked
  <2>3. users[u] = user /\ tokens[t] = token /\ resets[s] = reset
    OBVIOUS
  <2>4. TypeOK
    <3>. HIDE DEF user, token, reset
    <3>1. users \in [UserId -> User \cup {None}] /\ tokens \in [TokenId -> Token \cup {None}]
          /\ resets \in [ResetId -> Reset \cup {None}]
      BY <2>1 DEF user, token, reset
    <3>2. QED
      BY <3>1, <1>1, NewIsCall DEF TypeOK
  <2>5. UsersInv /\ TokensInv /\ ResetsInv /\ Reasons
    BY <2>2, <2>3, SessionsAssumption DEF UsersInv, TokensInv, ResetsInv, Reasons
  <2>6. QED
    BY <2>4, <2>5, <1>3, <1>4 DEF Inv
<1>7. QED
  BY <1>5, <1>6 DEF Init

LEMMA NextInv == ASSUME Inv, [Next]_vars PROVE Inv'
<1>1. CASE \E r \in Request : Handle(r)
  BY <1>1, RegisterFindStep, RegisterCreateStep, LoginFindStep, RefreshFindStep, RefreshRevokeStep,
     IssueStep, LogoutStep, ForgotFindStep, ForgotInsertStep, ResetFindStep, ResetWriteStep,
     ChangeFindStep, ChangeWriteStep, AbortStep
     DEF Handle, Register, Refresh, Forgot, ResetPassword, Change
<1>2. CASE Tick
  <2>1. now' \in Time
    BY <1>2, SessionsAssumption DEF Tick, Inv, TypeOK, Time
  <2>2. QED
    BY <1>2, <2>1, NothingWritten DEF Tick
<1>3. CASE UNCHANGED vars
  BY <1>3, NothingWritten DEF vars, Inv, TypeOK
<1>4. QED
  BY <1>1, <1>2, <1>3 DEF Next

LEMMA InvHolds == Spec => []Inv
<1>1. Init => Inv
  BY InitInv
<1>2. Inv /\ [Next]_vars => Inv'
  BY NextInv
<1>3. QED
  BY <1>1, <1>2, PTL DEF Spec

\* Tables and calls always have their types.
THEOREM TypeCorrect == Spec => []TypeOK
<1>1. Inv => TypeOK
  BY DEF Inv
<1>2. QED
  BY <1>1, InvHolds, PTL

\* One address has one account, and two answered registrations made two.
THEOREM AccountsApart == Spec => []OneAccountPerAddress
<1>1. Inv => OneAccountPerAddress
  BY DEF Inv, UsersInv, RegisteredApart, Registered, OneAccountPerAddress
<1>2. QED
  BY <1>1, InvHolds, PTL

\* A token is revoked because it was replaced, or its session was ended, or a
\* refresh failed half-way; never because calls crossed.
THEOREM NoSessionLost == Spec => []SessionsEndForAReason
<1>1. Inv => SessionsEndForAReason
  BY DEF Inv, Reasons, Reason, Excuse, SessionsEndForAReason
<1>2. QED
  BY <1>1, InvHolds, PTL

-----------------------------------------------------------------------------
(* Whose session it is.                                                    *)

\* What refreshTokens() read before its awaits is of the user it issues for.
OfItsUser(r) ==
    req[r].op = "refresh" /\ req[r].pc \in {"revoke", "issue"} =>
       req[r].token \in Issued /\ tokens[req[r].token].userId = req[r].user

\* The token that another replaced is revoked, and both are of one user.
OneUserPerSession ==
    \A t \in Issued : tokens[t].parent # None =>
       LET before == tokens[t].parent IN
       before \in Issued /\ tokens[before].revoked /\ tokens[before].userId = tokens[t].userId

UserInv == OneUserPerSession /\ \A r \in Request : OfItsUser(r)

\* No step takes a token away, revives it or gives it to another user.
LEMMA TokensAreKept == ASSUME Inv, [Next]_vars PROVE KeepsTokens
<1>1. \A t \in Issued : t \in TokenId /\ tokens[t] \in Token
  BY RowTypes DEF Inv
<1>2. CASE tokens' = tokens
  BY <1>2, KeptTokens
<1>3. ASSUME NEW r \in Request, RefreshRevoke(r) PROVE KeepsTokens
  <2>1. req[r].token \in Issued
    BY <1>3 DEF RefreshRevoke, Inv, Sound
  <2>2. QED
    BY <1>3, <2>1, OneRevoked DEF RefreshRevoke
<1>4. ASSUME NEW r \in Request, Logout(r) PROVE KeepsTokens
  <2>. PICK t \in TokenId :
         tokens' = IF t \in Issued /\ ~tokens[t].revoked
                   THEN [tokens EXCEPT ![t].revoked = TRUE] ELSE tokens
    BY <1>4 DEF Logout
  <2>1. CASE tokens' = tokens
    BY <2>1, KeptTokens
  <2>2. CASE t \in Issued /\ tokens' = [tokens EXCEPT ![t].revoked = TRUE]
    BY <2>2, OneRevoked
  <2>3. QED
    BY <2>1, <2>2
<1>5. ASSUME NEW r \in Request, ResetWrite(r) PROVE KeepsTokens
  <2>1. tokens' = [t \in TokenId |->
                     IF t \in Issued /\ tokens[t].userId = req[r].user
                     THEN [tokens[t] EXCEPT !.revoked = TRUE] ELSE tokens[t]]
    BY <1>5 DEF ResetWrite, RevokeAllOf
  <2>2. QED
    BY <1>1, <2>1, NoRowIsNone DEF KeepsTokens, Issued, Token
<1>6. ASSUME NEW r \in Request, Issue(r) PROVE KeepsTokens
  BY <1>1, <1>6 DEF Issue, KeepsTokens, Issued, Inv, TypeOK
<1>7. QED
  BY <1>2, <1>3, <1>4, <1>5, <1>6 DEF Next, Handle, Register, Refresh, Forgot, ResetPassword,
     Change, RegisterFind, RegisterCreate, LoginFind, RefreshFind, ForgotFind, ForgotInsert,
     ResetFind, ChangeFind, ChangeWrite, Abort, Tick, vars

\* A token that a step adds is that of a call about to issue one.
LEMMA AddedByIssue ==
    ASSUME Inv, [Next]_vars, NEW t \in Issued', t \notin Issued
    PROVE  \E r \in Request : /\ Issue(r)
                              /\ tokens'[t].parent = req[r].token
                              /\ tokens'[t].userId = req[r].user
                              /\ tokens'[t].era = req[r].era
<1>1. tokens' # tokens
  BY DEF Issued
<1>2. t \in TokenId /\ tokens[t] = None /\ tokens'[t] # None
  BY DEF Issued
<1>3. ~\E r \in Request : RefreshRevoke(r) \/ Logout(r) \/ ResetWrite(r)
  <2>1. ASSUME NEW r \in Request, RefreshRevoke(r) PROVE FALSE
    <3>1. req[r].token \in Issued
      BY <2>1 DEF RefreshRevoke, Inv, Sound
    <3>2. req[r].token # t
      BY <3>1
    <3>3. QED
      BY <1>2, <2>1, <3>2 DEF RefreshRevoke, Inv, TypeOK
  <2>2. ASSUME NEW r \in Request, Logout(r) PROVE FALSE
    <3>1. PICK x \in TokenId :
            tokens' = IF x \in Issued /\ ~tokens[x].revoked
                      THEN [tokens EXCEPT ![x].revoked = TRUE] ELSE tokens
      BY <2>2 DEF Logout
    <3>2. x \in Issued /\ x # t
      BY <1>1, <3>1
    <3>3. QED
      BY <1>2, <3>1, <3>2 DEF Inv, TypeOK
  <2>3. ASSUME NEW r \in Request, ResetWrite(r) PROVE FALSE
    BY <1>2, <2>3 DEF ResetWrite, RevokeAllOf
  <2>4. QED
    BY <2>1, <2>2, <2>3
<1>4. PICK r \in Request : Issue(r)
  BY <1>1, <1>3 DEF Next, Handle, Register, Refresh, Forgot, ResetPassword,
     Change, RegisterFind, RegisterCreate, LoginFind, RefreshFind, ForgotFind, ForgotInsert,
     ResetFind, ChangeFind, ChangeWrite, Abort, Tick, vars
<1>5. PICK x \in TokenId \ Issued, at \in req[r].since .. now :
        tokens' = [tokens EXCEPT ![x] =
           [userId |-> req[r].user, expiresAt |-> at + Lifetime, revoked |-> FALSE,
            parent |-> req[r].token, era |-> req[r].era]]
  BY <1>4 DEF Issue
<1>6. x = t
  BY <1>2, <1>5 DEF Inv, TypeOK
<1>7. /\ tokens'[t].parent = req[r].token /\ tokens'[t].userId = req[r].user
      /\ tokens'[t].era = req[r].era
  BY <1>2, <1>5, <1>6 DEF Inv, TypeOK
<1>8. QED
  BY <1>4, <1>7

\* A call that is about to replace a token got there by its own lookup.
LEMMA RefreshGoesOn ==
    ASSUME Inv, [Next]_vars, NEW r \in Request,
           req'[r].op = "refresh", req'[r].pc \in {"revoke", "issue"}
    PROVE  \/ /\ req[r].op = "refresh" /\ req[r].pc \in {"revoke", "issue"}
              /\ req'[r].token = req[r].token /\ req'[r].user = req[r].user
           \/ /\ req'[r].token \in Issued
              /\ req'[r].user = tokens[req'[r].token].userId
<1>1. CASE req'[r] = req[r]
  BY <1>1
<1>. SUFFICES ASSUME req'[r] # req[r] PROVE
           \/ /\ req[r].op = "refresh" /\ req[r].pc \in {"revoke", "issue"}
              /\ req'[r].token = req[r].token /\ req'[r].user = req[r].user
           \/ /\ req'[r].token \in Issued
              /\ req'[r].user = tokens[req'[r].token].userId
  BY <1>1
<1>2. req \in [Request -> Call]
  BY DEF Inv, TypeOK
<1>3. Handle(r)
  <2>1. PICK q \in Request : Handle(q)
    BY DEF Next, Tick, vars
  <2>2. PICK c : req' = [req EXCEPT ![q] = c]
    BY <2>1 DEF Handle, Register, Refresh, Forgot, ResetPassword, Change, RegisterFind,
       RegisterCreate, LoginFind, RefreshFind, RefreshRevoke, Issue, Logout, ForgotFind,
       ForgotInsert, ResetFind, ResetWrite, ChangeFind, ChangeWrite, Abort, Serve
  <2>3. QED
    BY <1>2, <2>1, <2>2
<1>4. RefreshFind(r) \/ RefreshRevoke(r)
  <2>1. \A c : Serve(r, c) => req'[r] = c
    BY <1>2 DEF Serve
  <2>2. ASSUME RegisterFind(r) \/ RegisterCreate(r) \/ LoginFind(r) PROVE FALSE
    BY <2>1, <2>2 DEF RegisterFind, RegisterCreate, LoginFind, NewCall, Over
  <2>3. ASSUME Issue(r) \/ Logout(r) \/ ForgotFind(r) \/ ForgotInsert(r) PROVE FALSE
    BY <2>1, <2>3 DEF Issue, Logout, ForgotFind, ForgotInsert, NewCall, Over
  <2>4. ASSUME ResetFind(r) \/ ResetWrite(r) \/ ChangeFind(r) \/ ChangeWrite(r) \/ Abort(r) PROVE FALSE
    BY <2>1, <2>4 DEF ResetFind, ResetWrite, ChangeFind, ChangeWrite, Abort, NewCall, Over
  <2>5. QED
    BY <1>3, <2>2, <2>3, <2>4 DEF Handle, Register, Refresh, Forgot, ResetPassword, Change
<1>5. CASE RefreshFind(r)
  <2>1. PICK t \in TokenId :
          Serve(r, IF ~Valid(t) THEN Over("refused")
                   ELSE [NewCall EXCEPT !.pc = "revoke", !.op = "refresh", !.token = t,
                                        !.user = tokens[t].userId,
                                        !.era = users[tokens[t].userId].era])
    BY <1>5 DEF RefreshFind
  <2>2. Over("refused").pc = "refused"
    BY DEF Over, NewCall
  <2>3. Valid(t) /\ req'[r].token = t /\ req'[r].user = tokens[t].userId
    BY <1>2, <2>1, <2>2 DEF Serve, NewCall
  <2>4. QED
    BY <2>3 DEF Valid
<1>6. CASE RefreshRevoke(r)
  <2>1. req'[r] = [req[r] EXCEPT !.pc = "issue", !.since = now] /\ req[r].pc = "revoke"
    BY <1>2, <1>6 DEF RefreshRevoke, Serve
  <2>2. req[r] \in Call
    BY <1>2
  <2>3. QED
    BY <2>1, <2>2 DEF Call, Inv, Sound
<1>7. QED
  BY <1>4, <1>5, <1>6

LEMMA UserInvStays == ASSUME Inv, UserInv, [Next]_vars PROVE UserInv'
<1>1. KeepsTokens
  BY TokensAreKept
<1>2. \A r \in Request : OfItsUser(r)'
  BY <1>1, RefreshGoesOn DEF UserInv, OfItsUser, KeepsTokens
<1>3. ASSUME NEW t \in Issued', tokens'[t].parent # None
      PROVE  LET before == tokens'[t].parent IN
             before \in Issued' /\ tokens'[before].revoked /\ tokens'[before].userId = tokens'[t].userId
  <2>1. CASE t \in Issued
    BY <1>1, <1>3, <2>1 DEF UserInv, OneUserPerSession, KeepsTokens
  <2>2. CASE t \notin Issued
    <3>1. PICK r \in Request : /\ Issue(r)
                               /\ tokens'[t].parent = req[r].token
                               /\ tokens'[t].userId = req[r].user
      BY <2>2, AddedByIssue
    <3>2. /\ req[r].op = "refresh" /\ req[r].token \in Issued
          /\ tokens[req[r].token].revoked
      BY <1>3, <3>1 DEF Issue, Inv, Sound
    <3>3. tokens[req[r].token].userId = req[r].user
      BY <3>1, <3>2 DEF UserInv, OfItsUser, Issue
    <3>4. QED
      BY <1>1, <3>1, <3>2, <3>3 DEF KeepsTokens
  <2>3. QED
    BY <2>1, <2>2
<1>4. QED
  BY <1>2, <1>3 DEF UserInv, OneUserPerSession

\* However refreshes cross, a session stays with its user: every token but the
\* first replaced one that is revoked for good and was of the same user.
THEOREM SessionsKeepTheirUser == Spec => []OneUserPerSession
<1>1. Init => UserInv
  BY SessionsAssumption DEF Init, UserInv, OneUserPerSession, OfItsUser, Issued, NewCall
<1>2. Inv /\ UserInv /\ [Next]_vars => UserInv'
  BY UserInvStays
<1>3. UserInv => OneUserPerSession
  BY DEF UserInv
<1>4. QED
  BY <1>1, <1>2, <1>3, InvHolds, PTL DEF Spec

-----------------------------------------------------------------------------
(* Calls that contend.                                                     *)

\* A call that moved says which step it took.
LEMMA StepTaken ==
    ASSUME Inv, NEW r \in Request, Handle(r)
    PROVE  /\ \A q \in Request \ {r} : req'[q] = req[q]
           /\ req'[r].pc = "revoke" => RefreshFind(r)
           /\ req'[r].pc = "issue" => RegisterCreate(r) \/ LoginFind(r) \/ RefreshRevoke(r)
           /\ req'[r].pc = "reset" => ResetFind(r)
           /\ req'[r].op = "reset" /\ req'[r].pc = "answered" => ResetWrite(r)
           /\ req'[r].op = "logout" => Logout(r)
<1>. req \in [Request -> Call]
  BY DEF Inv, TypeOK
<1>0. PICK c : req' = [req EXCEPT ![r] = c]
  BY DEF Handle, Register, Refresh, Forgot, ResetPassword, Change, RegisterFind,
     RegisterCreate, LoginFind, RefreshFind, RefreshRevoke, Issue, Logout, ForgotFind,
     ForgotInsert, ResetFind, ResetWrite, ChangeFind, ChangeWrite, Abort, Serve
<1>1. req'[r] = c /\ \A q \in Request \ {r} : req'[q] = req[q]
  BY <1>0
<1>2. \A d : Serve(r, d) => req'[r] = d
  BY DEF Serve
<1>3. \A pc : Over(pc).pc = pc /\ Over(pc).op = None
  BY DEF Over, NewCall
<1>4. None \notin Operation
  BY SessionsAssumption
<1>5. CASE RegisterFind(r)
  <2>1. req'[r].pc \in {"refused", "create"} /\ req'[r].op \in {None, "register"}
    BY <1>2, <1>3, <1>5 DEF RegisterFind, NewCall
  <2>2. QED
    BY <1>1, <1>4, <2>1 DEF Operation
<1>6. CASE RegisterCreate(r)
  <2>1. req'[r].op \in {None, "register"} /\ req'[r].pc \in {"refused", "issue"}
    BY <1>2, <1>3, <1>6 DEF RegisterCreate, NewCall
  <2>2. QED
    BY <1>1, <1>4, <1>6, <2>1 DEF Operation
<1>7. CASE LoginFind(r)
  <2>1. req'[r].op \in {None, "login"} /\ req'[r].pc \in {"refused", "issue"}
    BY <1>2, <1>3, <1>7 DEF LoginFind, NewCall
  <2>2. QED
    BY <1>1, <1>4, <1>7, <2>1 DEF Operation
<1>8. CASE RefreshFind(r)
  <2>1. req'[r].op \in {None, "refresh"} /\ req'[r].pc \in {"refused", "revoke"}
    BY <1>2, <1>3, <1>8 DEF RefreshFind, NewCall
  <2>2. QED
    BY <1>1, <1>4, <1>8, <2>1 DEF Operation
<1>9. CASE RefreshRevoke(r)
  <2>1. req[r].op = "refresh" /\ req[r] \in Call
    BY <1>9 DEF RefreshRevoke, Inv, Sound
  <2>2. req'[r].op = "refresh" /\ req'[r].pc = "issue"
    BY <1>2, <1>9, <2>1 DEF RefreshRevoke, Call
  <2>3. QED
    BY <1>1, <1>9, <2>2
<1>10. CASE Issue(r)
  <2>1. req'[r].pc = "answered" /\ req'[r].op \in {None, "register"}
    BY <1>2, <1>10 DEF Issue, Over, NewCall
  <2>2. QED
    BY <1>1, <1>4, <2>1 DEF Operation
<1>11. CASE Logout(r)
  <2>1. PICK t, hit : req'[r] = [Over("answered") EXCEPT !.op = "logout", !.token = t, !.hit = hit]
    BY <1>2, <1>11 DEF Logout
  <2>2. req'[r].pc = "answered" /\ req'[r].op = "logout"
    BY <2>1 DEF Over, NewCall
  <2>3. QED
    BY <1>1, <1>11, <2>2
<1>12. CASE ForgotFind(r)
  <2>1. req'[r].pc \in {"answered", "forgot"} /\ req'[r].op \in {None, "forgot"}
    BY <1>2, <1>3, <1>12 DEF ForgotFind, NewCall
  <2>2. QED
    BY <1>1, <1>4, <2>1 DEF Operation
<1>13. CASE ForgotInsert(r) \/ ChangeWrite(r)
  <2>1. req'[r].pc = "answered" /\ req'[r].op = None
    BY <1>2, <1>3, <1>13 DEF ForgotInsert, ChangeWrite
  <2>2. QED
    BY <1>1, <1>4, <2>1 DEF Operation
<1>14. CASE ResetFind(r)
  <2>1. req'[r].op \in {None, "reset"} /\ req'[r].pc \in {"refused", "reset"}
    BY <1>2, <1>3, <1>14 DEF ResetFind, NewCall
  <2>2. QED
    BY <1>1, <1>4, <1>14, <2>1 DEF Operation
<1>15. CASE ResetWrite(r)
  <2>1. req'[r].pc = "answered" /\ req'[r].op = "reset"
    BY <1>2, <1>15 DEF ResetWrite, Over, NewCall
  <2>2. QED
    BY <1>1, <1>15, <2>1
<1>16. CASE ChangeFind(r)
  <2>1. req'[r].pc \in {"refused", "change"} /\ req'[r].op \in {None, "change"}
    BY <1>2, <1>3, <1>16 DEF ChangeFind, NewCall
  <2>2. QED
    BY <1>1, <1>4, <2>1 DEF Operation
<1>17. CASE Abort(r)
  <2>1. req'[r].pc \in {"broken", "failed"} /\ req'[r].op = None
    BY <1>2, <1>17 DEF Abort, Over, NewCall
  <2>2. QED
    BY <1>1, <1>4, <2>1 DEF Operation
<1>18. QED
  BY <1>5, <1>6, <1>7, <1>8, <1>9, <1>10, <1>11, <1>12, <1>13, <1>14, <1>15, <1>16, <1>17
     DEF Handle, Register, Refresh, Forgot, ResetPassword, Change

\* A call that a step does not handle stays what it is.
LEMMA OthersStay ==
    ASSUME Inv, [Next]_vars, NEW r \in Request
    PROVE  Handle(r) \/ req'[r] = req[r]
<1>1. CASE \E q \in Request : Handle(q)
  BY <1>1, StepTaken
<1>2. CASE Tick \/ UNCHANGED vars
  BY <1>2 DEF Tick, vars
<1>3. QED
  BY <1>1, <1>2 DEF Next

\* Nothing that was contended for is forgotten.
LEMMA ContestedGrows == ASSUME [Next]_vars PROVE contested \subseteq contested'
BY DEF Next, Tick, vars, Handle, Register, Refresh, Forgot, ResetPassword, Change, RegisterFind,
   RegisterCreate, LoginFind, RefreshFind, RefreshRevoke, Issue, Logout, ForgotFind,
   ForgotInsert, ResetFind, ResetWrite, ChangeFind, ChangeWrite, Abort, Contested

-----------------------------------------------------------------------------
(* Refresh tokens.                                                         *)

Childless(t) == \A s \in Issued : tokens[s].parent # t

LoggedOut(t) == \E q \in Request : req[q].op = "logout" /\ req[q].hit /\ req[q].token = t

\* The call found t valid and is about to replace it.
Spending(r, t) == req[r].op = "refresh" /\ req[r].pc \in {"revoke", "issue"} /\ req[r].token = t

\* A token nobody contended for is spent by one call, or by its logout, once.
SpentWell(t) ==
    /\ \A r, q \in Request : Spending(r, t) /\ Spending(q, t) => r = q
    /\ (\E r \in Request : Spending(r, t)) => Childless(t) /\ ~LoggedOut(t)
    /\ LoggedOut(t) => Childless(t)
    /\ \A x, y \in Issued : tokens[x].parent = t /\ tokens[y].parent = t => x = y

SpendInv == \A t \in Issued \ contested : SpentWell(t)

\* No step but a lookup of refreshTokens(), a logout and an insert has anything
\* to do with it.
LEMMA SpendQuiet ==
    ASSUME SpendInv, contested \subseteq contested', KeepsTokens, Issued' = Issued,
           \A r \in Request, t \in Issued : Spending(r, t)' => Spending(r, t),
           \A t \in Issued : LoggedOut(t)' => LoggedOut(t)
    PROVE  SpendInv'
<1>. SUFFICES ASSUME NEW t \in Issued \ contested PROVE SpentWell(t)'
  BY DEF SpendInv
<1>1. SpentWell(t)
  BY DEF SpendInv
<1>2. \A x \in Issued : tokens'[x].parent = tokens[x].parent
  BY DEF KeepsTokens
<1>3. Childless(t) => Childless(t)'
  BY <1>2 DEF Childless
<1>4. QED
  BY <1>1, <1>2, <1>3 DEF SpentWell

\* While a token is alive nobody logged out with it and it has no successor.
LEMMA AliveIsUnspent ==
    ASSUME Inv, NEW t \in Issued, ~tokens[t].revoked
    PROVE  /\ Childless(t) /\ ~LoggedOut(t)
           /\ \A q \in Request : Spending(q, t) => req[q].pc = "revoke"
<1>1. t # None
  BY SessionsAssumption DEF Issued
<1>2. Childless(t)
  BY <1>1 DEF Childless, Inv, TokensInv
<1>3. ~LoggedOut(t) /\ \A q \in Request : Spending(q, t) => req[q].pc = "revoke"
  BY DEF LoggedOut, Spending, Inv, Sound
<1>4. QED
  BY <1>2, <1>3

LEMMA SpendRefreshFind ==
    ASSUME Inv, SpendInv, NEW r \in Request, RefreshFind(r), contested \subseteq contested'
    PROVE  SpendInv'
<1>. PICK t \in TokenId :
       /\ Contested(IF Valid(t) /\ Refreshing(t) THEN {t} ELSE {})
       /\ Serve(r, IF ~Valid(t) THEN Over("refused")
                   ELSE [NewCall EXCEPT !.pc = "revoke", !.op = "refresh", !.token = t,
                                        !.user = tokens[t].userId,
                                        !.era = users[tokens[t].userId].era])
  BY DEF RefreshFind
<1>1. /\ tokens' = tokens /\ Issued' = Issued /\ KeepsTokens
      /\ \A q \in Request \ {r} : req'[q] = req[q]
  BY KeptTokens, StepTaken DEF RefreshFind, Handle, Refresh
<1>2. req'[r] = IF ~Valid(t) THEN Over("refused")
                ELSE [NewCall EXCEPT !.pc = "revoke", !.op = "refresh", !.token = t,
                                     !.user = tokens[t].userId,
                                     !.era = users[tokens[t].userId].era]
  BY DEF Serve, Inv, TypeOK
<1>3. req'[r].op \in {None, "refresh"} /\ (req'[r].pc = "refused" \/ (Valid(t) /\ req'[r].token = t))
  BY <1>2 DEF Over, NewCall
<1>4. \A x \in Issued : LoggedOut(x)' => LoggedOut(x)
  BY <1>1, <1>3, SessionsAssumption DEF LoggedOut, Operation
<1>5. \A q \in Request, x \in Issued : Spending(q, x)' => Spending(q, x) \/ (q = r /\ x = t /\ Valid(t))
  BY <1>1, <1>3 DEF Spending
<1>6. CASE ~Valid(t) \/ (Refreshing(t) /\ t \in contested')
  <2>. SUFFICES ASSUME NEW x \in Issued \ contested' PROVE SpentWell(x)'
    BY <1>1 DEF SpendInv
  <2>1. SpentWell(x)
    BY DEF SpendInv
  <2>2. \A q \in Request : Spending(q, x)' => Spending(q, x)
    BY <1>5, <1>6
  <2>3. Childless(x)' <=> Childless(x)
    BY <1>1 DEF Childless
  <2>4. QED
    BY <1>1, <1>4, <2>1, <2>2, <2>3 DEF SpentWell
<1>7. CASE Valid(t) /\ ~Refreshing(t)
  <2>. SUFFICES ASSUME NEW x \in Issued \ contested PROVE SpentWell(x)'
    BY <1>1 DEF SpendInv
  <2>1. SpentWell(x)
    BY DEF SpendInv
  <2>2. Childless(x)' <=> Childless(x)
    BY <1>1 DEF Childless
  <2>3. CASE x # t
    BY <1>1, <1>4, <1>5, <2>1, <2>2, <2>3 DEF SpentWell
  <2>4. CASE x = t
    <3>1. Childless(t) /\ ~LoggedOut(t) /\ \A q \in Request : ~Spending(q, t)
      BY <1>7, AliveIsUnspent DEF Valid, Refreshing, Spending
    <3>2. \A q \in Request : Spending(q, x)' => q = r
      BY <1>5, <2>4, <3>1
    <3>3. QED
      BY <1>1, <1>4, <2>1, <2>2, <2>4, <3>1, <3>2 DEF SpentWell
  <2>5. QED
    BY <2>3, <2>4
<1>8. QED
  BY <1>6, <1>7 DEF Contested

LEMMA SpendLogout ==
    ASSUME Inv, SpendInv, NEW r \in Request, Logout(r), contested \subseteq contested', KeepsTokens
    PROVE  SpendInv'
<1>. PICK t \in TokenId :
       LET hit == t \in Issued /\ ~tokens[t].revoked IN
       /\ tokens' = IF hit THEN [tokens EXCEPT ![t].revoked = TRUE] ELSE tokens
       /\ Contested(IF hit /\ Refreshing(t) THEN {t} ELSE {})
       /\ Serve(r, [Over("answered") EXCEPT !.op = "logout", !.token = t, !.hit = hit])
  BY DEF Logout
<1>. DEFINE hit == t \in Issued /\ ~tokens[t].revoked
<1>1. \A q \in Request \ {r} : req'[q] = req[q]
  BY StepTaken DEF Handle
<1>2. Issued' = Issued
  <2>1. CASE hit
    BY <2>1, OneRevoked
  <2>2. CASE ~hit
    BY <2>2 DEF Issued
  <2>3. QED
    BY <2>1, <2>2
<1>3. req'[r] = [Over("answered") EXCEPT !.op = "logout", !.token = t, !.hit = hit]
  BY DEF Serve, Inv, TypeOK
<1>4. req'[r].op = "logout" /\ req'[r].token = t /\ req'[r].hit = hit
  BY <1>3 DEF Over, NewCall
<1>5. \A q \in Request, x \in Issued : Spending(q, x)' => Spending(q, x)
  BY <1>1, <1>4 DEF Spending
<1>6. \A x \in Issued : LoggedOut(x)' => LoggedOut(x) \/ (x = t /\ hit)
  BY <1>1, <1>4 DEF LoggedOut
<1>7. CASE ~hit
  BY <1>2, <1>5, <1>6, <1>7, SpendQuiet
<1>8. CASE hit
  <2>. SUFFICES ASSUME NEW x \in Issued \ contested' PROVE SpentWell(x)'
    BY <1>2 DEF SpendInv
  <2>1. SpentWell(x)
    BY DEF SpendInv
  <2>2. \A y \in Issued : tokens'[y].parent = tokens[y].parent
    BY DEF KeepsTokens
  <2>3. Childless(x) => Childless(x)'
    BY <1>2, <2>2 DEF Childless
  <2>4. CASE x # t
    BY <1>2, <1>5, <1>6, <2>1, <2>2, <2>3, <2>4 DEF SpentWell
  <2>5. CASE x = t
    <3>1. Childless(t) /\ \A q \in Request : Spending(q, t) => Refreshing(t)
      BY <1>8, AliveIsUnspent DEF Refreshing, Spending
    <3>2. ~Refreshing(t)
      BY <1>8, <2>5 DEF Contested
    <3>3. QED
      BY <1>2, <1>5, <2>1, <2>2, <2>3, <2>5, <3>1, <3>2 DEF SpentWell
  <2>6. QED
    BY <2>4, <2>5
<1>9. QED
  BY <1>7, <1>8

LEMMA SpendIssue ==
    ASSUME Inv, Inv', SpendInv, NEW r \in Request, Issue(r), contested \subseteq contested', KeepsTokens
    PROVE  SpendInv'
<1>. PICK old : old = req[r].token
  OBVIOUS
<1>1. PICK n \in TokenId \ Issued : /\ \A x \in Issued : x # n /\ tokens'[x] = tokens[x]
                                    /\ tokens'[n].parent = old
                                    /\ Issued' = Issued \cup {n}
  <2>1. PICK n \in TokenId \ Issued, at \in req[r].since .. now :
          tokens' = [tokens EXCEPT ![n] =
             [userId |-> req[r].user, expiresAt |-> at + Lifetime, revoked |-> FALSE,
              parent |-> old, era |-> req[r].era]]
    BY DEF Issue
  <2>2. /\ \A x \in TokenId \ {n} : tokens'[x] = tokens[x]
        /\ tokens'[n].parent = old /\ ~tokens'[n].revoked /\ n \in TokenId
    BY <2>1 DEF Inv, TypeOK
  <2>3. tokens'[n] # None
    <3>. DEFINE row == [userId |-> req[r].user, expiresAt |-> at + Lifetime, revoked |-> FALSE,
                        parent |-> old, era |-> req[r].era]
    <3>1. req[r].user \in UserId /\ req[r].era \in Nat /\ old \in TokenId \cup {None}
      BY RowTypes DEF Issue, Inv, Sound, TypeOK, Call
    <3>2. at + Lifetime \in Nat
      BY SessionsAssumption DEF Inv, TypeOK, Call, Time
    <3>3. row \in Token
      BY <3>1, <3>2 DEF Token
    <3>4. tokens'[n] = row
      BY <2>1 DEF Inv, TypeOK
    <3>. HIDE DEF row
    <3>5. QED
      BY <3>3, <3>4, NoRowIsNone
  <2>4. Issued' = Issued \cup {n}
    BY <2>2, <2>3 DEF Issued
  <2>5. QED
    BY <2>2, <2>4 DEF Issued
<1>2. \A q \in Request \ {r} : req'[q] = req[q]
  BY StepTaken DEF Handle
<1>3. req'[r].pc = "answered" /\ req'[r].op # "logout"
  BY SessionsAssumption DEF Issue, Serve, Over, NewCall, Inv, TypeOK, Operation
<1>4. \A q \in Request : \A x : Spending(q, x)' => Spending(q, x) /\ q # r
  BY <1>2, <1>3 DEF Spending
<1>5. \A x : LoggedOut(x)' => LoggedOut(x)
  BY <1>2, <1>3 DEF LoggedOut
<1>6. old # None => old \in Issued /\ Spending(r, old)
  BY DEF Issue, Inv, Sound, Spending
<1>. SUFFICES ASSUME NEW x \in Issued' \ contested' PROVE SpentWell(x)'
  BY DEF SpendInv
<1>7. x # None
  BY <1>1, SessionsAssumption DEF Issued
<1>8. CASE x = n
  <2>1. Childless(n)
    BY <1>1, <1>7, <1>8 DEF Childless, Inv, TokensInv
  <2>2. old # n
    BY <1>1, <1>6, <1>7, <1>8
  <2>3. Childless(n)'
    BY <1>1, <2>1, <2>2 DEF Childless
  <2>4. \A q \in Request : ~Spending(q, n)
    BY <1>1 DEF Spending, Inv, Sound
  <2>5. \A y \in Issued' : tokens'[y].parent # n
    BY <2>3 DEF Childless
  <2>6. \A q \in Request : ~Spending(q, n)'
    BY <1>4, <2>4
  <2>7. QED
    BY <1>8, <2>3, <2>5, <2>6 DEF SpentWell
<1>9. CASE x \in Issued /\ x # old
  <2>1. SpentWell(x)
    BY <1>9 DEF SpendInv
  <2>2. Childless(x) => Childless(x)'
    BY <1>1, <1>9 DEF Childless
  <2>3. \A y \in Issued' : tokens'[y].parent = x => y \in Issued /\ tokens[y].parent = x
    BY <1>1, <1>9
  <2>4. QED
    BY <1>4, <1>5, <2>1, <2>2, <2>3 DEF SpentWell
<1>10. CASE x = old
  <2>1. SpentWell(old) /\ Spending(r, old)
    BY <1>1, <1>6, <1>7, <1>10, SessionsAssumption DEF SpendInv
  <2>2. \A q \in Request : ~Spending(q, old)'
    BY <1>4, <2>1 DEF SpentWell
  <2>3. Childless(old) /\ ~LoggedOut(old)'
    BY <1>5, <2>1 DEF SpentWell
  <2>4. \A y \in Issued' : tokens'[y].parent = old => y = n
    BY <1>1, <2>3 DEF Childless
  <2>5. QED
    BY <1>10, <2>2, <2>3, <2>4 DEF SpentWell
<1>11. QED
  BY <1>1, <1>8, <1>9, <1>10

LEMMA SpendStep == ASSUME Inv, Inv', SpendInv, [Next]_vars PROVE SpendInv'
<1>1. contested \subseteq contested' /\ KeepsTokens
  BY ContestedGrows, TokensAreKept
<1>2. CASE \E r \in Request : RefreshFind(r) \/ Logout(r) \/ Issue(r)
  BY <1>1, <1>2, SpendRefreshFind, SpendLogout, SpendIssue
<1>3. CASE ~\E r \in Request : RefreshFind(r) \/ Logout(r) \/ Issue(r)
  <2>1. Issued' = Issued
    <3>1. Issued \subseteq Issued'
      BY <1>1 DEF KeepsTokens
    <3>2. ASSUME NEW t \in Issued', t \notin Issued PROVE FALSE
      BY <1>3, <3>2, AddedByIssue
    <3>3. QED
      BY <3>1, <3>2
  <2>2. \A r \in Request, t \in Issued : Spending(r, t)' => Spending(r, t)
    <3>. SUFFICES ASSUME NEW r \in Request, NEW t \in Issued, Spending(r, t)' PROVE Spending(r, t)
      OBVIOUS
    <3>1. CASE req'[r] = req[r]
      BY <3>1 DEF Spending
    <3>2. CASE Handle(r)
      <4>1. RegisterCreate(r) \/ LoginFind(r) \/ RefreshRevoke(r)
        BY <1>3, <3>2, StepTaken DEF Spending
      <4>2. \A c : Serve(r, c) => req'[r] = c
        BY DEF Serve, Inv, TypeOK
      <4>3. CASE RefreshRevoke(r)
        <5>1. req[r] \in Call /\ req[r].op = "refresh"
          BY <4>3 DEF RefreshRevoke, Inv, TypeOK, Sound
        <5>2. QED
          BY <4>2, <4>3, <5>1 DEF RefreshRevoke, Spending, Call
      <4>4. CASE RegisterCreate(r) \/ LoginFind(r)
        BY <4>2, <4>4, SessionsAssumption DEF RegisterCreate, LoginFind, Spending, NewCall, Over, Operation
      <4>5. QED
        BY <4>1, <4>3, <4>4
    <3>3. QED
      BY <3>1, <3>2, OthersStay
  <2>3. \A t \in Issued : LoggedOut(t)' => LoggedOut(t)
    <3>1. \A q \in Request : req'[q].op = "logout" => req'[q] = req[q]
      BY <1>3, StepTaken, OthersStay
    <3>2. QED
      BY <3>1 DEF LoggedOut
  <2>4. QED
    BY <1>1, <2>1, <2>2, <2>3, SpendQuiet
<1>4. QED
  BY <1>2, <1>3

-----------------------------------------------------------------------------
(* Sessions and the resets that end them.                                  *)

InEra(u, e) == e = users[u].era \/ <<u, e>> \in contested

\* Whoever is about to issue a token, and every token that is alive, is of the
\* era of its user, or of one whose end it was known to cross.
EraInv ==
    /\ \A r \in Request : req[r].pc \in {"revoke", "issue"} => InEra(req[r].user, req[r].era)
    /\ \A t \in Issued : tokens[t].revoked \/ InEra(tokens[t].userId, tokens[t].era)

\* Only a reset begins another era.
LEMMA ErasStay ==
    ASSUME Inv, [Next]_vars, ~\E r \in Request : ResetWrite(r), NEW u \in Accounts
    PROVE  users'[u].era = users[u].era
<1>1. u \in UserId /\ users[u] \in User /\ users \in [UserId -> User \cup {None}]
  BY RowTypes DEF Inv, TypeOK
<1>2. CASE \E r \in Request : RegisterCreate(r)
  BY <1>1, <1>2 DEF RegisterCreate, Accounts
<1>3. CASE \E r \in Request : ChangeWrite(r)
  BY <1>1, <1>3 DEF ChangeWrite, User
<1>4. CASE users' = users
  BY <1>4
<1>5. QED
  BY <1>2, <1>3, <1>4 DEF Next, Handle, Register, Refresh, Forgot, ResetPassword, Change, RegisterFind,
     LoginFind, RefreshFind, RefreshRevoke, Issue, Logout, ForgotFind, ForgotInsert, ResetFind,
     ChangeFind, Abort, Tick, vars

\* A call takes up an era when it finds its user in it.
LEMMA TakesUpItsEra ==
    ASSUME Inv, EraInv, [Next]_vars, NEW r \in Request, Handle(r), req'[r].pc \in {"revoke", "issue"},
           ~ResetWrite(r)
    PROVE  InEra(req[r].user, req[r].era)'
<1>1. \A c : Serve(r, c) => req'[r] = c
  BY DEF Serve, Inv, TypeOK
<1>2. \A pc : Over(pc).pc = pc
  BY DEF Over, NewCall
<1>3. CASE RegisterCreate(r)
  <2>1. PICK u \in UserId \ Accounts :
          /\ users' = [users EXCEPT ![u] =
                [email |-> LowerCase[req[r].address], password |-> req[r].password,
                 status |-> "ACTIVE", era |-> 0]]
          /\ req'[r] = [NewCall EXCEPT !.pc = "issue", !.op = "register", !.user = u, !.since = now]
    BY <1>1, <1>2, <1>3 DEF RegisterCreate
  <2>2. users'[u].era = 0 /\ req'[r].user = u /\ req'[r].era = 0
    BY <2>1 DEF NewCall, Inv, TypeOK
  <2>3. QED
    BY <2>2 DEF InEra
<1>4. CASE LoginFind(r)
  <2>1. PICK u :
          req'[r] = [NewCall EXCEPT !.pc = "issue", !.op = "login", !.user = u,
                                    !.era = users[u].era, !.since = now]
    <3>1. ~Serve(r, Over("refused"))
      BY <1>1, <1>2
    <3>2. QED
      BY <1>1, <1>4, <3>1 DEF LoginFind
  <2>2. users' = users /\ req'[r].era = users[req'[r].user].era
    BY <1>4, <2>1 DEF LoginFind, NewCall
  <2>3. QED
    BY <2>2 DEF InEra
<1>5. CASE RefreshFind(r)
  <2>1. PICK t \in TokenId :
          req'[r] = [NewCall EXCEPT !.pc = "revoke", !.op = "refresh", !.token = t,
                                    !.user = tokens[t].userId, !.era = users[tokens[t].userId].era]
    BY <1>1, <1>2, <1>5 DEF RefreshFind
  <2>2. users' = users /\ req'[r].era = users[req'[r].user].era
    BY <1>5, <2>1 DEF RefreshFind, NewCall
  <2>3. QED
    BY <2>2 DEF InEra
<1>6. CASE RefreshRevoke(r)
  <2>1. req'[r].user = req[r].user /\ req'[r].era = req[r].era
    BY <1>1, <1>6 DEF RefreshRevoke, Call, Inv, TypeOK
  <2>2. InEra(req[r].user, req[r].era) /\ users' = users /\ contested' = contested
    BY <1>6 DEF EraInv, RefreshRevoke
  <2>3. QED
    BY <2>1, <2>2 DEF InEra
<1>7. QED
  BY <1>3, <1>4, <1>5, <1>6, StepTaken

LEMMA EraStep == ASSUME Inv, Inv', EraInv, [Next]_vars PROVE EraInv'
<1>1. contested \subseteq contested' /\ KeepsTokens
  BY ContestedGrows, TokensAreKept
<1>2. CASE ~\E r \in Request : ResetWrite(r)
  <2>1. \A u \in Accounts : \A e : InEra(u, e) => InEra(u, e)'
    BY <1>1, <1>2, ErasStay DEF InEra
  <2>2. ASSUME NEW r \in Request, req'[r].pc \in {"revoke", "issue"}
        PROVE  InEra(req[r].user, req[r].era)'
    <3>1. CASE req'[r] = req[r]
      <4>1. req[r].user \in Accounts /\ InEra(req[r].user, req[r].era)
        BY <2>2, <3>1 DEF EraInv, Inv, Sound
      <4>2. QED
        BY <2>1, <3>1, <4>1 DEF InEra
    <3>2. QED
      BY <1>2, <2>2, <3>1, TakesUpItsEra, OthersStay
  <2>3. ASSUME NEW t \in Issued', ~tokens'[t].revoked
        PROVE  InEra(tokens[t].userId, tokens[t].era)'
    <3>1. CASE t \in Issued
      <4>1. tokens[t].userId \in Accounts /\ InEra(tokens[t].userId, tokens[t].era)
        BY <1>1, <2>3, <3>1 DEF EraInv, Inv, TokensInv, KeepsTokens
      <4>2. QED
        BY <1>1, <2>1, <3>1, <4>1 DEF InEra, KeepsTokens
    <3>2. CASE t \notin Issued
      <4>1. PICK r \in Request : /\ Issue(r)
                                 /\ tokens'[t].userId = req[r].user /\ tokens'[t].era = req[r].era
        BY <3>2, AddedByIssue
      <4>2. req[r].user \in Accounts /\ InEra(req[r].user, req[r].era)
        BY <4>1 DEF Issue, EraInv, Inv, Sound
      <4>3. QED
        BY <2>1, <4>1, <4>2 DEF InEra
    <3>3. QED
      BY <3>1, <3>2
  <2>4. QED
    BY <2>2, <2>3 DEF EraInv
<1>3. ASSUME NEW r \in Request, ResetWrite(r) PROVE EraInv'
  <2>. PICK u : u = req[r].user
    OBVIOUS
  <2>1. /\ \A w \in Accounts \ {u} : users'[w] = users[w]
        /\ Issued' = Issued
        /\ \A t \in Issued : IF tokens[t].userId = u THEN tokens'[t].revoked
                             ELSE tokens'[t] = tokens[t]
    BY <1>3, ResetEffect
  <2>2. contested' = contested \cup SessionsToCome(u)
    BY <1>3 DEF ResetWrite, Contested
  <2>3. \A w \in Accounts \ {u} : \A e : InEra(w, e) => InEra(w, e)'
    BY <1>1, <2>1 DEF InEra
  <2>4. req'[r].pc = "answered"
    BY <1>3 DEF ResetWrite, Serve, Over, NewCall, Inv, TypeOK
  <2>5. ASSUME NEW q \in Request, req'[q].pc \in {"revoke", "issue"}
        PROVE  InEra(req[q].user, req[q].era)'
    <3>1. req'[q] = req[q]
      BY <1>3, <2>4, <2>5, StepTaken DEF Handle, ResetPassword
    <3>2. CASE req[q].user = u
      <4>1. <<u, req[q].era>> \in SessionsToCome(u)
        BY <2>5, <3>1, <3>2 DEF SessionsToCome
      <4>2. QED
        BY <2>2, <3>1, <3>2, <4>1 DEF InEra
    <3>3. CASE req[q].user # u
      <4>1. req[q].user \in Accounts /\ InEra(req[q].user, req[q].era)
        BY <2>5, <3>1 DEF EraInv, Inv, Sound
      <4>2. QED
        BY <2>3, <3>1, <3>3, <4>1 DEF InEra
    <3>4. QED
      BY <3>2, <3>3
  <2>6. ASSUME NEW t \in Issued', ~tokens'[t].revoked
        PROVE  InEra(tokens[t].userId, tokens[t].era)'
    <3>1. t \in Issued /\ tokens[t].userId # u /\ tokens'[t] = tokens[t]
      BY <2>1, <2>6
    <3>2. tokens[t].userId \in Accounts /\ InEra(tokens[t].userId, tokens[t].era)
      BY <2>6, <3>1 DEF EraInv, Inv, TokensInv
    <3>3. QED
      BY <2>3, <3>1, <3>2 DEF InEra
  <2>7. QED
    BY <2>5, <2>6 DEF EraInv
<1>4. QED
  BY <1>2, <1>3

-----------------------------------------------------------------------------
(* Reset tokens.                                                           *)

\* The call found s usable, and has used it or is about to.
Uses(r, s) ==
    /\ req[r].reset = s
    /\ req[r].pc = "reset" \/ (req[r].op = "reset" /\ req[r].pc = "answered")

\* A reset token nobody contended for is used by one call.
ResetOnceInv ==
    \A s \in Asked \ contested : \A r, q \in Request : Uses(r, s) /\ Uses(q, s) => r = q

LEMMA ResetOnceStep == ASSUME Inv, ResetOnceInv, [Next]_vars PROVE ResetOnceInv'
<1>1. contested \subseteq contested'
  BY ContestedGrows
<1>. SUFFICES ASSUME NEW s \in Asked' \ contested', NEW r \in Request, NEW q \in Request,
                     Uses(r, s)', Uses(q, s)', r # q
              PROVE  FALSE
  BY DEF ResetOnceInv
<1>2. ASSUME NEW p \in Request, Uses(p, s), ~ResetFind(p) PROVE s \in Asked
  BY <1>2 DEF Uses, Inv, Sound
<1>3. ASSUME NEW p \in Request, Uses(p, s)', ~Uses(p, s) PROVE ResetFind(p)
  <2>1. Handle(p)
    BY <1>3, OthersStay DEF Uses
  <2>2. CASE ResetWrite(p)
    <3>1. req'[p].reset = req[p].reset /\ req[p].pc = "reset"
      BY <2>2 DEF ResetWrite, Serve, Over, NewCall, Inv, TypeOK
    <3>2. QED
      BY <1>3, <3>1 DEF Uses
  <2>3. QED
    BY <1>3, <2>1, <2>2, StepTaken DEF Uses
<1>4. ASSUME NEW p \in Request, NEW o \in Request, p # o, Uses(p, s)', Uses(o, s)', ResetFind(p)
      PROVE  FALSE
  <2>1. PICK x \in ResetId, w \in Password :
          /\ Contested(IF Usable(x) /\ Resetting(x) THEN {x} ELSE {})
          /\ Serve(p, IF ~Usable(x) THEN Over("refused")
                      ELSE [NewCall EXCEPT !.pc = "reset", !.op = "reset", !.reset = x,
                                           !.password = w, !.user = resets[x].userId])
    BY <1>4 DEF ResetFind
  <2>2. req'[p] = IF ~Usable(x) THEN Over("refused")
                  ELSE [NewCall EXCEPT !.pc = "reset", !.op = "reset", !.reset = x,
                                       !.password = w, !.user = resets[x].userId]
    BY <2>1 DEF Serve, Inv, TypeOK
  <2>3. Usable(x) /\ x = s
    BY <1>4, <2>2 DEF Uses, Over, NewCall
  <2>4. ~Resetting(s)
    BY <2>1, <2>3 DEF Contested
  <2>5. req'[o] = req[o]
    BY <1>4, StepTaken DEF Handle, ResetPassword
  <2>6. Uses(o, s) /\ ~resets[s].used
    BY <1>4, <2>3, <2>5 DEF Uses, Usable
  <2>7. QED
    BY <2>4, <2>6 DEF Uses, Resetting, Inv, Sound
<1>5. Uses(r, s) /\ Uses(q, s)
  BY <1>3, <1>4
<1>6. s \in Asked \ contested
  BY <1>1, <1>5 DEF Uses, Inv, Sound
<1>7. QED
  BY <1>5, <1>6 DEF ResetOnceInv

-----------------------------------------------------------------------------
(* What is spent stays spent.                                              *)

LEMMA ContentionHolds == Spec => [](SpendInv /\ EraInv /\ ResetOnceInv)
<1>1. ASSUME Init PROVE SpendInv /\ EraInv /\ ResetOnceInv
  <2>1. \A r \in Request : req[r].pc = "new" /\ req[r].op = None
    BY <1>1 DEF Init, NewCall
  <2>2. None \notin Operation
    BY SessionsAssumption
  <2>3. ResetOnceInv
    BY <2>1 DEF ResetOnceInv, Uses
  <2>4. \A t \in Issued : tokens[t].parent = None /\ tokens[t].era = users[tokens[t].userId].era
    BY <1>1 DEF Init, Issued
  <2>5. EraInv
    BY <2>1, <2>4 DEF EraInv, InEra
  <2>6. \A t \in Issued : t # None
    BY SessionsAssumption DEF Issued
  <2>7. SpendInv
    BY <2>1, <2>2, <2>4, <2>6 DEF SpendInv, SpentWell, Spending, LoggedOut, Childless, Operation
  <2>8. QED
    BY <2>3, <2>5, <2>7
<1>2. Inv /\ Inv' /\ (SpendInv /\ EraInv /\ ResetOnceInv) /\ [Next]_vars
      => (SpendInv /\ EraInv /\ ResetOnceInv)'
  BY SpendStep, EraStep, ResetOnceStep
<1>3. QED
  BY <1>1, <1>2, InvHolds, PTL DEF Spec

\* A refresh token has one successor and a reset token sets one password, but
\* for those that two calls had both found good before either wrote; and a token
\* that was replaced is dead whatever crossed.
THEOREM TokensSpentOnce == Spec => []SpentOnce
<1>1. ASSUME Inv, SpendInv, ResetOnceInv PROVE SpentOnce
  <2>1. \A s \in Issued : tokens[s].parent # None =>
          tokens[s].parent \in Issued /\ tokens[tokens[s].parent].revoked
    BY <1>1 DEF Inv, TokensInv
  <2>2. ASSUME NEW s \in Issued, NEW t \in Issued, tokens[s].parent = tokens[t].parent,
               tokens[s].parent # None, tokens[s].parent \notin contested
        PROVE  s = t
    BY <1>1, <2>1, <2>2 DEF SpendInv, SpentWell
  <2>3. ASSUME NEW r \in Request, NEW q \in Request,
               req[r].op = "reset", req[r].pc = "answered", req[q].op = "reset",
               req[q].pc = "answered", req[r].reset = req[q].reset, req[r].reset \notin contested
        PROVE  r = q
    BY <1>1, <2>3 DEF ResetOnceInv, Uses, Inv, Sound
  <2>4. QED
    BY <2>1, <2>2, <2>3 DEF SpentOnce
<1>2. QED
  BY <1>1, InvHolds, ContentionHolds, PTL

\* After a reset no token of an earlier era is alive, and a logout leaves its
\* token no successor, but for calls that had their lookup behind them by then.
THEOREM SessionsStayEnded == Spec => []EndedStaysEnded
<1>1. ASSUME Inv, SpendInv, EraInv PROVE EndedStaysEnded
  <2>1. ASSUME NEW r \in Request, req[r].op = "logout", req[r].hit, req[r].token \notin contested,
               NEW s \in Issued
        PROVE  tokens[s].parent # req[r].token
    <3>1. req[r].token \in Issued
      BY <1>1, <2>1 DEF Inv, Sound
    <3>2. SpentWell(req[r].token) /\ LoggedOut(req[r].token)
      BY <1>1, <2>1, <3>1 DEF SpendInv, LoggedOut
    <3>3. QED
      BY <3>2 DEF SpentWell, Childless
  <2>2. QED
    BY <1>1, <2>1 DEF EndedStaysEnded, EraInv, InEra
<1>2. QED
  BY <1>1, InvHolds, ContentionHolds, PTL
=============================================================================
