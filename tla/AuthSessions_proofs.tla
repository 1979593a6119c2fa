-------------------------- MODULE AuthSessions_proofs --------------------------
(***************************************************************************)
(* Theorems about AuthSessions, for any number of users and calls: what    *)
(* its rows, tokens and handlers are, its safety properties, and that it   *)
(* implements SessionAuthority.                                            *)
(***************************************************************************)
EXTENDS AuthSessions, TLAPS

\* What the foreign keys say, and what the handlers know of it: users are never
\* deleted, so whoever a row, a token or a handler names has an account.
UsersExist ==
  /\ \A s \in Calls : session[s] # None => account[session[s].user] # None
  /\ \A j \in jwts : account[j.user] # None
  /\ \A e \in Calls : bearer[e] # None => account[bearer[e].user] # None
  /\ \A e \in Calls : seen[e] # None => account[seen[e].user] # None

Inv == TypeOK /\ UsersExist

\* The fields a request has.
LEMMA RequestFields ==
  ASSUME NEW q \in Request
  PROVE  /\ q.op \in {"register", "login"} => q.user \in Users /\ q.password \in Passwords
         /\ q.op = "passkey" => q.user \in Users
         /\ q.op = "enable" => q.secret \in Codes
         /\ q.op = "password" => q.new \in Passwords
BY AuthAssumption DEF Request

\* A look at an account that exists is a view.
LEMMA LookType ==
  ASSUME TypeOK, NEW u \in Users, account[u] # None, NEW v \in BOOLEAN, NEW n \in BOOLEAN
  PROVE  Look(u, v, n) \in View /\ Look(u, v, n).user = u
BY DEF TypeOK, Look, View, Account

\* Requests name sessions that were opened and tokens that were signed.
LEMMA ReceiveInv ==
  ASSUME Inv, NEW e \in Calls, Receive(e)
  PROVE  Inv'
<1>0. TypeOK /\ UsersExist
  BY DEF Inv
<1>1. PICK q \in Menu :
        /\ call' = [call EXCEPT ![e] = q]
        /\ IF q.op \in WithSession
           THEN \E s \in Opened : target' = [target EXCEPT ![e] = s]
           ELSE UNCHANGED target
        /\ IF q.op \in WithToken
           THEN \E j \in jwts : bearer' = [bearer EXCEPT ![e] = j]
           ELSE UNCHANGED bearer
  BY DEF Receive
<1>2. /\ q \in Request
      /\ at' = [at EXCEPT ![e] = "start"]
      /\ UNCHANGED <<registrationAllowed, account, session, jwts, seen>>
  BY AuthAssumption DEF Receive, GoTo, tables
<1>3. /\ target' \in [Calls -> Calls \cup {None}]
      /\ q.op \in WithSession => target'[e] \in Calls
      /\ \A f \in Calls : f # e => target'[f] = target[f]
  BY <1>0, <1>1 DEF TypeOK, Opened, Claims
<1>4. /\ bearer' \in [Calls -> Claims \cup {None}]
      /\ q.op \in WithToken => bearer'[e] \in Claims
      /\ bearer'[e] # None => bearer'[e] = bearer[e] \/ bearer'[e] \in jwts
      /\ \A f \in Calls : f # e => bearer'[f] = bearer[f]
  BY <1>0, <1>1 DEF TypeOK
<1>5. TypeOK'
  BY <1>0, <1>1, <1>2, <1>3, <1>4 DEF TypeOK
<1>6. UsersExist'
  BY <1>0, <1>2, <1>4 DEF UsersExist
<1>7. QED
  BY <1>5, <1>6 DEF Inv

\* What every handler's step does to its own place, and to nobody else's.
Moves(e, pc) ==
  /\ at[e] # "free"
  /\ at' = [at EXCEPT ![e] = pc]
  /\ pc \in {"create", "redeem", "open", "write", "revokeOwn", "ok", "failed"}
  /\ pc \in {"redeem", "open"} => seen'[e] \in View
  /\ pc = "create" => call[e].op = "register"
  /\ pc = "redeem" => call[e].op = "refresh"
  /\ pc = "write" => call[e].op = "password"
  /\ pc = "revokeOwn" => call[e].op = "enable"

\* A step that keeps accounts, and that reads an account at most.
LEMMA MoveInv ==
  ASSUME Inv, NEW e \in Calls, NEW pc, Moves(e, pc), UNCHANGED inputs,
         UNCHANGED seen \/ \E v \in View : account[v.user] # None /\ seen' = [seen EXCEPT ![e] = v],
         account' \in [Users -> Account \cup {None}],
         \A u \in Users : account[u] # None => account'[u] # None,
         jwts' \subseteq Claims,
         \A j \in jwts' : j \in jwts \/ account'[j.user] # None,
         session' \in [Calls -> Session \cup {None}],
         \A s \in Calls : session'[s] # None =>
           \/ session[s] # None /\ session'[s].user = session[s].user
           \/ account'[session'[s].user] # None
  PROVE  Inv'
<1>0. TypeOK /\ UsersExist
  BY DEF Inv
<1>1. TypeOK'
  <2>1. seen' \in [Calls -> View \cup {None}] /\ \A f \in Calls : f # e => seen'[f] = seen[f]
    BY <1>0 DEF TypeOK
  <2>2. at' \in [Calls -> {"free", "start", "create", "redeem", "open", "write", "revokeOwn",
                           "ok", "failed"}]
    BY <1>0 DEF TypeOK, Moves
  <2>3. ASSUME NEW f \in Calls
        PROVE  /\ at'[f] # "free" => /\ call'[f] \in Request
                                     /\ call'[f].op \in WithSession => target'[f] \in Calls
                                     /\ call'[f].op \in WithToken => bearer'[f] \in Claims
               /\ at'[f] \in {"redeem", "open"} => seen'[f] \in View
               /\ at'[f] = "create" => call'[f].op = "register"
               /\ at'[f] = "redeem" => call'[f].op = "refresh"
               /\ at'[f] = "write" => call'[f].op = "password"
               /\ at'[f] = "revokeOwn" => call'[f].op = "enable"
    BY <1>0, <2>1 DEF TypeOK, Moves, inputs
  <2>4. QED
    BY <1>0, <2>1, <2>2, <2>3 DEF TypeOK, inputs
<1>2. UsersExist'
  <2>1. \A s \in Calls : session'[s] # None => account'[session'[s].user] # None
    BY <1>0 DEF TypeOK, UsersExist, Session
  <2>2. \A j \in jwts' : account'[j.user] # None
    BY <1>0 DEF TypeOK, UsersExist, Claims
  <2>3. \A f \in Calls : bearer'[f] # None => account'[bearer'[f].user] # None
    BY <1>0 DEF TypeOK, UsersExist, Claims, inputs
  <2>4. \A f \in Calls : seen'[f] # None => account'[seen'[f].user] # None
    BY <1>0 DEF TypeOK, UsersExist, View
  <2>5. QED
    BY <2>1, <2>2, <2>3, <2>4 DEF UsersExist
<1>3. QED
  BY <1>1, <1>2 DEF Inv
-----------------------------------------------------------------------------
\* Handlers that end in a failure, or look and go on.
LEMMA ReadInv ==
  ASSUME Inv, NEW e \in Calls,
         \/ Reject(e) \/ CountUsers(e) \/ Login(e) \/ LoginFails(e) \/ VerifyTotp(e)
         \/ LoginWithPasskey(e) \/ FindSession(e) \/ CheckPassword(e)
  PROVE  Inv'
<1>0. TypeOK /\ UsersExist
  BY DEF Inv
<1>a. /\ UNCHANGED <<tables, inputs>>
      /\ at[e] = "start"
  BY DEF Reject, CountUsers, Login, LoginFails, VerifyTotp, LoginWithPasskey, FindSession,
         CheckPassword, Starts
<1>b. SUFFICES \E pc :
        /\ Moves(e, pc)
        /\ UNCHANGED seen \/ \E v \in View : account[v.user] # None /\ seen' = [seen EXCEPT ![e] = v]
  BY <1>0, <1>a, MoveInv DEF TypeOK, UsersExist, tables
<1>c. at[e] # "free" /\ call[e] \in Request
  BY <1>0, <1>a DEF TypeOK
<1>d. ASSUME NEW v \in View, account[v.user] # None, ToOpen(e, v)
      PROVE  /\ Moves(e, "open")
             /\ \E w \in View : account[w.user] # None /\ seen' = [seen EXCEPT ![e] = w]
  BY <1>0, <1>c, <1>d DEF ToOpen, Moves, GoTo, TypeOK
<1>e. Fail(e) => Moves(e, "failed") /\ UNCHANGED seen
  BY <1>c DEF Fail, Moves, GoTo
<1>1. CASE Reject(e)
  <2>1. Moves(e, "failed")
    BY <1>1, <1>c DEF Reject, Moves, GoTo
  <2>2. QED
    BY <1>1, <2>1 DEF Reject
<1>2. CASE CountUsers(e)
  <2>1. Moves(e, "create") \/ Moves(e, "failed")
    BY <1>2, <1>c DEF CountUsers, Starts, Op, Moves, GoTo
  <2>2. QED
    BY <1>2, <2>1 DEF CountUsers
<1>3. CASE Login(e)
  <2>1. call[e].user \in Users /\ account[call[e].user] # None
    BY <1>3, <1>c, RequestFields DEF Login, Starts, Op, PasswordFits
  <2>2. Look(call[e].user, TRUE, FALSE) \in View /\ Look(call[e].user, TRUE, FALSE).user = call[e].user
    BY <1>0, <2>1, LookType
  <2>3. QED
    BY <1>3, <1>d, <2>1, <2>2 DEF Login
<1>4. CASE LoginFails(e)
  BY <1>4, <1>e DEF LoginFails
<1>5. CASE VerifyTotp(e)
  <2>1. bearer[e] \in Claims /\ bearer[e] # None
    BY <1>0, <1>5, <1>a, AuthAssumption DEF VerifyTotp, Starts, Op, TypeOK, WithToken
  <2>2. bearer[e].user \in Users /\ account[bearer[e].user] # None
    BY <1>0, <2>1 DEF Claims, UsersExist
  <2>3. Look(bearer[e].user, TRUE, TRUE) \in View /\ Look(bearer[e].user, TRUE, TRUE).user = bearer[e].user
    BY <1>0, <2>2, LookType
  <2>4. QED
    BY <1>5, <1>d, <1>e, <2>2, <2>3 DEF VerifyTotp
<1>6. CASE LoginWithPasskey(e)
  <2>1. call[e].user \in Users
    BY <1>6, <1>c, RequestFields DEF LoginWithPasskey, Starts, Op
  <2>2. ASSUME account[call[e].user] # None
        PROVE  LET v == Look(call[e].user, TRUE, account[call[e].user].totp # NoTotp)
               IN  v \in View /\ v.user = call[e].user
    BY <1>0, <2>1, <2>2, LookType
  <2>3. QED
    BY <1>6, <1>d, <1>e, <2>2 DEF LoginWithPasskey
<1>7. CASE FindSession(e)
  <2>1. CASE session[target[e]] # None /\ ~ session[target[e]].expired
    <3>1. target[e] \in Calls /\ call[e].op = "refresh"
      BY <1>0, <1>7, <1>a DEF FindSession, Starts, Op, TypeOK, WithSession
    <3>2. session[target[e]] \in Session /\ account[session[target[e]].user] # None
      BY <1>0, <2>1, <3>1 DEF TypeOK, UsersExist
    <3> DEFINE v == Look(session[target[e]].user, session[target[e]].totpVerified,
                         account[session[target[e]].user].totp # NoTotp)
    <3>3. v \in View /\ v.user = session[target[e]].user
      BY <1>0, <3>2, LookType DEF Session
    <3>4. seen' = [seen EXCEPT ![e] = v] /\ at' = [at EXCEPT ![e] = "redeem"]
      BY <1>7, <2>1 DEF FindSession, GoTo
    <3>5. Moves(e, "redeem")
      BY <1>0, <1>c, <3>1, <3>3, <3>4 DEF Moves, TypeOK
    <3>6. QED
      BY <3>2, <3>3, <3>4, <3>5
  <2>2. CASE ~ (session[target[e]] # None /\ ~ session[target[e]].expired)
    BY <1>7, <1>e, <2>2 DEF FindSession
  <2>3. QED
    BY <2>1, <2>2
<1>8. CASE CheckPassword(e)
  <2>1. Moves(e, "write") \/ Moves(e, "failed")
    BY <1>8, <1>c DEF CheckPassword, Starts, Op, Moves, GoTo
  <2>2. QED
    BY <1>8, <2>1 DEF CheckPassword
<1>9. QED
  BY <1>1, <1>2, <1>3, <1>4, <1>5, <1>6, <1>7, <1>8

\* Handlers that end sessions.
LEMMA EndInv ==
  ASSUME Inv, NEW e \in Calls,
         \/ Redeem(e) \/ Logout(e) \/ RevokeSession(e) \/ RevokeAllOtherSessions(e) \/ RevokeOwn(e)
  PROVE  Inv'
<1>0. TypeOK /\ UsersExist
  BY DEF Inv
<1>1. UNCHANGED <<account, jwts, inputs, seen>>
  BY DEF Redeem, Logout, RevokeSession, RevokeAllOtherSessions, RevokeOwn
<1>2. \E pc : Moves(e, pc)
  <2>1. CASE Redeem(e)
    <3>1. Moves(e, "open") \/ Moves(e, "failed")
      BY <1>0, <2>1 DEF Redeem, Moves, GoTo, TypeOK
    <3>2. QED
      BY <3>1
  <2>2. CASE ~ Redeem(e)
    <3>1. Moves(e, "ok")
      BY <2>2 DEF Logout, RevokeSession, RevokeAllOtherSessions, RevokeOwn, Starts, Moves, GoTo
    <3>2. QED
      BY <3>1
  <2>3. QED
    BY <2>1, <2>2
<1>3. /\ session' \in [Calls -> Session \cup {None}]
      /\ \A s \in Calls : session'[s] # None => session[s] # None /\ session'[s] = session[s]
  BY <1>0 DEF Redeem, Logout, RevokeSession, RevokeAllOtherSessions, RevokeOwn, EndSessions, TypeOK
<1>4. QED
  BY <1>0, <1>1, <1>2, <1>3, MoveInv DEF TypeOK, UsersExist

\* Whoever changes an account keeps it one.
LEMMA ChangeKeeps ==
  ASSUME Inv, NEW e \in Calls, WritePassword(e) \/ EnableTotp(e) \/ DisableTotp(e)
  PROVE  /\ account' \in [Users -> Account \cup {None}]
         /\ \A u \in Users : account[u] # None => account'[u] # None
<1>0. TypeOK /\ UsersExist
  BY DEF Inv
<1>1. call[e] \in Request /\ bearer[e] \in Claims /\ bearer[e] # None
  BY <1>0, AuthAssumption
  DEF WritePassword, EnableTotp, DisableTotp, Starts, Op, TypeOK, WithToken
<1>2. bearer[e].user \in Users /\ account[bearer[e].user] \in Account
  BY <1>0, <1>1 DEF Claims, UsersExist, TypeOK
<1>3. \A a \in Account : a # None
  BY AuthAssumption
<1>4. CASE WritePassword(e)
  <2>1. call[e].new \in Passwords
    BY <1>0, <1>1, <1>4, RequestFields DEF WritePassword, TypeOK
  <2>2. [account[bearer[e].user] EXCEPT !.password = call[e].new] \in Account
    BY <1>2, <2>1 DEF Account
  <2>3. QED
    BY <1>0, <1>2, <1>3, <1>4, <2>2 DEF WritePassword, TypeOK
<1>5. CASE EnableTotp(e)
  <2>1. call[e].secret \in Codes
    BY <1>1, <1>5, RequestFields DEF EnableTotp, Starts, Op
  <2>2. [account[bearer[e].user] EXCEPT !.totp = call[e].secret] \in Account
    BY <1>2, <2>1 DEF Account
  <2>3. QED
    BY <1>0, <1>2, <1>3, <1>5, <2>2 DEF EnableTotp, TypeOK
<1>6. CASE DisableTotp(e)
  <2>1. [account[bearer[e].user] EXCEPT !.totp = NoTotp] \in Account
    BY <1>2 DEF Account
  <2>2. QED
    BY <1>0, <1>2, <1>3, <1>6, <2>1 DEF DisableTotp, TypeOK
<1>7. QED
  BY <1>4, <1>5, <1>6

\* Handlers that change an account.
LEMMA ChangeInv ==
  ASSUME Inv, NEW e \in Calls, WritePassword(e) \/ EnableTotp(e) \/ DisableTotp(e)
  PROVE  Inv'
<1>0. TypeOK /\ UsersExist
  BY DEF Inv
<1>1. call[e] \in Request
  BY <1>0 DEF WritePassword, EnableTotp, DisableTotp, Starts, TypeOK
<1>2. /\ account' \in [Users -> Account \cup {None}]
      /\ \A u \in Users : account[u] # None => account'[u] # None
  BY ChangeKeeps
<1>3. UNCHANGED <<jwts, inputs, seen>>
  BY DEF WritePassword, EnableTotp, DisableTotp
<1>4. \E pc : Moves(e, pc)
  <2>1. Moves(e, "ok") \/ Moves(e, "revokeOwn")
    BY <1>3 DEF WritePassword, EnableTotp, DisableTotp, Starts, Op, Moves, GoTo
  <2>2. QED
    BY <2>1
<1>5. /\ session' \in [Calls -> Session \cup {None}]
      /\ \A s \in Calls : session'[s] # None => session[s] # None /\ session'[s] = session[s]
  BY <1>0 DEF WritePassword, EnableTotp, DisableTotp, EndSessions, TypeOK
<1>6. QED
  BY <1>0, <1>2, <1>3, <1>4, <1>5, MoveInv DEF TypeOK, UsersExist, Claims

\* Handlers that add an account, a token or a session.
LEMMA AddInv ==
  ASSUME Inv, NEW e \in Calls, CreateUser(e) \/ LoginHalf(e) \/ Open(e)
  PROVE  Inv'
<1>0. TypeOK /\ UsersExist
  BY DEF Inv
<1>c. at[e] # "free" /\ call[e] \in Request
  BY <1>0 DEF TypeOK, CreateUser, LoginHalf, Open, Starts
<1>1. CASE CreateUser(e)
  <2> DEFINE u == call[e].user
             v == [user |-> u, password |-> call[e].password, totpVerified |-> TRUE,
                   totpEnabled |-> FALSE]
  <2>1. u \in Users /\ call[e].password \in Passwords
    BY <1>0, <1>1, <1>c, RequestFields DEF CreateUser, TypeOK
  <2>2. CASE /\ account[u] = None
             /\ account' = [account EXCEPT ![u] = [password |-> call[e].password, totp |-> NoTotp]]
             /\ ToOpen(e, v)
    <3>1. [password |-> call[e].password, totp |-> NoTotp] \in Account /\ v \in View /\ v.user = u
      BY <2>1 DEF Account, View
    <3>2. /\ account' \in [Users -> Account \cup {None}]
          /\ \A w \in Users : account[w] # None => account'[w] # None
          /\ account'[u] # None
      BY <1>0, <2>1, <2>2, <3>1, AuthAssumption DEF TypeOK
    <3>3. /\ at' = [at EXCEPT ![e] = "open"]
          /\ seen' = [seen EXCEPT ![e] = v]
          /\ UNCHANGED <<session, jwts, inputs>>
      BY <1>1, <2>2 DEF CreateUser, ToOpen, GoTo
    <3> HIDE DEF v, u
    <3>4. TypeOK'
      <4>1. /\ at' \in [Calls -> {"free", "start", "create", "redeem", "open", "write", "revokeOwn",
                                  "ok", "failed"}]
            /\ seen' \in [Calls -> View \cup {None}]
        BY <1>0, <3>1, <3>3 DEF TypeOK
      <4>2. ASSUME NEW f \in Calls
            PROVE  /\ at'[f] # "free" => /\ call'[f] \in Request
                                         /\ call'[f].op \in WithSession => target'[f] \in Calls
                                         /\ call'[f].op \in WithToken => bearer'[f] \in Claims
                   /\ at'[f] \in {"redeem", "open"} => seen'[f] \in View
                   /\ at'[f] = "create" => call'[f].op = "register"
                   /\ at'[f] = "redeem" => call'[f].op = "refresh"
                   /\ at'[f] = "write" => call'[f].op = "password"
                   /\ at'[f] = "revokeOwn" => call'[f].op = "enable"
        BY <1>0, <1>c, <3>1, <3>3 DEF TypeOK, inputs
      <4>3. QED
        BY <1>0, <3>2, <3>3, <4>1, <4>2 DEF TypeOK, inputs
    <3>5. UsersExist'
      BY <1>0, <3>1, <3>2, <3>3 DEF TypeOK, UsersExist, Session, Claims, View, inputs
    <3>6. QED
      BY <3>4, <3>5 DEF Inv
  <2>3. CASE UNCHANGED account /\ Fail(e)
    <3>1. Moves(e, "failed") /\ UNCHANGED <<session, jwts, inputs, seen, account>>
      BY <1>1, <1>c, <2>3 DEF CreateUser, Fail, Moves, GoTo
    <3>2. QED
      BY <1>0, <3>1, MoveInv DEF TypeOK, UsersExist
  <2>4. QED
    BY <1>1, <2>2, <2>3 DEF CreateUser
<1>2. CASE LoginHalf(e)
  <2> DEFINE j == [user |-> call[e].user, totpVerified |-> FALSE, totpEnabled |-> TRUE,
                   session |-> None]
  <2>1. call[e].user \in Users /\ account[call[e].user] # None
    BY <1>2, <1>c, RequestFields DEF LoginHalf, Starts, Op, PasswordFits
  <2>2. j \in Claims /\ j.user = call[e].user
    BY <2>1 DEF Claims
  <2>3. jwts' = jwts \cup {j} /\ UNCHANGED <<account, session, inputs, seen>> /\ Moves(e, "ok")
    BY <1>2, <1>c DEF LoginHalf, Moves, GoTo
  <2> HIDE DEF j
  <2>4. QED
    BY <1>0, <2>1, <2>2, <2>3, MoveInv DEF TypeOK, UsersExist
<1>3. CASE Open(e)
  <2> DEFINE j == [user |-> seen[e].user, totpVerified |-> seen[e].totpVerified,
                   totpEnabled |-> seen[e].totpEnabled, session |-> e]
             r == [user |-> seen[e].user, totpVerified |-> seen[e].totpVerified,
                   expired |-> FALSE]
  <2>1. seen[e] \in View /\ seen[e] # None
    BY <1>0, <1>3, AuthAssumption DEF Open, TypeOK
  <2>2. seen[e].user \in Users /\ account[seen[e].user] # None
    BY <1>0, <2>1 DEF UsersExist, View
  <2>3. j \in Claims /\ j.user = seen[e].user /\ r \in Session /\ r.user = seen[e].user
    BY <2>1 DEF Claims, Session, View
  <2>4. /\ jwts' = jwts \cup {j}
        /\ session' = [session EXCEPT ![e] = r]
        /\ UNCHANGED <<account, inputs, seen>>
        /\ Moves(e, "ok")
    BY <1>3 DEF Open, Moves, GoTo
  <2> HIDE DEF j, r
  <2>5. /\ session' \in [Calls -> Session \cup {None}]
        /\ \A s \in Calls : session'[s] # None =>
             \/ session[s] # None /\ session'[s].user = session[s].user
             \/ account[session'[s].user] # None
    BY <1>0, <2>2, <2>3, <2>4 DEF TypeOK
  <2>6. /\ jwts' \subseteq Claims
        /\ \A k \in jwts' : k \in jwts \/ account'[k.user] # None
    BY <1>0, <2>2, <2>3, <2>4 DEF TypeOK
  <2>7. QED
    BY <1>0, <2>4, <2>5, <2>6, MoveInv DEF TypeOK, UsersExist
<1>4. QED
  BY <1>1, <1>2, <1>3

\* Time passes.
LEMMA ExpireInv ==
  ASSUME Inv, NEW s \in Calls, Expire(s)
  PROVE  Inv'
<1>0. TypeOK /\ UsersExist
  BY DEF Inv
<1>1. /\ UNCHANGED <<account, jwts, at, inputs, seen>>
      /\ session' \in [Calls -> Session \cup {None}]
      /\ \A x \in Calls : session'[x] # None => session[x] # None /\ session'[x].user = session[x].user
  <2>1. [session[s] EXCEPT !.expired = TRUE] \in Session
    BY <1>0 DEF Expire, TypeOK, Session
  <2>2. [session[s] EXCEPT !.expired = TRUE].user = session[s].user
    BY <1>0 DEF Expire, TypeOK, Session
  <2>3. QED
    BY <1>0, <2>1, <2>2 DEF Expire, TypeOK
<1>2. TypeOK'
  BY <1>0, <1>1 DEF TypeOK, inputs
<1>3. UsersExist'
  BY <1>0, <1>1 DEF UsersExist, inputs
<1>4. QED
  BY <1>2, <1>3 DEF Inv

\* The first state.
LEMMA InvInit == Init => Inv
<1> SUFFICES ASSUME Init PROVE Inv
  OBVIOUS
<1>1. TypeOK
  BY AuthAssumption DEF Init, TypeOK
<1>2. UsersExist
  BY DEF Init, UsersExist
<1>3. QED
  BY <1>1, <1>2 DEF Inv

\* Every step.
LEMMA InvNext == Inv /\ [Next]_vars => Inv'
<1> SUFFICES ASSUME Inv, [Next]_vars PROVE Inv'
  OBVIOUS
<1>1. ASSUME NEW e \in Calls, Receive(e) PROVE Inv'
  BY <1>1, ReceiveInv
<1>2. ASSUME NEW e \in Calls, Handle(e) PROVE Inv'
  BY <1>2, ReadInv, EndInv, ChangeInv, AddInv DEF Handle
<1>3. ASSUME NEW s \in Calls, Expire(s) PROVE Inv'
  BY <1>3, ExpireInv
<1>4. CASE UNCHANGED vars
  BY <1>4 DEF Inv, TypeOK, UsersExist, vars
<1>5. QED
  BY <1>1, <1>2, <1>3, <1>4 DEF Next

\* Types hold for ever, and users stay.
LEMMA InvAlways == Spec => []Inv
BY InvInit, InvNext, PTL DEF Spec

\* Rows, tokens and the locals of handlers have their types, and a handler that
\* is past an await has what it uses there.
THEOREM TypeCorrect == Spec => []TypeOK
BY InvAlways, PTL DEF Inv
-----------------------------------------------------------------------------
(* Safety.                                                                   *)

\* A session is opened by a call that ends there, and once: its name is free to
\* no other call, and requests name sessions and tokens that exist or existed.
TokensKnown ==
  /\ \A s \in Opened : s \in Calls /\ at[s] = "ok"
  /\ \A s \in Calls : session[s] # None => s \in Opened
  /\ \A e \in Calls : at[e] # "free" /\ Op(e) \in WithSession => target[e] \in Opened
  /\ \A e \in Calls : at[e] # "free" /\ Op(e) \in WithToken => bearer[e] \in jwts
  /\ \A e \in Calls : at[e] = "free" => call[e] = None

\* A token that misses a factor says so, and no session misses one.
FullyVerified ==
  /\ \A j \in jwts : j.totpVerified \/ j.totpEnabled
  /\ \A s \in Calls : session[s] # None => session[s].totpVerified
  /\ \A e \in Calls : at[e] \in {"redeem", "open"} => seen[e].totpVerified
  /\ \A e \in Calls : at[e] = "write" => bearer[e].totpVerified

\* A session that was exchanged is gone, and until then it is of the user that
\* the exchange has read.
Redeemed ==
  /\ \A e \in Calls : at[e] \in {"open", "ok"} /\ Op(e) = "refresh" => session[target[e]] = None
  /\ \A e \in Calls : at[e] = "redeem" /\ session[target[e]] # None =>
       seen[e].user = session[target[e]].user
  /\ RedeemedOnce

\* Whoever registered has an account.
Registered ==
  /\ \A e \in Calls : at[e] \in {"open", "ok"} /\ Op(e) = "register" => account[call[e].user] # None
  /\ BootstrapOnce

SafetyInv == TokensKnown /\ FullyVerified /\ Redeemed /\ Registered

\* What a handler's step does, whichever it is: it moves its own handler, and
\* only Open starts a session, and only Open and LoginHalf sign a token.
LEMMA Frame ==
  ASSUME Inv, NEW e \in Calls, Handle(e)
  PROVE  /\ at[e] \in {"start", "create", "redeem", "open", "write", "revokeOwn"}
         /\ at' = [at EXCEPT ![e] = at'[e]]
         /\ at'[e] # at[e]
         /\ at'[e] \in {"create", "redeem", "open", "write", "revokeOwn", "ok", "failed"}
         /\ UNCHANGED inputs
         /\ \A f \in Calls : f # e => seen'[f] = seen[f]
         /\ ~ Open(e) => \A s \in Calls : session'[s] \in {session[s], None}
         /\ ~ Open(e) /\ ~ LoginHalf(e) => UNCHANGED jwts
<1>0. at \in [Calls -> {"free", "start", "create", "redeem", "open", "write", "revokeOwn",
                        "ok", "failed"}]
      /\ session \in [Calls -> Session \cup {None}]
      /\ seen \in [Calls -> View \cup {None}]
  BY DEF Inv, TypeOK
<1>1. CASE Reject(e) \/ CountUsers(e) \/ Login(e) \/ LoginFails(e) \/ VerifyTotp(e)
           \/ LoginWithPasskey(e) \/ FindSession(e) \/ CheckPassword(e)
  BY <1>0, <1>1 DEF Reject, CountUsers, Login, LoginFails, VerifyTotp, LoginWithPasskey,
     FindSession, CheckPassword, Starts, ToOpen, Fail, GoTo, tables
<1>2. CASE Redeem(e) \/ Logout(e) \/ RevokeSession(e) \/ RevokeAllOtherSessions(e) \/ RevokeOwn(e)
           \/ WritePassword(e) \/ EnableTotp(e) \/ DisableTotp(e)
  BY <1>0, <1>2 DEF Redeem, Logout, RevokeSession, RevokeAllOtherSessions, RevokeOwn,
     WritePassword, EnableTotp, DisableTotp, Starts, EndSessions, GoTo
<1>3. CASE CreateUser(e) \/ LoginHalf(e) \/ Open(e)
  BY <1>0, <1>3 DEF CreateUser, LoginHalf, Open, Starts, ToOpen, Fail, GoTo
<1>4. QED
  BY <1>1, <1>2, <1>3 DEF Handle

\* The sessions ever opened, after a step.
LEMMA OpenedNext ==
  ASSUME Inv, NEW e \in Calls, Handle(e)
  PROVE  /\ Open(e) => Opened' = Opened \cup {e}
         /\ ~ Open(e) => Opened' = Opened
<1>1. CASE Open(e)
  <2> DEFINE j == [user |-> seen[e].user, totpVerified |-> seen[e].totpVerified,
                   totpEnabled |-> seen[e].totpEnabled, session |-> e]
  <2>1. jwts' = jwts \cup {j} /\ j.session = e /\ e # None
    BY <1>1, AuthAssumption DEF Open
  <2> HIDE DEF j
  <2>2. QED
    BY <1>1, <2>1 DEF Opened
<1>2. CASE LoginHalf(e)
  <2> DEFINE j == [user |-> call[e].user, totpVerified |-> FALSE, totpEnabled |-> TRUE,
                   session |-> None]
  <2>1. jwts' = jwts \cup {j} /\ j.session = None
    BY <1>2 DEF LoginHalf
  <2> HIDE DEF j
  <2>2. ~ Open(e)
    BY <1>2 DEF LoginHalf, Open, Starts
  <2>3. QED
    BY <2>1, <2>2 DEF Opened
<1>3. CASE ~ Open(e) /\ ~ LoginHalf(e)
  BY <1>3, Frame DEF Opened
<1>4. QED
  BY <1>1, <1>2, <1>3
-----------------------------------------------------------------------------
\* A request that arrives names what exists, and has done nothing yet.
LEMMA ReceiveSafe ==
  ASSUME Inv, SafetyInv, NEW e \in Calls, Receive(e)
  PROVE  SafetyInv'
<1>0. TypeOK /\ TokensKnown /\ FullyVerified /\ Redeemed /\ Registered
  BY DEF Inv, SafetyInv
<1>1. PICK q \in Menu :
        /\ call' = [call EXCEPT ![e] = q]
        /\ IF q.op \in WithSession
           THEN \E s \in Opened : target' = [target EXCEPT ![e] = s]
           ELSE UNCHANGED target
        /\ IF q.op \in WithToken
           THEN \E j \in jwts : bearer' = [bearer EXCEPT ![e] = j]
           ELSE UNCHANGED bearer
  BY DEF Receive
<1>2. /\ at[e] = "free"
      /\ at' = [at EXCEPT ![e] = "start"]
      /\ UNCHANGED <<registrationAllowed, account, session, jwts, seen>>
      /\ Opened' = Opened
  BY DEF Receive, GoTo, tables, Opened
<1>3. /\ at'[e] = "start"
      /\ call'[e] = q
      /\ q.op \in WithSession => target'[e] \in Opened
      /\ q.op \in WithToken => bearer'[e] \in jwts
      /\ \A f \in Calls : f # e => /\ at'[f] = at[f] /\ call'[f] = call[f]
                                   /\ target'[f] = target[f] /\ bearer'[f] = bearer[f]
  BY <1>0, <1>1, <1>2 DEF TypeOK
<1>4. TokensKnown'
  BY <1>0, <1>2, <1>3 DEF TokensKnown, Op
<1>5. FullyVerified'
  BY <1>0, <1>2, <1>3 DEF FullyVerified
<1>6. Redeemed'
  BY <1>0, <1>2, <1>3 DEF Redeemed, RedeemedOnce, Op
<1>7. Registered'
  BY <1>0, <1>2, <1>3 DEF Registered, BootstrapOnce, Op
<1>8. QED
  BY <1>4, <1>5, <1>6, <1>7 DEF SafetyInv

\* Names of sessions stay taken, whatever a handler does.
LEMMA HandleTokens ==
  ASSUME Inv, SafetyInv, NEW e \in Calls, Handle(e)
  PROVE  TokensKnown'
<1>0. TypeOK /\ TokensKnown
  BY DEF Inv, SafetyInv
<1>f. /\ at[e] \in {"start", "create", "redeem", "open", "write", "revokeOwn"}
      /\ at' = [at EXCEPT ![e] = at'[e]]
      /\ at'[e] # "free"
      /\ UNCHANGED <<call, target, bearer>>
  BY Frame DEF inputs
<1>1. at[e] # "ok" /\ at[e] # "free" /\ \A f \in Calls : f # e => at'[f] = at[f]
  BY <1>0, <1>f DEF TypeOK
<1>2. jwts \subseteq jwts'
  BY Frame DEF Open, LoginHalf
<1>3. CASE Open(e)
  <2>1. Opened' = Opened \cup {e} /\ at'[e] = "ok"
    BY <1>0, <1>3, OpenedNext DEF Open, GoTo, TypeOK
  <2>2. \A s \in Calls : s # e => session'[s] = session[s]
    BY <1>0, <1>3 DEF Open, TypeOK
  <2>3. QED
    BY <1>0, <1>f, <1>1, <1>2, <2>1, <2>2 DEF TokensKnown, Op
<1>4. CASE ~ Open(e)
  <2>1. Opened' = Opened /\ \A s \in Calls : session'[s] \in {session[s], None}
    BY <1>4, Frame, OpenedNext
  <2>2. QED
    BY <1>0, <1>f, <1>1, <1>2, <2>1 DEF TokensKnown, Op
<1>5. QED
  BY <1>3, <1>4

\* Each way to a session, and to the second half of a password change, has seen
\* both factors where there are two.
LEMMA HandleVerified ==
  ASSUME Inv, SafetyInv, NEW e \in Calls, Handle(e)
  PROVE  FullyVerified'
<1>0. TypeOK /\ TokensKnown /\ FullyVerified
  BY DEF Inv, SafetyInv
<1>f. /\ at[e] \in {"start", "create", "redeem", "open", "write", "revokeOwn"}
      /\ at' = [at EXCEPT ![e] = at'[e]]
      /\ UNCHANGED <<call, target, bearer>>
      /\ \A f \in Calls : f # e => seen'[f] = seen[f]
  BY Frame DEF inputs
<1>1. \A f \in Calls : f # e => at'[f] = at[f]
  BY <1>0, <1>f DEF TypeOK
<1>2. CASE Open(e)
  <2> DEFINE j == [user |-> seen[e].user, totpVerified |-> seen[e].totpVerified,
                   totpEnabled |-> seen[e].totpEnabled, session |-> e]
             r == [user |-> seen[e].user, totpVerified |-> seen[e].totpVerified, expired |-> FALSE]
  <2>1. seen[e].totpVerified
    BY <1>0, <1>2 DEF Open, FullyVerified
  <2>2. jwts' = jwts \cup {j} /\ session' = [session EXCEPT ![e] = r] /\ at'[e] = "ok"
    BY <1>0, <1>2 DEF Open, GoTo, TypeOK
  <2>3. j.totpVerified /\ r.totpVerified
    BY <2>1
  <2> HIDE DEF j, r
  <2>4. QED
    BY <1>0, <1>1, <1>f, <2>2, <2>3 DEF FullyVerified, TypeOK
<1>3. CASE LoginHalf(e)
  <2> DEFINE j == [user |-> call[e].user, totpVerified |-> FALSE, totpEnabled |-> TRUE,
                   session |-> None]
  <2>1. jwts' = jwts \cup {j} /\ session' = session /\ at'[e] = "ok" /\ j.totpEnabled
    BY <1>0, <1>3 DEF LoginHalf, GoTo, TypeOK
  <2> HIDE DEF j
  <2>2. QED
    BY <1>0, <1>1, <1>f, <2>1 DEF FullyVerified
<1>4. CASE ~ Open(e) /\ ~ LoginHalf(e)
  <2>1. jwts' = jwts /\ \A s \in Calls : session'[s] \in {session[s], None}
    BY <1>4, Frame
  <2>2. at'[e] \in {"redeem", "open"} => seen'[e].totpVerified
    <3>1. CASE CreateUser(e) \/ Login(e) \/ VerifyTotp(e) \/ LoginWithPasskey(e)
      BY <1>0, <3>1 DEF CreateUser, Login, VerifyTotp, LoginWithPasskey, ToOpen, Fail, GoTo, Look,
         TypeOK
    <3>2. CASE FindSession(e)
      <4>1. target[e] \in Calls
        BY <1>0, <3>2 DEF FindSession, Starts, Op, TypeOK, WithSession
      <4>2. QED
        BY <1>0, <3>2, <4>1 DEF FindSession, Fail, GoTo, Look, TypeOK, FullyVerified
    <3>3. CASE Redeem(e)
      BY <1>0, <3>3 DEF Redeem, TypeOK, FullyVerified
    <3>4. CASE ~ (CreateUser(e) \/ Login(e) \/ VerifyTotp(e) \/ LoginWithPasskey(e) \/ FindSession(e)
                  \/ Redeem(e))
      BY <1>0, <1>4, <3>4 DEF Handle, Reject, CountUsers, LoginFails, Logout, RevokeSession,
         RevokeAllOtherSessions, CheckPassword, WritePassword, EnableTotp, RevokeOwn, DisableTotp,
         Fail, GoTo, TypeOK
    <3>5. QED
      BY <3>1, <3>2, <3>3, <3>4
  <2>3. at'[e] = "write" => bearer[e].totpVerified
    <3>1. at'[e] = "write" => CheckPassword(e)
      BY <1>0, <1>4 DEF Handle, Reject, CountUsers, CreateUser, Login, LoginFails, VerifyTotp,
         LoginWithPasskey, FindSession, Redeem, Logout, RevokeSession, RevokeAllOtherSessions,
         WritePassword, EnableTotp, RevokeOwn, DisableTotp, ToOpen, Fail, GoTo, TypeOK
    <3>2. CheckPassword(e) => bearer[e].totpVerified
      <4> SUFFICES ASSUME CheckPassword(e) PROVE bearer[e].totpVerified
        OBVIOUS
      <4>1. bearer[e] \in jwts /\ Op(e) = "password" /\ Admitted(e)
        BY <1>0 DEF CheckPassword, Starts, TokensKnown, WithToken
      <4>2. ~ (bearer[e].totpEnabled /\ ~ bearer[e].totpVerified)
        BY <4>1 DEF Admitted, WithToken
      <4>3. QED
        BY <1>0, <4>1, <4>2 DEF FullyVerified
    <3>3. QED
      BY <3>1, <3>2
  <2>4. QED
    BY <1>0, <1>1, <1>f, <2>1, <2>2, <2>3 DEF FullyVerified
<1>5. QED
  BY <1>2, <1>3, <1>4

\* delete lets one exchange of a session pass, and the row never comes back.
LEMMA HandleRedeemed ==
  ASSUME Inv, SafetyInv, NEW e \in Calls, Handle(e)
  PROVE  Redeemed'
<1>0. TypeOK /\ TokensKnown /\ Redeemed
  BY DEF Inv, SafetyInv
<1>f. /\ at[e] \in {"start", "create", "redeem", "open", "write", "revokeOwn"}
      /\ at' = [at EXCEPT ![e] = at'[e]]
      /\ UNCHANGED <<call, target, bearer>>
      /\ \A f \in Calls : f # e => seen'[f] = seen[f]
  BY Frame DEF inputs
<1>1. \A f \in Calls : f # e => at'[f] = at[f]
  BY <1>0, <1>f DEF TypeOK
<1>2. \A f \in Calls : at[f] # "free" /\ Op(f) = "refresh" =>
        /\ target[f] \in Calls
        /\ session'[target[f]] \in {session[target[f]], None}
  <2> SUFFICES ASSUME NEW f \in Calls, at[f] # "free", Op(f) = "refresh"
               PROVE  target[f] \in Calls /\ session'[target[f]] \in {session[target[f]], None}
    OBVIOUS
  <2>1. target[f] \in Calls /\ at[target[f]] = "ok"
    BY <1>0 DEF TokensKnown, WithSession
  <2>2. Open(e) => target[f] # e
    BY <2>1 DEF Open
  <2>3. CASE Open(e)
    BY <1>0, <2>1, <2>2, <2>3 DEF Open, TypeOK
  <2>4. CASE ~ Open(e)
    BY <2>1, <2>4, Frame
  <2>5. QED
    BY <2>1, <2>3, <2>4
\* An exchange gets to "open" by taking the session.
<1>3. at'[e] \in {"open", "ok"} /\ Op(e) = "refresh" =>
        \/ at[e] \in {"open", "ok"}
        \/ /\ at[e] = "redeem" /\ target[e] \in Calls
           /\ session[target[e]] # None /\ session'[target[e]] = None
  <2> SUFFICES ASSUME at'[e] \in {"open", "ok"}, Op(e) = "refresh", at[e] \notin {"open", "ok"}
               PROVE  /\ at[e] = "redeem" /\ target[e] \in Calls
                      /\ session[target[e]] # None /\ session'[target[e]] = None
    OBVIOUS
  <2>1. Redeem(e)
    BY <1>0 DEF Handle, Reject, CountUsers, CreateUser, Login, LoginHalf, LoginFails, VerifyTotp,
       LoginWithPasskey, Open, FindSession, Logout, RevokeSession, RevokeAllOtherSessions,
       CheckPassword, WritePassword, EnableTotp, RevokeOwn, DisableTotp, Starts, Fail, GoTo, Op,
       TypeOK
  <2>2. target[e] \in Calls
    BY <1>0, <1>2, <2>1 DEF Redeem
  <2>3. QED
    BY <1>0, <2>1, <2>2 DEF Redeem, GoTo, TypeOK
<1>4. \A f \in Calls : at'[f] \in {"open", "ok"} /\ Op(f) = "refresh" => session'[target[f]] = None
  BY <1>0, <1>1, <1>2, <1>3 DEF Redeemed
<1>5. \A f \in Calls : at'[f] = "redeem" /\ session'[target[f]] # None =>
        seen'[f].user = session'[target[f]].user
  <2> SUFFICES ASSUME NEW f \in Calls, at'[f] = "redeem", session'[target[f]] # None
               PROVE  seen'[f].user = session'[target[f]].user
    OBVIOUS
  <2>1. CASE at[f] = "redeem" /\ f # e
    <3>1. Op(f) = "refresh"
      BY <1>0, <2>1 DEF TypeOK, Op
    <3>2. session'[target[f]] = session[target[f]]
      BY <1>2, <2>1, <3>1
    <3>3. QED
      BY <1>0, <1>f, <2>1, <3>2 DEF Redeemed
  <2>2. CASE f = e
    <3>1. FindSession(e)
      BY <1>0, <1>f, <2>2 DEF Handle, Reject, CountUsers, CreateUser, Login, LoginHalf, LoginFails,
         VerifyTotp, LoginWithPasskey, Open, Redeem, Logout, RevokeSession,
         RevokeAllOtherSessions, CheckPassword, WritePassword, EnableTotp, RevokeOwn, DisableTotp,
         Starts, ToOpen, Fail, GoTo, TypeOK
    <3>2. session' = session /\ at'[e] = "redeem" /\ UNCHANGED target
      BY <1>f, <2>2, <3>1 DEF FindSession, tables
    <3>3. seen'[e] = Look(session[target[e]].user, session[target[e]].totpVerified,
                          account[session[target[e]].user].totp # NoTotp)
      BY <1>0, <3>1, <3>2 DEF FindSession, Fail, GoTo, TypeOK
    <3>4. QED
      BY <2>2, <3>2, <3>3 DEF Look
  <2>3. QED
    BY <1>1, <2>1, <2>2
<1>6. RedeemedOnce'
  BY <1>0, <1>1, <1>3, <1>f DEF Redeemed, RedeemedOnce, Op
<1>7. QED
  BY <1>4, <1>5, <1>6, <1>f DEF Redeemed, Op

\* Users are never deleted.
LEMMA AccountsStay ==
  ASSUME Inv, NEW e \in Calls, Handle(e), NEW u \in Users, account[u] # None
  PROVE  account'[u] # None
<1>0. TypeOK
  BY DEF Inv
<1>1. CASE WritePassword(e) \/ EnableTotp(e) \/ DisableTotp(e)
  BY <1>1, ChangeKeeps
<1>2. CASE CreateUser(e)
  BY <1>0, <1>2 DEF CreateUser, TypeOK
<1>3. CASE ~ (CreateUser(e) \/ WritePassword(e) \/ EnableTotp(e) \/ DisableTotp(e))
  BY <1>3 DEF Handle, Reject, CountUsers, Login, LoginHalf, LoginFails, VerifyTotp,
     LoginWithPasskey, Open, FindSession, Redeem, Logout, RevokeSession, RevokeAllOtherSessions,
     CheckPassword, RevokeOwn, tables
<1>4. QED
  BY <1>1, <1>2, <1>3

\* The account that lets a registration go on to a session stays.
LEMMA HandleRegistered ==
  ASSUME Inv, SafetyInv, NEW e \in Calls, Handle(e)
  PROVE  Registered'
<1>0. TypeOK /\ Registered
  BY DEF Inv, SafetyInv
<1>f. /\ at[e] \in {"start", "create", "redeem", "open", "write", "revokeOwn"}
      /\ at' = [at EXCEPT ![e] = at'[e]]
      /\ UNCHANGED <<registrationAllowed, call, target, bearer>>
  BY Frame DEF inputs
<1>1. \A f \in Calls : f # e => at'[f] = at[f]
  BY <1>0, <1>f DEF TypeOK
<1>2. \A u \in Users : account[u] # None => account'[u] # None
  BY AccountsStay
<1>3. at'[e] \in {"open", "ok"} /\ Op(e) = "register" => CreateUser(e) \/ Open(e)
  BY <1>0 DEF Handle, Reject, CountUsers, Login, LoginHalf, LoginFails, VerifyTotp,
     LoginWithPasskey, FindSession, Redeem, Logout, RevokeSession, RevokeAllOtherSessions,
     CheckPassword, WritePassword, EnableTotp, RevokeOwn, DisableTotp, Starts, GoTo, Fail, Op,
     TypeOK
<1>4. at'[e] \in {"open", "ok"} /\ Op(e) = "register" =>
        \/ at[e] = "open"
        \/ /\ registrationAllowed \/ NoUsers
           /\ call[e].user \in Users
           /\ account'[call[e].user] # None
  <2> SUFFICES ASSUME at'[e] = "open", Op(e) = "register", CreateUser(e)
               PROVE  /\ registrationAllowed \/ NoUsers
                      /\ call[e].user \in Users
                      /\ account'[call[e].user] # None
    BY <1>0, <1>3 DEF Open, CreateUser, ToOpen, Fail, GoTo, TypeOK
  <2>1. call[e].user \in Users /\ call[e].password \in Passwords
    BY <1>0, RequestFields DEF CreateUser, TypeOK
  <2>2. /\ registrationAllowed \/ NoUsers
        /\ account' = [account EXCEPT ![call[e].user] =
             [password |-> call[e].password, totp |-> NoTotp]]
    BY <1>0 DEF CreateUser, Fail, GoTo, TypeOK
  <2>3. [password |-> call[e].password, totp |-> NoTotp] \in Account
    BY <2>1 DEF Account
  <2>4. QED
    BY <1>0, <2>1, <2>2, <2>3, AuthAssumption DEF TypeOK
<1>5. \A f \in Calls : at[f] # "free" /\ Op(f) = "register" => call[f].user \in Users
  BY <1>0, RequestFields DEF TypeOK, Op
<1>6. \A f \in Calls : at'[f] \in {"open", "ok"} /\ Op(f) = "register" =>
        account'[call[f].user] # None
  BY <1>0, <1>1, <1>2, <1>4, <1>5 DEF Registered
<1>7. BootstrapOnce'
  BY <1>0, <1>1, <1>4, <1>5, <1>f DEF Registered, BootstrapOnce, NoUsers, Op
<1>8. QED
  BY <1>6, <1>7, <1>f DEF Registered, Op

\* Expiry only marks a row.
LEMMA ExpireSafe ==
  ASSUME Inv, SafetyInv, NEW s \in Calls, Expire(s)
  PROVE  SafetyInv'
<1>0. TypeOK /\ TokensKnown /\ FullyVerified /\ Redeemed /\ Registered
  BY DEF Inv, SafetyInv
<1>1. /\ UNCHANGED <<registrationAllowed, account, jwts, at, call, target, bearer, seen>>
      /\ Opened' = Opened
  BY DEF Expire, inputs, Opened
<1>2. /\ session[s] \in Session /\ session[s] # None
      /\ session' = [session EXCEPT ![s] = [session[s] EXCEPT !.expired = TRUE]]
  BY <1>0 DEF Expire, TypeOK
<1>3. \A x \in Calls :
        /\ session'[x] = None <=> session[x] = None
        /\ session[x] # None => /\ session'[x].user = session[x].user
                                /\ session'[x].totpVerified = session[x].totpVerified
  <2>1. /\ [session[s] EXCEPT !.expired = TRUE] \in Session
        /\ [session[s] EXCEPT !.expired = TRUE].user = session[s].user
        /\ [session[s] EXCEPT !.expired = TRUE].totpVerified = session[s].totpVerified
    BY <1>2 DEF Session
  <2>2. QED
    BY <1>0, <1>2, <2>1, AuthAssumption DEF TypeOK
<1>4. TokensKnown'
  BY <1>0, <1>1, <1>3 DEF TokensKnown, Op
<1>5. FullyVerified'
  BY <1>0, <1>1, <1>3 DEF FullyVerified
<1>6. Redeemed'
  <2>1. \A e \in Calls : at[e] # "free" /\ Op(e) = "refresh" => target[e] \in Calls
    BY <1>0 DEF TokensKnown, WithSession
  <2>2. \A e \in Calls : at[e] = "redeem" => Op(e) = "refresh"
    BY <1>0 DEF TypeOK, Op
  <2>3. QED
    BY <1>0, <1>1, <1>3, <2>1, <2>2 DEF Redeemed, RedeemedOnce, Op
<1>7. Registered'
  BY <1>0, <1>1 DEF Registered, BootstrapOnce, Op
<1>8. QED
  BY <1>4, <1>5, <1>6, <1>7 DEF SafetyInv

\* Nothing has happened yet.
LEMMA SafetyInit == Init => SafetyInv
BY DEF Init, SafetyInv, TokensKnown, FullyVerified, Redeemed, Registered, RedeemedOnce,
   BootstrapOnce, Opened

\* Every step.
LEMMA SafetyNext == Inv /\ SafetyInv /\ [Next]_vars => SafetyInv'
<1> SUFFICES ASSUME Inv, SafetyInv, [Next]_vars PROVE SafetyInv'
  OBVIOUS
<1>1. ASSUME NEW e \in Calls, Receive(e) PROVE SafetyInv'
  BY <1>1, ReceiveSafe
<1>2. ASSUME NEW e \in Calls, Handle(e) PROVE SafetyInv'
  BY <1>2, HandleTokens, HandleVerified, HandleRedeemed, HandleRegistered DEF SafetyInv
<1>3. ASSUME NEW s \in Calls, Expire(s) PROVE SafetyInv'
  BY <1>3, ExpireSafe
<1>4. CASE UNCHANGED vars
  BY <1>4 DEF SafetyInv, TokensKnown, FullyVerified, Redeemed, Registered, RedeemedOnce,
     BootstrapOnce, Opened, Op, vars
<1>5. QED
  BY <1>1, <1>2, <1>3, <1>4 DEF Next

\* The invariants hold for ever.
LEMMA SafetyAlways == Spec => [](Inv /\ SafetyInv)
<1>1. Init => Inv /\ SafetyInv
  BY InvInit, SafetyInit
<1>2. Inv /\ SafetyInv /\ [Next]_vars => (Inv /\ SafetyInv)'
  BY InvNext, SafetyNext
<1>3. QED
  BY <1>1, <1>2, PTL DEF Spec

\* However many refreshes, logouts and revocations run on one refresh token,
\* one refresh at most is given the next session for it.
THEOREM RefreshTokensAreSpentOnce == Spec => []RedeemedOnce
<1>1. SafetyInv => RedeemedOnce
  BY DEF SafetyInv, Redeemed
<1>2. QED
  BY <1>1, SafetyAlways, PTL

\* With public registration off, of all the registrations that raced one made
\* an account.
THEOREM OneBootstrap == Spec => []BootstrapOnce
<1>1. SafetyInv => BootstrapOnce
  BY DEF SafetyInv, Registered
<1>2. QED
  BY <1>1, SafetyAlways, PTL
-----------------------------------------------------------------------------
\* An account changes by a call of its user, who has shown both factors where
\* there are two.
THEOREM OwnersChangeAccounts == Spec => ChangedByOwner
<1>1. ASSUME Inv, SafetyInv, [Next]_vars, NEW u \in Users,
             account[u] # None, account'[u] # account[u]
      PROVE  \E e \in Calls : /\ at[e] # at'[e]
                              /\ bearer[e] # None
                              /\ bearer[e].user = u
                              /\ bearer[e].totpVerified
  <2>0. TypeOK /\ TokensKnown /\ FullyVerified
    BY <1>1 DEF Inv, SafetyInv
  <2>1. PICK e \in Calls : Handle(e)
    BY <1>1 DEF Next, Receive, Expire, tables, vars
  <2>2. WritePassword(e) \/ EnableTotp(e) \/ DisableTotp(e)
    <3>1. ~ CreateUser(e)
      BY <1>1, <2>0 DEF CreateUser, TypeOK
    <3>2. QED
      BY <1>1, <2>1, <3>1 DEF Handle, Reject, CountUsers, Login, LoginHalf, LoginFails, VerifyTotp,
         LoginWithPasskey, Open, FindSession, Redeem, Logout, RevokeSession,
         RevokeAllOtherSessions, CheckPassword, RevokeOwn, tables
  <2>3. bearer[e] \in jwts /\ bearer[e] \in Claims /\ bearer[e] # None
    BY <2>0, <2>2, AuthAssumption
    DEF WritePassword, EnableTotp, DisableTotp, Starts, Op, TypeOK, TokensKnown, WithToken
  <2>4. bearer[e].totpVerified
    <3>1. CASE WritePassword(e)
      BY <2>0, <3>1 DEF WritePassword, FullyVerified
    <3>2. CASE EnableTotp(e) \/ DisableTotp(e)
      <4>1. ~ (bearer[e].totpEnabled /\ ~ bearer[e].totpVerified)
        BY <3>2 DEF EnableTotp, DisableTotp, Starts, Admitted, WithToken
      <4>2. QED
        BY <2>0, <2>3, <4>1 DEF FullyVerified
    <3>3. QED
      BY <2>2, <3>1, <3>2
  <2>5. bearer[e].user = u
    <3>1. \A w \in Users : w # bearer[e].user => account'[w] = account[w]
      BY <2>0, <2>2 DEF WritePassword, EnableTotp, DisableTotp, TypeOK
    <3>2. QED
      BY <1>1, <3>1
  <2>6. at'[e] # at[e]
    BY <1>1, <2>1, Frame
  <2>7. QED
    BY <2>3, <2>4, <2>5, <2>6
<1>2. Inv /\ SafetyInv /\ [Next]_vars =>
        [\A u \in Users :
           account[u] # None /\ account'[u] # account[u] =>
             \E e \in Calls :
               /\ at[e] # at'[e]
               /\ bearer[e] # None
               /\ bearer[e].user = u
               /\ bearer[e].totpVerified]_vars
  BY <1>1
<1>3. QED
  BY <1>2, SafetyAlways, PTL DEF Spec, ChangedByOwner

\* A session is ended with its own refresh token, or by its user.
THEOREM OwnersEndSessions == Spec => EndedByOwner
<1>1. ASSUME Inv, [Next]_vars, NEW s \in Calls, session[s] # None, session'[s] = None
      PROVE  \E e \in Calls :
               /\ at[e] # at'[e]
               /\ \/ Op(e) \in {"refresh", "logout"} /\ target[e] = s
                  \/ bearer[e] # None /\ bearer[e].user = session[s].user
  <2>0. TypeOK
    BY <1>1 DEF Inv
  <2>1. PICK e \in Calls : Handle(e)
    <3>1. ~ \E e \in Calls : Receive(e)
      BY <1>1 DEF Receive, tables
    <3>2. \A x \in Calls : ~ Expire(x)
      <4> SUFFICES ASSUME NEW x \in Calls, Expire(x) PROVE FALSE
        OBVIOUS
      <4>1. [session[x] EXCEPT !.expired = TRUE] \in Session
        BY <2>0 DEF Expire, TypeOK, Session
      <4>2. QED
        BY <1>1, <2>0, <4>1, AuthAssumption DEF Expire, TypeOK
    <3>3. QED
      BY <1>1, <3>1, <3>2 DEF Next, vars
  <2>2. at'[e] # at[e]
    BY <1>1, <2>1, Frame
  <2>3. CASE Redeem(e) \/ Logout(e)
    <3>1. Op(e) \in {"refresh", "logout"}
      BY <2>0, <2>3 DEF Redeem, Logout, Starts, Op, TypeOK
    <3>2. target[e] = s
      BY <1>1, <2>0, <2>3 DEF Redeem, Logout, EndSessions, TypeOK
    <3>3. QED
      BY <2>2, <3>1, <3>2
  <2>4. CASE RevokeSession(e) \/ RevokeAllOtherSessions(e) \/ WritePassword(e) \/ RevokeOwn(e)
    <3>1. bearer[e] # None
      BY <2>0, <2>4, AuthAssumption
      DEF RevokeSession, RevokeAllOtherSessions, WritePassword, RevokeOwn, Starts, Op, TypeOK,
          WithToken
    <3>2. s \in SessionsOf(bearer[e].user)
      BY <1>1, <2>4
      DEF RevokeSession, RevokeAllOtherSessions, WritePassword, RevokeOwn, EndSessions
    <3>3. QED
      BY <2>2, <3>1, <3>2 DEF SessionsOf
  <2>5. CASE Open(e)
    <3>1. [user |-> seen[e].user, totpVerified |-> seen[e].totpVerified, expired |-> FALSE] \in Session
      BY <2>0, <2>5 DEF Open, TypeOK, View, Session
    <3>2. QED
      BY <1>1, <2>0, <2>5, <3>1, AuthAssumption DEF Open, TypeOK
  <2>6. QED
    BY <1>1, <2>1, <2>3, <2>4, <2>5 DEF Handle, Reject, CountUsers, CreateUser, Login, LoginHalf,
       LoginFails, VerifyTotp, LoginWithPasskey, FindSession, CheckPassword, EnableTotp,
       DisableTotp, tables
<1>2. Inv /\ [Next]_vars =>
        [\A s \in Calls :
           session[s] # None /\ session'[s] = None =>
             \E e \in Calls :
               /\ at[e] # at'[e]
               /\ \/ Op(e) \in {"refresh", "logout"} /\ target[e] = s
                  \/ bearer[e] # None /\ bearer[e].user = session[s].user]_vars
  BY <1>1
<1>3. QED
  BY <1>2, InvAlways, PTL DEF Spec, EndedByOwner
-----------------------------------------------------------------------------
(* The accounts and sessions implement SessionAuthority.                     *)

\* The refinement mapping, by name.
Halves == {j.user : j \in jwts}
Proofs == [e \in Calls |-> ProofOf(e)]
Tickets == [e \in Calls |-> IF at[e] = "open" \/ e \in Opened THEN seen[e].user ELSE None]
Opens == [e \in Calls |-> IF session[e] # None THEN session[e].user ELSE None]

\* What a handler presents does not change, and nobody is admitted who is not
\* about to open a session or did.
LEMMA TicketStep ==
  ASSUME Inv, SafetyInv, NEW e \in Calls, Handle(e), at[e] # "open"
  PROVE  /\ Proofs' = Proofs
         /\ Tickets[e] = None
         /\ ~ Open(e)
         /\ Opened' = Opened
         /\ at'[e] # "open" => Tickets' = Tickets
         /\ at'[e] = "open" => Tickets' = [Tickets EXCEPT ![e] = seen'[e].user]
<1>0. TypeOK /\ TokensKnown
  BY DEF Inv, SafetyInv
<1>1. ~ Open(e)
  BY DEF Open
<1>2. Opened' = Opened /\ e \notin Opened
  BY <1>0, <1>1, OpenedNext, Frame DEF TokensKnown
<1>3. /\ at' = [at EXCEPT ![e] = at'[e]]
      /\ UNCHANGED <<call, target, bearer>>
      /\ \A f \in Calls : f # e => seen'[f] = seen[f]
  BY Frame DEF inputs
<1>4. \A f \in Calls : f # e => at'[f] = at[f]
  BY <1>0, <1>3 DEF TypeOK
<1>5. Proofs' = Proofs
  BY <1>3 DEF Proofs, ProofOf, Op
<1>6. /\ \A f \in Calls : f # e => Tickets'[f] = Tickets[f]
      /\ Tickets[e] = None
      /\ Tickets'[e] = IF at'[e] = "open" THEN seen'[e].user ELSE None
  BY <1>2, <1>3, <1>4 DEF Tickets
<1>7. Tickets' = [f \in Calls |-> Tickets'[f]] /\ Tickets = [f \in Calls |-> Tickets[f]]
  BY DEF Tickets
<1>8. QED
  BY <1>1, <1>2, <1>5, <1>6, <1>7

\* A request that arrives is a proof that is presented, or none.
LEMMA PresentStep ==
  ASSUME Inv, SafetyInv, NEW e \in Calls, Receive(e)
  PROVE  [Authority!Next]_(Authority!vars)
<1>0. TypeOK /\ TokensKnown
  BY DEF Inv, SafetyInv
<1>1. PICK q \in Menu :
        /\ call' = [call EXCEPT ![e] = q]
        /\ IF q.op \in WithSession
           THEN \E s \in Opened : target' = [target EXCEPT ![e] = s]
           ELSE UNCHANGED target
        /\ IF q.op \in WithToken
           THEN \E j \in jwts : bearer' = [bearer EXCEPT ![e] = j]
           ELSE UNCHANGED bearer
  BY DEF Receive
<1>2. /\ at[e] = "free"
      /\ call[e] = None
      /\ at' = [at EXCEPT ![e] = "start"]
      /\ UNCHANGED <<account, session, jwts, seen>>
      /\ Opened' = Opened /\ e \notin Opened
  BY <1>0 DEF Receive, GoTo, tables, Opened, TokensKnown
<1>3. Halves' = Halves /\ Tickets' = Tickets /\ Opens' = Opens
  BY <1>0, <1>2 DEF Halves, Tickets, Opens, TypeOK
<1>4. /\ \A f \in Calls : f # e => Proofs'[f] = Proofs[f]
      /\ Proofs[e] = None
  <2>1. \A f \in Calls : f # e => call'[f] = call[f] /\ target'[f] = target[f] /\ bearer'[f] = bearer[f]
    BY <1>0, <1>1 DEF TypeOK
  <2>2. QED
    BY <1>2, <2>1 DEF Proofs, ProofOf, Op
<1>5. Proofs' = [f \in Calls |-> Proofs'[f]] /\ Proofs = [f \in Calls |-> Proofs[f]]
  BY DEF Proofs
<1>6. Proofs'[e] = None \/ Proofs'[e] \in Authority!Proof
  <2>1. /\ q \in Request /\ q # None /\ call'[e] = q
        /\ q.op \in WithSession => target'[e] \in Calls
        /\ q.op \in WithToken => bearer'[e] \in Claims
    BY <1>0, <1>1, AuthAssumption DEF TypeOK, TokensKnown
  <2>2. CASE q.op = "login"
    <3>1. Proofs'[e] = [kind |-> "password", user |-> q.user, word |-> q.password]
      BY <2>1, <2>2 DEF Proofs, ProofOf, Op
    <3>2. QED
      BY <2>1, <2>2, <3>1, RequestFields DEF Authority!Proof
  <2>3. CASE q.op = "verify"
    <3>1. Proofs'[e] = [kind |-> "code", user |-> bearer'[e].user, word |-> q.code]
      BY <2>1, <2>3 DEF Proofs, ProofOf, Op
    <3>2. q.code \in Codes
      BY <2>1, <2>3 DEF Request
    <3>3. QED
      BY <2>1, <2>3, <3>1, <3>2 DEF Authority!Proof, Claims, WithToken
  <2>4. CASE q.op = "passkey"
    <3>1. Proofs'[e] = [kind |-> "passkey", user |-> q.user]
      BY <2>1, <2>4 DEF Proofs, ProofOf, Op
    <3>2. q.user \in PasskeyUsers
      BY <2>1, <2>4 DEF Request
    <3>3. QED
      BY <3>1, <3>2 DEF Authority!Proof
  <2>5. CASE q.op = "refresh"
    <3>1. Proofs'[e] = [kind |-> "session", id |-> target'[e]]
      BY <2>1, <2>5 DEF Proofs, ProofOf, Op
    <3>2. QED
      BY <2>1, <2>5, <3>1 DEF Authority!Proof, WithSession
  <2>6. CASE q.op \notin {"login", "verify", "passkey", "refresh"}
    BY <2>1, <2>6 DEF Proofs, ProofOf, Op
  <2>7. QED
    BY <2>2, <2>3, <2>4, <2>5, <2>6
<1>7. CASE Proofs'[e] = None
  <2>1. Proofs' = Proofs
    BY <1>4, <1>5, <1>7
  <2>2. UNCHANGED Authority!vars
    BY <1>2, <1>3, <2>1 DEF Authority!vars, Halves, Proofs, Tickets, Opens
  <2>3. QED
    BY <2>2
<1>8. CASE Proofs'[e] \in Authority!Proof
  <2>1. Proofs' = [Proofs EXCEPT ![e] = Proofs'[e]]
    BY <1>4, <1>5
  <2>2. Opened' = Opened /\ UNCHANGED account
    BY <1>2
  <2>3. Authority!Present(e)
    BY <1>3, <1>4, <1>8, <2>1, <2>2 DEF Authority!Present, Halves, Proofs, Tickets, Opens
  <2>4. QED
    BY <2>3 DEF Authority!Next
<1>9. QED
  BY <1>6, <1>7, <1>8

\* A password alone, a code or a passkey admits on the look that was taken.
LEMMA AdmitStep ==
  ASSUME Inv, SafetyInv, NEW e \in Calls, Handle(e), at'[e] = "open",
         Login(e) \/ VerifyTotp(e) \/ LoginWithPasskey(e)
  PROVE  Authority!Admit(e)
<1>0. TypeOK /\ TokensKnown
  BY DEF Inv, SafetyInv
<1>1. at[e] = "start" /\ UNCHANGED tables /\ call[e] \in Request
  BY <1>0 DEF Login, VerifyTotp, LoginWithPasskey, Starts, TypeOK
<1>2. /\ Proofs' = Proofs /\ Tickets[e] = None
      /\ Tickets' = [Tickets EXCEPT ![e] = seen'[e].user]
      /\ Opened' = Opened
  BY <1>1, TicketStep
<1>3. Halves' = Halves /\ Opens' = Opens /\ UNCHANGED account
  BY <1>1 DEF tables, Halves, Opens
<1>4. /\ Proofs[e] \in Authority!Proof
      /\ Proofs[e].kind # "session"
      /\ Authority!Accepted(Proofs[e])
      /\ Proofs[e].user = seen'[e].user
  <2>1. CASE Login(e)
    <3>1. Proofs[e] = [kind |-> "password", user |-> call[e].user, word |-> call[e].password]
      BY <1>1, <2>1, AuthAssumption DEF Proofs, ProofOf, Login, Starts
    <3>2. call[e].user \in Users /\ call[e].password \in Passwords
      BY <1>1, <2>1, RequestFields DEF Login, Starts, Op
    <3>3. account[call[e].user] = [password |-> call[e].password, totp |-> NoTotp]
      BY <1>0, <2>1, <3>2 DEF Login, PasswordFits, TypeOK, Account
    <3>4. seen'[e].user = call[e].user
      BY <1>0, <2>1 DEF Login, ToOpen, Look, TypeOK
    <3>5. account[call[e].user] # None
      BY <2>1 DEF Login, PasswordFits
    <3>6. QED
      BY <3>1, <3>2, <3>3, <3>4, <3>5 DEF Authority!Accepted, Authority!Proof
  <2>2. CASE VerifyTotp(e)
    <3>1. Proofs[e] = [kind |-> "code", user |-> bearer[e].user, word |-> call[e].code]
      BY <1>1, <2>2, AuthAssumption DEF Proofs, ProofOf, VerifyTotp, Starts
    <3>2. bearer[e] \in jwts /\ bearer[e] \in Claims /\ bearer[e] # None /\ call[e].code \in Codes
      BY <1>0, <1>1, <2>2, AuthAssumption
      DEF VerifyTotp, Starts, Op, TypeOK, TokensKnown, WithToken, Request
    <3>3. account[bearer[e].user] # None
      BY <3>2 DEF Inv, UsersExist
    <3>4. account[bearer[e].user].totp = call[e].code /\ seen'[e].user = bearer[e].user
      BY <1>0, <2>2 DEF VerifyTotp, ToOpen, Fail, GoTo, Look, TypeOK
    <3>5. bearer[e].user \in Halves /\ bearer[e].user \in Users
      BY <3>2 DEF Halves, Claims
    <3>6. QED
      BY <3>1, <3>2, <3>3, <3>4, <3>5 DEF Authority!Accepted, Authority!Proof, Halves
  <2>3. CASE LoginWithPasskey(e)
    <3>1. Proofs[e] = [kind |-> "passkey", user |-> call[e].user]
      BY <1>1, <2>3, AuthAssumption DEF Proofs, ProofOf, LoginWithPasskey, Starts
    <3>2. call[e].user \in PasskeyUsers
      BY <1>1, <2>3 DEF LoginWithPasskey, Starts, Op, Request
    <3>3. account[call[e].user] # None /\ seen'[e].user = call[e].user
      BY <1>0, <2>3 DEF LoginWithPasskey, ToOpen, Fail, GoTo, Look, TypeOK
    <3>4. QED
      BY <3>1, <3>2, <3>3 DEF Authority!Accepted, Authority!Proof
  <2>4. QED
    BY <2>1, <2>2, <2>3
<1>5. Proofs[e] # None
  BY <1>4, ProofAssumption
<1>6. QED
  BY <1>2, <1>3, <1>4, <1>5 DEF Authority!Admit, Halves, Proofs, Tickets, Opens

\* A refresh gives up the session it was asked for, and is admitted as its user.
LEMMA ExchangeStep ==
  ASSUME Inv, SafetyInv, NEW e \in Calls, Handle(e), at'[e] = "open", Redeem(e)
  PROVE  Authority!Exchange(e)
<1>0. TypeOK /\ TokensKnown /\ Redeemed
  BY DEF Inv, SafetyInv
<1>1. /\ at[e] = "redeem" /\ call[e] \in Request /\ call[e].op = "refresh"
      /\ UNCHANGED <<account, jwts, seen>>
      /\ session' = [session EXCEPT ![target[e]] = None]
  BY <1>0 DEF Redeem, TypeOK
<1>2. target[e] \in Calls /\ session[target[e]] # None
  BY <1>0, <1>1 DEF Redeem, GoTo, TypeOK, WithSession
<1>3. /\ Proofs' = Proofs /\ Tickets[e] = None
      /\ Tickets' = [Tickets EXCEPT ![e] = seen[e].user]
      /\ Opened' = Opened
  BY <1>1, TicketStep
<1>4. Proofs[e] = [kind |-> "session", id |-> target[e]] /\ Proofs[e] \in Authority!Proof
  <2>1. Proofs[e] = [kind |-> "session", id |-> target[e]]
    BY <1>1, AuthAssumption DEF Proofs, ProofOf, Op
  <2>2. QED
    BY <1>2, <2>1 DEF Authority!Proof
<1>5. /\ Opens[target[e]] = seen[e].user
      /\ Opens[target[e]] # None
      /\ Opens' = [Opens EXCEPT ![target[e]] = None]
  <2>1. Opens[target[e]] = seen[e].user
    BY <1>0, <1>1, <1>2 DEF Opens, Redeemed
  <2>2. session[target[e]].user \in Users
    BY <1>0, <1>2 DEF TypeOK, Session
  <2>3. Opens[target[e]] # None
    BY <1>2, <2>2, AuthAssumption DEF Opens
  <2>4. Opens' = [Opens EXCEPT ![target[e]] = None]
    BY <1>0, <1>1, <1>2 DEF Opens, TypeOK
  <2>5. QED
    BY <2>1, <2>3, <2>4
<1>6. Halves' = Halves /\ Proofs[e] # None /\ Proofs[e].kind = "session" /\ Proofs[e].id = target[e]
  BY <1>1, <1>4, ProofAssumption DEF Halves
<1>7. QED
  BY ZenonT(40), <1>1, <1>3, <1>5, <1>6 DEF Authority!Exchange, Halves, Proofs, Tickets, Opens

\* A registration admits the user it made.
LEMMA EnrolStep ==
  ASSUME Inv, SafetyInv, NEW e \in Calls, Handle(e), at'[e] = "open", CreateUser(e)
  PROVE  Authority!Enrol(e)
<1>0. TypeOK
  BY DEF Inv
<1> DEFINE u == call[e].user
           row == [password |-> call[e].password, totp |-> NoTotp]
<1>1. /\ at[e] = "create"
      /\ account[u] = None
      /\ account' = [account EXCEPT ![u] = row]
      /\ seen'[e].user = u
      /\ UNCHANGED <<session, jwts>>
  BY <1>0 DEF CreateUser, ToOpen, Fail, GoTo, TypeOK
<1>2. u \in Users /\ row \in Account
  BY <1>0, <1>1, RequestFields DEF TypeOK, Account
<1>3. /\ Proofs' = Proofs /\ Tickets[e] = None
      /\ Tickets' = [Tickets EXCEPT ![e] = u]
      /\ Opened' = Opened
  BY <1>1, TicketStep
<1>4. account'[u] = row /\ row \in Authority!Account
  BY <1>0, <1>1, <1>2 DEF TypeOK, Account, Authority!Account
<1>5. Halves' = Halves /\ Opens' = Opens
  BY <1>1 DEF Halves, Opens
<1> HIDE DEF u, row
<1>6. QED
  BY ZenonT(40), <1>1, <1>2, <1>3, <1>4, <1>5 DEF Authority!Enrol, Halves, Proofs, Tickets, Opens

\* The right password of a user with a second factor.
LEMMA HalfStep ==
  ASSUME Inv, SafetyInv, NEW e \in Calls, Handle(e), LoginHalf(e)
  PROVE  Authority!Half(e)
<1>0. TypeOK
  BY DEF Inv
<1> DEFINE j == [user |-> call[e].user, totpVerified |-> FALSE, totpEnabled |-> TRUE,
                 session |-> None]
<1>1. /\ at[e] = "start" /\ at'[e] = "ok"
      /\ call[e] \in Request /\ call[e].op = "login"
      /\ PasswordFits(call[e].user, call[e].password)
      /\ jwts' = jwts \cup {j} /\ j.user = call[e].user
      /\ UNCHANGED <<account, session>>
  BY <1>0 DEF LoginHalf, Starts, Op, GoTo, TypeOK
<1>2. Proofs' = Proofs /\ Tickets' = Tickets /\ Opened' = Opened
  BY <1>1, TicketStep
<1> HIDE DEF j
<1>3. Halves' = Halves \cup {call[e].user} /\ Opens' = Opens
  BY <1>1 DEF Halves, Opens
<1>4. /\ Proofs[e] = [kind |-> "password", user |-> call[e].user, word |-> call[e].password]
      /\ Proofs[e] \in Authority!Proof
  <2>1. Proofs[e] = [kind |-> "password", user |-> call[e].user, word |-> call[e].password]
    BY <1>1, AuthAssumption DEF Proofs, ProofOf, Op
  <2>2. QED
    BY <1>1, <2>1, RequestFields DEF Authority!Proof
<1>5. /\ Proofs[e] # None /\ Proofs[e].kind = "password"
      /\ Proofs[e].user = call[e].user /\ Proofs[e].word = call[e].password
  BY <1>4, ProofAssumption
<1>6. QED
  BY <1>1, <1>2, <1>3, <1>5 DEF Authority!Half, PasswordFits, Halves, Proofs, Tickets, Opens

\* Whoever was admitted opens one session.
LEMMA OpenStep ==
  ASSUME Inv, SafetyInv, NEW e \in Calls, Handle(e), Open(e)
  PROVE  Authority!Open(e)
<1>0. TypeOK /\ TokensKnown
  BY DEF Inv, SafetyInv
<1> DEFINE j == [user |-> seen[e].user, totpVerified |-> seen[e].totpVerified,
                 totpEnabled |-> seen[e].totpEnabled, session |-> e]
           r == [user |-> seen[e].user, totpVerified |-> seen[e].totpVerified, expired |-> FALSE]
<1>1. /\ at[e] = "open" /\ at' = [at EXCEPT ![e] = "ok"]
      /\ seen[e] \in View
      /\ session' = [session EXCEPT ![e] = r]
      /\ jwts' = jwts \cup {j}
      /\ UNCHANGED <<account, call, target, bearer, seen>>
  BY <1>0 DEF Open, GoTo, TypeOK, inputs
<1>2. r \in Session /\ r.user = seen[e].user /\ j.user = seen[e].user
  BY <1>1 DEF Session, View
<1> HIDE DEF j, r
<1>a. r # None
  BY <1>2, AuthAssumption
<1>3. Opened' = Opened \cup {e} /\ e \notin Opened
  BY <1>0, <1>1, OpenedNext DEF TokensKnown
<1>4. Proofs' = Proofs
  BY <1>1 DEF Proofs, ProofOf, Op
<1>5. Tickets[e] = seen[e].user /\ Tickets[e] # None
  BY <1>1, AuthAssumption DEF Tickets, View
<1>6. Tickets' = Tickets
  BY <1>0, <1>1, <1>3 DEF Tickets, TypeOK
<1>7. Halves' = Halves \cup {Tickets[e]}
  BY <1>1, <1>2, <1>5 DEF Halves
<1>8. Opens' = [Opens EXCEPT ![e] = Tickets[e]]
  BY <1>0, <1>1, <1>2, <1>a, <1>5 DEF Opens, TypeOK
<1>9. QED
  BY <1>1, <1>3, <1>4, <1>5, <1>6, <1>7, <1>8 DEF Authority!Open, Halves, Proofs, Tickets, Opens

\* Every other step ends sessions or changes credentials, or does neither.
LEMMA ManageStep ==
  ASSUME Inv, SafetyInv, NEW e \in Calls, Handle(e), at[e] # "open", at'[e] # "open",
         ~ LoginHalf(e)
  PROVE  Authority!Manage
<1>0. TypeOK
  BY DEF Inv
<1>1. Proofs' = Proofs /\ Tickets' = Tickets /\ Opened' = Opened /\ ~ Open(e)
  BY TicketStep
<1>2. jwts' = jwts /\ \A s \in Calls : session'[s] \in {session[s], None}
  BY <1>1, Frame
<1>3. /\ account' \in [Users -> Account \cup {None}]
      /\ \A u \in Users : account[u] = None <=> account'[u] = None
  <2>1. CASE WritePassword(e) \/ EnableTotp(e) \/ DisableTotp(e)
    <3>1. \A u \in Users : account[u] = None => account'[u] = None
      <4>1. bearer[e] \in Claims /\ bearer[e] # None
        BY <1>0, <2>1, AuthAssumption
        DEF WritePassword, EnableTotp, DisableTotp, Starts, Op, TypeOK, WithToken
      <4>2. bearer[e].user \in Users /\ account[bearer[e].user] # None
        BY <4>1 DEF Claims, Inv, UsersExist
      <4>3. QED
        BY <1>0, <2>1, <4>2 DEF WritePassword, EnableTotp, DisableTotp, TypeOK
    <3>2. QED
      BY <2>1, <3>1, ChangeKeeps
  <2>2. CASE ~ (WritePassword(e) \/ EnableTotp(e) \/ DisableTotp(e))
    <3>1. UNCHANGED account
      BY <1>0, <1>1, <2>2 DEF Handle, Reject, CountUsers, CreateUser, Login, LoginHalf, LoginFails,
         VerifyTotp, LoginWithPasskey, FindSession, Redeem, Logout, RevokeSession,
         RevokeAllOtherSessions, CheckPassword, RevokeOwn, ToOpen, GoTo, tables, TypeOK
    <3>2. QED
      BY <1>0, <3>1 DEF TypeOK
  <2>3. QED
    BY <2>1, <2>2
<1>4. /\ Opens' \in [Calls -> Users \cup {None}]
      /\ \A s \in Calls : Opens'[s] \in {Opens[s], None}
  BY <1>0, <1>2 DEF Opens, TypeOK, Session
<1>5. Halves' = Halves
  BY <1>2 DEF Halves
<1>6. QED
  BY <1>1, <1>3, <1>4, <1>5
  DEF Authority!Manage, Authority!Account, Account, Halves, Proofs, Tickets, Opens

\* The server's accounts and sessions implement the abstract authority: a
\* session goes back to one look that let its user in, or to one session that
\* it replaced.
THEOREM SessionsImplementAuthority == Spec => ImplementsAuthority
<1>1. Init => Authority!Init
  <2> SUFFICES ASSUME Init PROVE Authority!Init
    OBVIOUS
  <2>1. Opened = {} /\ account \in [Users -> Account \cup {None}]
    BY AuthAssumption DEF Init, Opened
  <2>2. QED
    BY <2>1 DEF Init, Authority!Init, Authority!Account, Account, ProofOf
<1>2. Inv /\ SafetyInv /\ [Next]_vars => [Authority!Next]_(Authority!vars)
  <2> SUFFICES ASSUME Inv, SafetyInv, [Next]_vars PROVE [Authority!Next]_(Authority!vars)
    OBVIOUS
  <2>1. ASSUME NEW e \in Calls, Receive(e) PROVE [Authority!Next]_(Authority!vars)
    BY <2>1, PresentStep
  <2>2. ASSUME NEW e \in Calls, Handle(e) PROVE Authority!Next
    <3>1. CASE Open(e)
      BY <2>2, <3>1, OpenStep DEF Authority!Next
    <3>2. CASE LoginHalf(e)
      BY <2>2, <3>2, HalfStep DEF Authority!Next
    <3>3. CASE at'[e] = "open" /\ ~ Open(e)
      <4>1. \/ Login(e) \/ VerifyTotp(e) \/ LoginWithPasskey(e)
            \/ Redeem(e)
            \/ CreateUser(e)
        BY <2>2, <3>3 DEF Inv, TypeOK, Handle, Reject, CountUsers, LoginHalf, LoginFails, FindSession,
           Logout, RevokeSession, RevokeAllOtherSessions, CheckPassword, WritePassword, EnableTotp,
           RevokeOwn, DisableTotp, Fail, GoTo
      <4>2. QED
        BY <2>2, <3>3, <4>1, AdmitStep, ExchangeStep, EnrolStep DEF Authority!Next
    <3>4. CASE at'[e] # "open" /\ ~ Open(e) /\ ~ LoginHalf(e)
      <4>1. at[e] # "open"
        BY <2>2, <3>4 DEF Handle, Reject, CountUsers, CreateUser, Login, LoginFails, VerifyTotp,
           LoginWithPasskey, FindSession, Redeem, Logout, RevokeSession, RevokeAllOtherSessions,
           CheckPassword, WritePassword, EnableTotp, RevokeOwn, DisableTotp, Starts
      <4>2. QED
        BY <2>2, <3>4, <4>1, ManageStep DEF Authority!Next
    <3>5. QED
      BY <3>1, <3>2, <3>3, <3>4
  <2>3. ASSUME NEW s \in Calls, Expire(s) PROVE UNCHANGED Authority!vars
    <3>1. TypeOK
      BY DEF Inv
    <3>2. /\ session' = [session EXCEPT ![s] = [session[s] EXCEPT !.expired = TRUE]]
          /\ session[s] \in Session
          /\ session[s] # None
      BY <2>3, <3>1 DEF Expire, TypeOK
    <3>3. /\ [session[s] EXCEPT !.expired = TRUE] \in Session
          /\ [session[s] EXCEPT !.expired = TRUE].user = session[s].user
      BY <3>2 DEF Session
    <3>4. Opens' = Opens
      BY <3>1, <3>2, <3>3, AuthAssumption DEF Opens, TypeOK
    <3>5. Halves' = Halves /\ Proofs' = Proofs /\ Tickets' = Tickets /\ Opened' = Opened
      BY <2>3 DEF Expire, inputs, Halves, Proofs, ProofOf, Op, Tickets, Opened
    <3>6. UNCHANGED account
      BY <2>3 DEF Expire
    <3>7. QED
      BY <3>4, <3>5, <3>6 DEF Authority!vars, Halves, Proofs, Tickets, Opens
  <2>4. CASE UNCHANGED vars
    <3>1. UNCHANGED Authority!vars
      BY <2>4 DEF vars, Authority!vars, ProofOf, Op, Opened
    <3>2. QED
      BY <3>1
  <2>5. QED
    BY <2>1, <2>2, <2>3, <2>4 DEF Next
<1>3. QED
  BY <1>1, <1>2, SafetyAlways, PTL DEF Spec, ImplementsAuthority, Authority!Spec
==============================================================================
