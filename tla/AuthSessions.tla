----------------------------- MODULE AuthSessions -----------------------------
(***************************************************************************)
(* Accounts, sessions and tokens: auth.controller.ts, auth.service.ts,     *)
(* users.service.ts and the two guards of apps/server/src.  A handler is   *)
(* its statements, one action each, and anything may run in between.  A    *)
(* handler that never takes its next step is one the server lost.          *)
(*                                                                         *)
(* A call opens at most one session, so a session (its id, and its refresh *)
(* token) is named for that call.  An access token is its claims; it is    *)
(* signed and not stored, so that any holder may present it.  The few      *)
(* minutes it lives are left open: it is used or not.                      *)
(***************************************************************************)
EXTENDS Naturals, FiniteSets

CONSTANTS
  Calls,         \* identifiers of API calls; each is made at most once
  Menu,          \* the calls that may be made
  Users,         \* usernames
  Passwords,
  Codes,         \* TOTP secrets, each standing for its code of the moment
  PasskeyUsers,  \* users whose browser completes a passkey ceremony
  Accounts0,     \* the users tables the server may start with
  NoTotp,
  None

Account == [password : Passwords, totp : Codes \cup {NoTotp}]

\* register, login; passkey/login/verify after its ceremony; refresh, logout
\* with the cookie; and, with an access token: totp/verify, totp/enable, DELETE
\* totp, me/password, DELETE sessions/:id and sessions/others.
Request ==
  [op : {"register", "login"}, user : Users, password : Passwords]
    \cup [op : {"passkey"}, user : PasskeyUsers]
    \cup [op : {"refresh", "logout"}]
    \cup [op : {"verify"}, code : Codes]
    \cup [op : {"enable"}, secret : Codes, code : Codes]
    \cup [op : {"disable", "revoke", "revokeOthers"}]
    \cup [op : {"password"}, current : Passwords, new : Passwords]

\* Those that come with a session (its cookie or id), and with an access token.
WithSession == {"refresh", "logout", "revoke"}
WithToken == {"verify", "enable", "disable", "revoke", "revokeOthers", "password"}

\* The payload of an access token; session = None in the partial one.
Claims == [user : Users, totpVerified : BOOLEAN, totpEnabled : BOOLEAN,
           session : Calls \cup {None}]

Session == [user : Users, totpVerified : BOOLEAN, expired : BOOLEAN]

\* What a handler read of its user, and passes to createTokens.
View == [user : Users, password : Passwords, totpVerified : BOOLEAN, totpEnabled : BOOLEAN]

ASSUME AuthAssumption ==
  /\ Menu \subseteq Request
  /\ PasskeyUsers \subseteq Users
  /\ NoTotp \notin Codes
  /\ Accounts0 \subseteq [Users -> Account \cup {None}]
  /\ None \notin Account \cup Request \cup Claims \cup Session \cup View \cup Calls \cup Users

VARIABLES
  registrationAllowed,  \* ALLOW_REGISTRATION, fixed when the server starts
  account,    \* users: username -> row, or None
  session,    \* sessions: Calls -> row, or None
  jwts,       \* the access tokens ever signed
  at,         \* Calls -> where its handler is
  call,       \* Calls -> the request
  target,     \* Calls -> the session its cookie or path names, or None
  bearer,     \* Calls -> the access token it came with, or None
  seen        \* Calls -> what it read, or None

vars == <<registrationAllowed, account, session, jwts, at, call, target, bearer, seen>>
tables == <<account, session, jwts>>
inputs == <<registrationAllowed, call, target, bearer>>

TypeOK ==
  /\ registrationAllowed \in BOOLEAN
  /\ account \in [Users -> Account \cup {None}]
  /\ session \in [Calls -> Session \cup {None}]
  /\ jwts \subseteq Claims
  /\ at \in [Calls -> {"free", "start", "create", "redeem", "open", "write", "revokeOwn",
                       "ok", "failed"}]
  /\ call \in [Calls -> Request \cup {None}]
  /\ target \in [Calls -> Calls \cup {None}]
  /\ bearer \in [Calls -> Claims \cup {None}]
  /\ seen \in [Calls -> View \cup {None}]
  /\ \A e \in Calls :
       /\ at[e] # "free" => /\ call[e] \in Request
                            /\ call[e].op \in WithSession => target[e] \in Calls
                            /\ call[e].op \in WithToken => bearer[e] \in Claims
       /\ at[e] \in {"redeem", "open"} => seen[e] \in View
       /\ at[e] = "create" => call[e].op = "register"
       /\ at[e] = "redeem" => call[e].op = "refresh"
       /\ at[e] = "write" => call[e].op = "password"
       /\ at[e] = "revokeOwn" => call[e].op = "enable"

Init ==
  /\ registrationAllowed \in BOOLEAN
  /\ account \in Accounts0
  /\ session = [e \in Calls |-> None]
  /\ jwts = {}
  /\ at = [e \in Calls |-> "free"]
  /\ call = [e \in Calls |-> None]
  /\ target = [e \in Calls |-> None]
  /\ bearer = [e \in Calls |-> None]
  /\ seen = [e \in Calls |-> None]
-----------------------------------------------------------------------------
Op(e) == call[e].op

GoTo(e, pc) == at' = [at EXCEPT ![e] = pc]

\* The sessions that were ever opened: their refresh tokens, and ids, are known.
Opened == {j.session : j \in jwts} \ {None}

Receive(e) ==
  /\ at[e] = "free"
  /\ \E q \in Menu :
       /\ call' = [call EXCEPT ![e] = q]
       /\ IF q.op \in WithSession
          THEN \E s \in Opened : target' = [target EXCEPT ![e] = s]
          ELSE UNCHANGED target
       /\ IF q.op \in WithToken
          THEN \E j \in jwts : bearer' = [bearer EXCEPT ![e] = j]
          ELSE UNCHANGED bearer
  /\ GoTo(e, "start")
  /\ UNCHANGED <<registrationAllowed, tables, seen>>

\* Mutant: the second guard is missing.
AdmittedByAny(e) == TRUE

\* JwtAuthGuard lets every access token in; TotpVerifiedGuard, on each route
\* that takes one except totp/verify, those that need no second factor.
Admitted(e) ==
  Op(e) \in WithToken \ {"verify"} => ~ (bearer[e].totpEnabled /\ ~ bearer[e].totpVerified)

Starts(e, op) == at[e] = "start" /\ Op(e) = op /\ Admitted(e)

Reject(e) ==
  /\ at[e] = "start"
  /\ ~ Admitted(e)
  /\ GoTo(e, "failed")
  /\ UNCHANGED <<tables, inputs, seen>>

\* The user's row as it is now.
Look(u, verified, enabled) ==
  [user |-> u, password |-> account[u].password, totpVerified |-> verified,
   totpEnabled |-> enabled]

\* The handler goes on to createTokens for the user it has just read.
ToOpen(e, view) ==
  /\ seen' = [seen EXCEPT ![e] = view]
  /\ GoTo(e, "open")

Fail(e) ==
  /\ GoTo(e, "failed")
  /\ UNCHANGED seen
-----------------------------------------------------------------------------
(* Registration.                                                             *)

NoUsers == \A u \in Users : account[u] = None

\* The check before the password is hashed.
CountUsers(e) ==
  /\ Starts(e, "register")
  /\ GoTo(e, IF registrationAllowed \/ NoUsers THEN "create" ELSE "failed")
  /\ UNCHANGED <<tables, inputs, seen>>

\* Mutant: the table is not counted again under the lock.
CreateUncounted(e) ==
  LET u == call[e].user IN
  /\ at[e] = "create"
  /\ account[u] = None
  /\ account' = [account EXCEPT ![u] = [password |-> call[e].password, totp |-> NoTotp]]
  /\ ToOpen(e, [user |-> u, password |-> call[e].password,
                totpVerified |-> TRUE, totpEnabled |-> FALSE])
  /\ UNCHANGED <<session, jwts, inputs>>

\* One transaction under an advisory lock: count, look for the name, insert.
CreateUser(e) ==
  LET u == call[e].user IN
  /\ at[e] = "create"
  /\ \/ /\ registrationAllowed \/ NoUsers
        /\ account[u] = None
        /\ account' = [account EXCEPT ![u] = [password |-> call[e].password, totp |-> NoTotp]]
        /\ ToOpen(e, [user |-> u, password |-> call[e].password,
                      totpVerified |-> TRUE, totpEnabled |-> FALSE])
     \/ /\ ~ (registrationAllowed \/ NoUsers) \/ account[u] # None
        /\ Fail(e)
        /\ UNCHANGED account
  /\ UNCHANGED <<session, jwts, inputs>>
-----------------------------------------------------------------------------
(* Ways in.                                                                  *)

PasswordFits(u, password) == account[u] # None /\ account[u].password = password

\* Mutant: nobody asks for the second factor.
LoginUnfactored(e) ==
  LET u == call[e].user IN
  /\ Starts(e, "login")
  /\ PasswordFits(u, call[e].password)
  /\ ToOpen(e, Look(u, TRUE, FALSE))
  /\ UNCHANGED <<tables, inputs>>

\* findByUsername, and the comparison with the hash it returned.
Login(e) ==
  LET u == call[e].user IN
  /\ Starts(e, "login")
  /\ PasswordFits(u, call[e].password)
  /\ account[u].totp = NoTotp
  /\ ToOpen(e, Look(u, TRUE, FALSE))
  /\ UNCHANGED <<tables, inputs>>

\* With a second factor there is only a partial token yet.
LoginHalf(e) ==
  LET u == call[e].user IN
  /\ Starts(e, "login")
  /\ PasswordFits(u, call[e].password)
  /\ account[u].totp # NoTotp
  /\ jwts' = jwts \cup {[user |-> u, totpVerified |-> FALSE, totpEnabled |-> TRUE,
                         session |-> None]}
  /\ GoTo(e, "ok")
  /\ UNCHANGED <<account, session, inputs, seen>>

LoginFails(e) ==
  /\ Starts(e, "login")
  /\ ~ PasswordFits(call[e].user, call[e].password)
  /\ Fail(e)
  /\ UNCHANGED <<tables, inputs>>

\* verifyTotp: the code against the secret of the user the token names.
VerifyTotp(e) ==
  LET u == bearer[e].user IN
  /\ Starts(e, "verify")
  /\ IF account[u].totp = call[e].code THEN ToOpen(e, Look(u, TRUE, TRUE)) ELSE Fail(e)
  /\ UNCHANGED <<tables, inputs>>

\* A verified passkey ceremony needs no code.
LoginWithPasskey(e) ==
  LET u == call[e].user IN
  /\ Starts(e, "passkey")
  /\ IF account[u] # None
     THEN ToOpen(e, Look(u, TRUE, account[u].totp # NoTotp))
     ELSE Fail(e)
  /\ UNCHANGED <<tables, inputs>>

\* createTokens: the sessions row, and an access token that names it.
Open(e) ==
  /\ at[e] = "open"
  /\ session' = [session EXCEPT ![e] =
       [user |-> seen[e].user, totpVerified |-> seen[e].totpVerified, expired |-> FALSE]]
  /\ jwts' = jwts \cup {[user |-> seen[e].user, totpVerified |-> seen[e].totpVerified,
                         totpEnabled |-> seen[e].totpEnabled, session |-> e]}
  /\ GoTo(e, "ok")
  /\ UNCHANGED <<account, inputs, seen>>
-----------------------------------------------------------------------------
(* refreshTokens reads the session, deletes it and opens the next one.       *)

\* Mutant: the user is not loaded with the session.
FindSessionAlone(e) ==
  LET s == target[e] IN
  /\ Starts(e, "refresh")
  /\ GoTo(e, IF session[s] # None /\ ~ session[s].expired THEN "redeem" ELSE "failed")
  /\ UNCHANGED <<tables, inputs, seen>>

FindSession(e) ==
  LET s == target[e]
      u == session[s].user IN
  /\ Starts(e, "refresh")
  /\ IF session[s] # None /\ ~ session[s].expired
     THEN /\ seen' = [seen EXCEPT ![e] =
               Look(u, session[s].totpVerified, account[u].totp # NoTotp)]
          /\ GoTo(e, "redeem")
     ELSE Fail(e)
  /\ UNCHANGED <<tables, inputs>>

\* Mutant: deleteMany, which does not mind that the row is gone.
RedeemMany(e) ==
  /\ at[e] = "redeem"
  /\ session' = [session EXCEPT ![target[e]] = None]
  /\ GoTo(e, "open")
  /\ UNCHANGED <<account, jwts, inputs, seen>>

\* delete throws when another call was faster.
Redeem(e) ==
  /\ at[e] = "redeem"
  /\ session' = [session EXCEPT ![target[e]] = None]
  /\ GoTo(e, IF session[target[e]] # None THEN "open" ELSE "failed")
  /\ UNCHANGED <<account, jwts, inputs, seen>>
-----------------------------------------------------------------------------
(* Ways out.                                                                 *)

EndSessions(S) == session' = [s \in Calls |-> IF s \in S THEN None ELSE session[s]]

SessionsOf(u) == {s \in Calls : session[s] # None /\ session[s].user = u}

Logout(e) ==
  /\ Starts(e, "logout")
  /\ EndSessions({target[e]})
  /\ GoTo(e, "ok")
  /\ UNCHANGED <<account, jwts, inputs, seen>>

\* Mutant: the session is looked up by its id alone.
RevokeAnyones(e) ==
  /\ Starts(e, "revoke")
  /\ EndSessions({target[e]})
  /\ GoTo(e, "ok")
  /\ UNCHANGED <<account, jwts, inputs, seen>>

RevokeSession(e) ==
  /\ Starts(e, "revoke")
  /\ EndSessions({target[e]} \cap SessionsOf(bearer[e].user))
  /\ GoTo(e, "ok")
  /\ UNCHANGED <<account, jwts, inputs, seen>>

RevokeAllOtherSessions(e) ==
  /\ Starts(e, "revokeOthers")
  /\ EndSessions(SessionsOf(bearer[e].user) \ {bearer[e].session})
  /\ GoTo(e, "ok")
  /\ UNCHANGED <<account, jwts, inputs, seen>>

Expire(s) ==
  /\ session[s] # None
  /\ session' = [session EXCEPT ![s].expired = TRUE]
  /\ UNCHANGED <<account, jwts, at, inputs, seen>>
-----------------------------------------------------------------------------
(* Credentials.                                                              *)

\* updatePassword verifies the current password and hashes the new one ...
CheckPassword(e) ==
  /\ Starts(e, "password")
  /\ GoTo(e, IF account[bearer[e].user].password = call[e].current THEN "write" ELSE "failed")
  /\ UNCHANGED <<tables, inputs, seen>>

\* ... and in one transaction writes it and ends the user's other sessions.
WritePassword(e) ==
  LET u == bearer[e].user IN
  /\ at[e] = "write"
  /\ account' = [account EXCEPT ![u].password = call[e].new]
  /\ EndSessions(SessionsOf(u) \ {bearer[e].session})
  /\ GoTo(e, "ok")
  /\ UNCHANGED <<jwts, inputs, seen>>

\* The secret comes from the browser, with a code for it.
EnableTotp(e) ==
  /\ Starts(e, "enable")
  /\ IF call[e].code = call[e].secret
     THEN /\ account' = [account EXCEPT ![bearer[e].user].totp = call[e].secret]
          /\ GoTo(e, "revokeOwn")
     ELSE /\ GoTo(e, "ok")
          /\ UNCHANGED account
  /\ UNCHANGED <<session, jwts, inputs, seen>>

RevokeOwn(e) ==
  /\ at[e] = "revokeOwn"
  /\ EndSessions({bearer[e].session} \cap SessionsOf(bearer[e].user))
  /\ GoTo(e, "ok")
  /\ UNCHANGED <<account, jwts, inputs, seen>>

DisableTotp(e) ==
  /\ Starts(e, "disable")
  /\ account' = [account EXCEPT ![bearer[e].user].totp = NoTotp]
  /\ GoTo(e, "ok")
  /\ UNCHANGED <<session, jwts, inputs, seen>>
-----------------------------------------------------------------------------
Handle(e) ==
  \/ Reject(e) \/ CountUsers(e) \/ CreateUser(e)
  \/ Login(e) \/ LoginHalf(e) \/ LoginFails(e) \/ VerifyTotp(e) \/ LoginWithPasskey(e) \/ Open(e)
  \/ FindSession(e) \/ Redeem(e)
  \/ Logout(e) \/ RevokeSession(e) \/ RevokeAllOtherSessions(e)
  \/ CheckPassword(e) \/ WritePassword(e) \/ EnableTotp(e) \/ RevokeOwn(e) \/ DisableTotp(e)

Next ==
  \/ \E e \in Calls : Receive(e) \/ Handle(e)
  \/ \E s \in Calls : Expire(s)

Spec == Init /\ [][Next]_vars
-----------------------------------------------------------------------------
(* Properties.                                                               *)

\* With public registration off only the first account may be made: the count
\* is taken again in the transaction, behind the lock (UsersService.create).
BootstrapOnce ==
  ~ registrationAllowed =>
    \A e, f \in Calls :
      /\ at[e] \in {"open", "ok"} /\ Op(e) = "register"
      /\ at[f] \in {"open", "ok"} /\ Op(f) = "register"
      => e = f

\* A refresh token is exchanged at most once, however many refreshes, logouts
\* and revocations run on it at a time (AuthService.refreshTokens).
RedeemedOnce ==
  \A e, f \in Calls :
    /\ at[e] \in {"open", "ok"} /\ Op(e) = "refresh"
    /\ at[f] \in {"open", "ok"} /\ Op(f) = "refresh"
    /\ target[e] = target[f]
    => e = f

\* An account that exists is changed only by a call of its own user, with a
\* token that needs no further factor: neither a partial token nor a session of
\* somebody else changes a password or a second factor.
ChangedByOwner ==
  [][\A u \in Users :
       account[u] # None /\ account'[u] # account[u] =>
         \E e \in Calls :
           /\ at[e] # at'[e]
           /\ bearer[e] # None
           /\ bearer[e].user = u
           /\ bearer[e].totpVerified]_vars

\* A session is ended only by whoever holds its refresh token or by a call of
\* its own user.
EndedByOwner ==
  [][\A s \in Calls :
       session[s] # None /\ session'[s] = None =>
         \E e \in Calls :
           /\ at[e] # at'[e]
           /\ \/ Op(e) \in {"refresh", "logout"} /\ target[e] = s
              \/ bearer[e] # None /\ bearer[e].user = session[s].user]_vars

\* Every session goes back to one look at its account that let its user in, or
\* to the one session it replaced.
ProofOf(e) ==
  CASE call[e] = None -> None
    [] call[e] # None /\ Op(e) = "login" ->
         [kind |-> "password", user |-> call[e].user, word |-> call[e].password]
    [] call[e] # None /\ Op(e) = "verify" ->
         [kind |-> "code", user |-> bearer[e].user, word |-> call[e].code]
    [] call[e] # None /\ Op(e) = "passkey" -> [kind |-> "passkey", user |-> call[e].user]
    [] call[e] # None /\ Op(e) = "refresh" -> [kind |-> "session", id |-> target[e]]
    [] OTHER -> None

Authority == INSTANCE SessionAuthority WITH
  half   <- {j.user : j \in jwts},
  proof  <- [e \in Calls |-> ProofOf(e)],
  ticket <- [e \in Calls |-> IF at[e] = "open" \/ e \in Opened THEN seen[e].user ELSE None],
  spent  <- Opened,
  open   <- [e \in Calls |-> IF session[e] # None THEN session[e].user ELSE None]

ImplementsAuthority == Authority!Spec

ASSUME ProofAssumption == None \notin Authority!Proof
==============================================================================
