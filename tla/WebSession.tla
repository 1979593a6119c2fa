------------------------------ MODULE WebSession ------------------------------
(***************************************************************************)
(* How a browser signs in and out: stores/auth.ts, lib/api.ts, main.ts,    *)
(* router/index.ts, AppLayout.vue, the views LoginView, RegisterView and   *)
(* TotpVerifyView, and the handlers of SettingsSecurityView that end       *)
(* sessions.  Tabs share the cookie jar and nothing else; a tab holds its  *)
(* access token in memory only.                                            *)
(*                                                                         *)
(* A flow is a handler of a tab that waits for an answer.  Navigation does *)
(* not cancel it and a tab may have several.  A request reaches the server *)
(* or not, and the answer the tab or not; answers overtake each other.     *)
(* Handlers of the server are one step here: AuthSessions has their parts. *)
(***************************************************************************)
EXTENDS Naturals, FiniteSets

CONSTANTS
  Users,
  TotpUsers0,  \* those with a second factor at the start
  Tabs,
  Flows,       \* handlers that can be waiting at a time
  Sessions,    \* ids of sessions; an id nobody knows any more is used again
  MaxInputs,   \* bound on what users submit, load and leave
  None

Token == [user : Users, session : Sessions \cup {None}]

Route == {"closed", "boot", "login", "register", "verify", "app"}

\* $auth and the router of a tab; left: its last logout was completed, and no
\* tab has begun to sign in or to restore a session meanwhile or since.
Tab == [route : Route, token : Token \cup {None}, requiresTotp : BOOLEAN,
        user : Users \cup {None}, left : BOOLEAN]

\* The requests after which the answer sets the cookie.
SignIns == {"login", "passkey", "register", "verify", "refresh"}

\* What SettingsSecurityView asks for: of the last three, revoke means the
\* session of this tab, revokeOne a further one.
Changes == {"enable", "disable", "password", "revoke", "revokeOne", "others"}

\* op: the handler; step: what it waits for; user: whose credentials it sends;
\* bearer, cookie: what went with the request; token: what came with the answer.
Flow ==
  [tab : Tabs, op : SignIns \cup Changes \cup {"refetch", "logout"},
   step : SignIns \cup Changes \cup {"profile", "settings", "logout", "sessions"},
   user : Users \cup {None}, bearer : Token \cup {None}, cookie : Sessions \cup {None},
   answer : {"none", "ok", "unauthorized", "failed"}, token : Token \cup {None}, alone : BOOLEAN]

ASSUME BrowserAssumption ==
  /\ TotpUsers0 \subseteq Users
  /\ MaxInputs \in Nat
  /\ None \notin Token \cup Flow \cup Users \cup Sessions

VARIABLES
  totp,     \* the server: users with a second factor ...
  session,  \* ... and its sessions: id -> user, or None
  cookie,   \* the browser's refresh cookie: a session, or None
  tab,      \* Tabs -> its state
  flow,     \* Flows -> the waiting handler, or None
  inputs,   \* how much users have submitted, loaded and left
  spoilt    \* something happened after which a reload may end at the login page

vars == <<totp, session, cookie, tab, flow, inputs, spoilt>>
server == <<totp, session>>

TypeOK ==
  /\ totp \subseteq Users
  /\ session \in [Sessions -> Users \cup {None}]
  /\ cookie \in Sessions \cup {None}
  /\ tab \in [Tabs -> Tab]
  /\ flow \in [Flows -> Flow \cup {None}]
  /\ inputs \in 0..MaxInputs
  /\ spoilt \in BOOLEAN

NewTab(route) ==
  [route |-> route, token |-> None, requiresTotp |-> FALSE, user |-> None, left |-> FALSE]

Init ==
  /\ totp = TotpUsers0
  /\ session = [n \in Sessions |-> None]
  /\ cookie = None
  /\ tab = [t \in Tabs |-> NewTab("closed")]
  /\ flow = [f \in Flows |-> None]
  /\ inputs = 0
  /\ spoilt = FALSE
-----------------------------------------------------------------------------
(* Requests.                                                                 *)

Waiting == {f \in Flows : flow[f] # None}

\* Another flow is signing in.
Busy(f) == \E g \in Waiting \ {f} : flow[g].step \in SignIns

\* The next request of flow f, with the token b or the cookie of now.
Request(f, t, op, step, u, b) ==
  [tab |-> t, op |-> op, step |-> step, user |-> u,
   bearer |-> IF step \in (SignIns \ {"verify"}) \cup {"settings", "logout"} THEN None ELSE b,
   cookie |-> IF step \in {"refresh", "logout"} THEN cookie ELSE None,
   answer |-> "none", token |-> None, alone |-> step = "logout" => ~ Busy(f)]

\* Flows with f sending r: a logout that waits is no longer alone.
Sending(f, r) ==
  [g \in Flows |->
     IF g = f THEN r
     ELSE IF flow[g] # None /\ flow[g].step = "logout" /\ r.step \in SignIns
       THEN [flow[g] EXCEPT !.alone = FALSE]
     ELSE flow[g]]

\* Two that sign in at a time may redeem, or store, in any order.
Collides(f, r) == r.step \in SignIns /\ Busy(f)

Forgets(tabs, r) == [t \in Tabs |-> [tabs[t] EXCEPT !.left = @ /\ r.step \notin SignIns]]

\* A user does something.
Input ==
  /\ inputs < MaxInputs
  /\ inputs' = inputs + 1

\* A handler of tab t begins with a request.
Begin(f, t, op, u) ==
  LET r == Request(f, t, op, op, u, tab[t].token) IN
  /\ flow[f] = None
  /\ flow' = Sending(f, r)
  /\ tab' = Forgets(tab, r)
  /\ spoilt' = (spoilt \/ Collides(f, r))
  /\ Input
  /\ UNCHANGED <<server, cookie>>

\* The handler goes on to its next request; its tab has become s.
Continue(f, s, step) ==
  LET t == flow[f].tab IN
  /\ flow' = [flow EXCEPT ![f] = Request(f, t, @.op, step, None, s.token)]
  /\ tab' = [tab EXCEPT ![t] = s]

End(f, s) ==
  /\ flow' = [flow EXCEPT ![f] = None]
  /\ tab' = [tab EXCEPT ![flow[f].tab] = s]

Ends(f) == End(f, tab[flow[f].tab]) /\ UNCHANGED <<server, cookie, inputs, spoilt>>

Answer(f, a, token) ==
  flow' = [flow EXCEPT ![f] =
    [@ EXCEPT !.answer = a, !.token = token, !.user = None, !.bearer = None, !.cookie = None]]

\* A request or an answer is lost: fetch throws.
Lose(f) ==
  /\ flow[f] # None /\ flow[f].step # "settings" /\ flow[f].answer # "failed"
  /\ Answer(f, "failed", None)
  /\ spoilt' = TRUE
  /\ UNCHANGED <<server, cookie, tab, inputs>>
-----------------------------------------------------------------------------
(* The server.                                                               *)

Arrives(f, step) == flow[f] # None /\ flow[f].step = step /\ flow[f].answer = "none"

\* Ids that nobody can name.
Fresh ==
  {n \in Sessions :
     /\ session[n] = None /\ cookie # n
     /\ \A t \in Tabs : tab[t].token # None => tab[t].token.session # n
     /\ \A g \in Waiting : /\ flow[g].cookie # n
                           /\ flow[g].bearer # None => flow[g].bearer.session # n
                           /\ flow[g].token # None => flow[g].token.session # n}

OpenFor(f, u, S) ==
  \E n \in Fresh :
    /\ session' = [m \in Sessions |-> IF m = n THEN u ELSE IF m \in S THEN None ELSE session[m]]
    /\ Answer(f, "ok", [user |-> u, session |-> n])

\* Login: with a second factor there is a partial token only, unless by passkey.
ServeSignIn(f) ==
  LET u == flow[f].user IN
  /\ \E op \in {"login", "passkey", "register"} : Arrives(f, op)
  /\ IF flow[f].op = "login" /\ u \in totp
     THEN Answer(f, "ok", [user |-> u, session |-> None]) /\ UNCHANGED session
     ELSE OpenFor(f, u, {})
  /\ UNCHANGED <<totp, cookie, tab, spoilt, inputs>>

ServeVerify(f) ==
  /\ Arrives(f, "verify")
  /\ IF flow[f].bearer # None /\ flow[f].bearer.user \in totp
     THEN OpenFor(f, flow[f].bearer.user, {})
     ELSE Answer(f, "failed", None) /\ UNCHANGED session
  /\ UNCHANGED <<totp, cookie, tab, spoilt, inputs>>

ServeRefresh(f) ==
  LET n == flow[f].cookie IN
  /\ Arrives(f, "refresh")
  /\ IF n # None /\ session[n] # None
     THEN OpenFor(f, session[n], {n})
     ELSE Answer(f, "failed", None) /\ UNCHANGED session
  /\ UNCHANGED <<totp, cookie, tab, spoilt, inputs>>

Verified(b) == b # None /\ b.session # None

\* users/me refuses a partial token, and with 401 none or one past its minutes.
ServeProfile(f) ==
  /\ Arrives(f, "profile")
  /\ \/ Verified(flow[f].bearer) /\ Answer(f, "ok", flow[f].bearer)
     \/ flow[f].bearer # None /\ ~ Verified(flow[f].bearer) /\ Answer(f, "failed", None)
     \/ Answer(f, "unauthorized", None)
  /\ UNCHANGED <<server, cookie, tab, spoilt, inputs>>

SessionsOf(token) ==
  {n \in Sessions : session[n] # None /\ Verified(token) /\ session[n] = token.user}

\* The sets of sessions that a request may end.
Ended(f) ==
  LET own == SessionsOf(flow[f].bearer)
      this == {n \in own : n = flow[f].bearer.session} IN
  CASE flow[f].step = "logout" -> {{flow[f].cookie}}
    [] flow[f].step \in {"enable", "revoke"} -> {this}
    [] flow[f].step \in {"others", "password"} -> {own \ this}
    [] flow[f].step = "revokeOne" -> {{n} : n \in own \ this} \cup {{}}
    [] OTHER -> {{}}

\* The sessions the browser has, or has coming.
Held == {cookie} \cup {flow[g].token.session : g \in {h \in Waiting : flow[h].token # None}}

ServeOther(f) ==
  LET b == flow[f].bearer IN
  /\ \E step \in Changes \cup {"logout", "sessions"} : Arrives(f, step)
  /\ \E S \in Ended(f) :
       /\ session' = [n \in Sessions |-> IF n \in S THEN None ELSE session[n]]
       /\ spoilt' = (spoilt \/ (S \cap Held) \ {None} # {})
  /\ IF flow[f].step = "logout" \/ Verified(b)
     THEN /\ totp' = IF flow[f].step = "enable" THEN totp \cup {b.user}
                     ELSE IF flow[f].step = "disable" THEN totp \ {b.user}
                     ELSE totp
          /\ Answer(f, "ok", b)
     ELSE Answer(f, "failed", None) /\ UNCHANGED totp
  /\ UNCHANGED <<cookie, tab, inputs>>
-----------------------------------------------------------------------------
(* The tab.                                                                  *)

\* Mutant: any token will do.
HasToken(s) == s.token # None

IsAuthenticated(s) == s.token # None /\ ~ s.requiresTotp

\* router.beforeEach, on the way to a route.
Go(s, to) ==
  [s EXCEPT !.route =
     IF to = "app" /\ ~ IsAuthenticated(s) THEN "login"
     ELSE IF to \in {"login", "register"} /\ IsAuthenticated(s) THEN "app"
     ELSE to]

SignedOut(s) == [s EXCEPT !.token = None, !.requiresTotp = FALSE, !.user = None]

At(f) == tab[flow[f].tab]

Gets(f, steps, answers) ==
  flow[f] # None /\ flow[f].step \in steps /\ flow[f].answer \in answers

\* The tab is opened or reloaded: what it waited for is dropped.  bootstrap.
Load(f, t) ==
  LET r == Request(f, t, "refresh", "refresh", None, None)
      dropped == {g \in Waiting : flow[g].tab = t} IN
  /\ flow[f] = None \/ f \in dropped
  /\ flow' = [g \in Flows |->
       IF g # f /\ g \in dropped THEN None ELSE Sending(f, r)[g]]
  /\ tab' = Forgets([tab EXCEPT ![t] = NewTab("boot")], r)
  /\ spoilt' = (spoilt \/ Collides(f, r) \/ \E g \in dropped : flow[g].step \in SignIns)
  /\ Input
  /\ UNCHANGED <<server, cookie>>

Navigate(t, to) ==
  /\ tab[t].route \notin {"closed", "boot"}
  /\ tab' = [tab EXCEPT ![t] = Go(@, to)]
  /\ UNCHANGED <<server, cookie, flow, spoilt, inputs>>

\* The form of LoginView, and its buttons for passkeys.
SubmitLogin(f, t) ==
  tab[t].route = "login" /\ \E u \in Users, op \in {"login", "passkey"} : Begin(f, t, op, u)

SubmitRegister(f, t) ==
  tab[t].route = "register" /\ \E u \in Users \ totp : Begin(f, t, "register", u)

SubmitVerify(f, t) == tab[t].route = "verify" /\ Begin(f, t, "verify", None)

\* The cards of SettingsSecurityView: the second factor, the password, the sessions.
ChangeTotp(f, t) ==
  tab[t].route = "app" /\ \E op \in {"enable", "disable"} : Begin(f, t, op, None)

ChangePassword(f, t) == tab[t].route = "app" /\ Begin(f, t, "password", None)

Revoke(f, t) ==
  tab[t].route = "app" /\ \E op \in {"revoke", "revokeOne", "others"} : Begin(f, t, op, None)

Submit(f, t) ==
  \/ SubmitLogin(f, t) \/ SubmitRegister(f, t) \/ SubmitVerify(f, t)
  \/ ChangeTotp(f, t) \/ ChangePassword(f, t) \/ Revoke(f, t)

\* Mutant: a fetch without credentials, whose Set-Cookie the browser ignores.
CookieNotFromRefresh(f) ==
  IF flow[f].step = "refresh" \/ flow[f].token.session = None THEN cookie
  ELSE flow[f].token.session

\* Mutant: the access token is the cookie.
TokenAsCookie(f) == flow[f].token

CookieOf(f) == IF flow[f].token.session = None THEN cookie ELSE flow[f].token.session

\* setTokens, or setRequiresTotp and on to the second factor.
ApplySignIn(f) ==
  LET token == flow[f].token
      s == [At(f) EXCEPT !.token = token, !.requiresTotp = token.session = None] IN
  /\ Gets(f, SignIns, {"ok"})
  /\ cookie' = CookieOf(f)
  /\ IF token.session = None THEN End(f, Go(s, "verify"))
     ELSE Continue(f, s, IF flow[f].op = "register" THEN "settings" ELSE "profile")
  /\ UNCHANGED <<server, spoilt, inputs>>

SignInFails(f) ==
  /\ Gets(f, SignIns \ {"refresh"}, {"failed"})
  /\ Ends(f)

\* setUser, and settings.load.
ApplyProfile(f) ==
  /\ Gets(f, {"profile"}, {"ok"})
  /\ flow[f].op # "refetch"
  /\ Continue(f, [At(f) EXCEPT !.user = flow[f].token.user], "settings")
  /\ UNCHANGED <<server, cookie, spoilt, inputs>>

\* On to the dashboard.
Settle(f) ==
  /\ Gets(f, {"settings"}, {"none"})
  /\ flow[f].op # "refresh"
  /\ End(f, Go(At(f), "app"))
  /\ UNCHANGED <<server, cookie, spoilt, inputs>>

\* Login gives up with auth.logout(); the second factor shows the error.
ProfileFails(f) ==
  /\ Gets(f, {"profile"}, {"failed", "unauthorized"})
  /\ \/ flow[f].op \in {"login", "passkey"} /\ Continue(f, SignedOut(At(f)), "logout")
     \/ flow[f].op = "verify" /\ End(f, At(f))
  /\ UNCHANGED <<server, cookie, spoilt, inputs>>

\* The application is mounted, whether a session was restored or not; AppLayout
\* asks again for a profile that is missing.
Mount(f) ==
  /\ flow[f] # None /\ flow[f].op = "refresh"
  /\ \/ Gets(f, {"refresh"}, {"failed"})
     \/ Gets(f, {"profile"}, {"failed", "unauthorized"})
     \/ Gets(f, {"settings"}, {"none"})
  /\ \E to \in Route \ {"closed", "boot"} :
       LET s == Go(At(f), to) IN
       IF s.token # None /\ s.user = None
       THEN /\ flow' = [flow EXCEPT ![f] =
                 Request(f, @.tab, "refetch", "profile", None, s.token)]
            /\ tab' = [tab EXCEPT ![flow[f].tab] = s]
       ELSE End(f, s)
  /\ UNCHANGED <<server, cookie, spoilt, inputs>>

\* refetchProfileIfMissing.
ApplyRefetch(f) ==
  /\ Gets(f, {"profile"}, {"ok", "unauthorized", "failed"})
  /\ flow[f].op = "refetch"
  /\ \/ flow[f].answer = "ok" /\ End(f, [At(f) EXCEPT !.user = flow[f].token.user])
     \/ flow[f].answer = "unauthorized" /\ End(f, SignedOut(At(f)))
     \/ flow[f].answer = "failed" /\ End(f, At(f))
  /\ UNCHANGED <<server, cookie, spoilt, inputs>>

\* handleLogout: the tab forgets at once, and then asks the server.
Logout(f, t) ==
  /\ tab[t].route = "app"
  /\ flow[f] = None
  /\ flow' = [flow EXCEPT ![f] = Request(f, t, "logout", "logout", None, None)]
  /\ tab' = [tab EXCEPT ![t] = SignedOut(@)]
  /\ Input
  /\ UNCHANGED <<server, cookie, spoilt>>

\* Mutant: nobody waits for the server.
LogoutUnawaited(f) == Gets(f, {"logout"}, {"none", "ok", "failed"})

LogoutAnswered(f) == Gets(f, {"logout"}, {"ok", "failed"})

\* The answer clears the cookie; errors are ignored.  On to the login page.
LeaveForLogin(f) ==
  /\ LogoutAnswered(f)
  /\ cookie' = IF flow[f].answer = "ok" THEN None ELSE cookie
  /\ End(f, [Go(At(f), "login") EXCEPT !.left = flow[f].alone /\ flow[f].answer # "failed"])
  /\ UNCHANGED <<server, spoilt, inputs>>

\* After enabling a second factor, revoking this session, or when no session is
\* listed any more: auth.logout().
LogsOutAfter(f) ==
  \/ Gets(f, {"enable", "revoke"}, {"ok"})
  \/ Gets(f, {"sessions"}, {"ok"}) /\ flow[f].op = "others" /\ SessionsOf(flow[f].token) = {}

\* Revoking others loads the list again.
ApplyChange(f) ==
  /\ Gets(f, Changes \cup {"sessions"}, {"ok", "failed"})
  /\ IF LogsOutAfter(f) THEN Continue(f, SignedOut(At(f)), "logout")
     ELSE IF Gets(f, {"revokeOne", "others"}, {"ok"}) THEN Continue(f, At(f), "sessions")
     ELSE End(f, At(f))
  /\ UNCHANGED <<server, cookie, spoilt, inputs>>

Serve(f) ==
  ServeSignIn(f) \/ ServeVerify(f) \/ ServeRefresh(f) \/ ServeProfile(f) \/ ServeOther(f)

Apply(f) ==
  \/ ApplySignIn(f) \/ SignInFails(f) \/ ApplyProfile(f) \/ Settle(f) \/ ProfileFails(f)
  \/ Mount(f) \/ ApplyRefetch(f) \/ LeaveForLogin(f)
  \/ ApplyChange(f)

Next ==
  \/ \E f \in Flows : Serve(f) \/ Apply(f) \/ Lose(f)
  \/ \E f \in Flows, t \in Tabs : Load(f, t) \/ Submit(f, t) \/ Logout(f, t)
  \/ \E t \in Tabs, to \in Route \ {"closed", "boot"} : Navigate(t, to)

Spec == Init /\ [][Next]_vars
-----------------------------------------------------------------------------
(* Properties.                                                               *)

\* A token that still lacks the second factor never counts as a sign-in, and no
\* page behind the login is reached with it: in whatever order the answers of
\* several handlers arrive, and wherever the user navigates meanwhile.
PartialStaysOut ==
  \A t \in Tabs :
    /\ IsAuthenticated(tab[t]) => Verified(tab[t].token)
    /\ tab[t].route = "app" => tab[t].token = None \/ Verified(tab[t].token)

\* "otherwise a fast reload could re-authenticate": when a tab has gone to the
\* login page after a logout, the browser's cookie opens nothing any more,
\* unless a sign-in ran into it or the call was lost.
LogoutSticks ==
  \A t \in Tabs :
    tab[t].left => cookie = None \/ session[cookie] = None

\* While no two sign-ins collide, nothing is lost and nobody ends the session,
\* the cookie stays good: reloads and further tabs, each of which redeems the
\* cookie for the next one, keep the browser signed in.
StaysSignedIn ==
  ~ spoilt /\ Waiting = {} /\ cookie # None => session[cookie] # None
==============================================================================
